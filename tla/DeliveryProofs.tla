--------------------------- MODULE DeliveryProofs ---------------------------
(***************************************************************************)
(* Type correctness of Delivery, no false receipts, the attempt budget, the *)
(* causes of a resend and the contract of Outbox, for any number of rows,  *)
(* platforms and overlapping sweeps.                                       *)
(***************************************************************************)
EXTENDS Delivery, FiniteSetTheorems, TLAPS

(* A sweep in state s works on rows r of its kind that exist, and reports    *)
(* ok only for a row whose recipient, by rc, has been notified.              *)
WorkerSound(s, r, rc) ==
    /\ s.pc = "idle" => s.todo = {}
    /\ s.todo \subseteq RowsOf(s.kind)
    /\ \A d \in s.todo : r[d].status # "none"
    /\ s.pc \in {"send", "drop", "record"} => s.cur \in s.todo
    /\ s.pc = "drop" => s.out = "gone"
    /\ s.pc = "record" /\ s.kind = "push" /\ s.out = "ok" => rc[s.cur] > 0

(* A result is about a row that exists, and is positive only if notified. *)
ResultSound(x, r, rc) == r[x.d].status # "none" /\ (x.ok => rc[x.d] > 0)

(* The frames on a line are about rows that exist. *)
LineSound(q, r) == \A k \in 1..Len(q) : r[q[k]].status # "none"

IInv ==
    /\ TypeOK
    /\ DeliveredWasReceived
    /\ \A w \in Workers : WorkerSound(sweep[w], row, received)
    /\ \A p \in Platforms : LineSound(down[p], row)
    /\ \A p \in Platforms : dm[p] # NoResult => ResultSound(dm[p], row, received)
    /\ \A a \in acks : ResultSound(a, row, received)

(* Rows do not vanish from history and nobody is un-notified. *)
Grows ==
    \A d \in Deliveries : /\ row[d].status # "none" => row'[d].status # "none"
                          /\ received'[d] >= received[d]

USE DEF Never

(* What holds of the parts a step leaves alone survives a growing step. *)
LEMMA Kept ==
    ASSUME IInv, TypeOK', DeliveredWasReceived', Grows,
           \A w \in Workers : sweep'[w] = sweep[w] \/ WorkerSound(sweep'[w], row', received'),
           \A p \in Platforms : down'[p] = down[p] \/ LineSound(down'[p], row'),
           \A p \in Platforms : dm'[p] = dm[p] \/ (dm'[p] # NoResult => ResultSound(dm'[p], row', received')),
           \A a \in acks' : a \in acks \/ ResultSound(a, row', received')
    PROVE  IInv'
<1>1. ASSUME NEW w \in Workers PROVE WorkerSound(sweep'[w], row', received')
  <2>1. CASE sweep'[w] = sweep[w]
    <3>1. WorkerSound(sweep[w], row, received) /\ sweep[w] \in SweepState
      BY DEF IInv, TypeOK
    <3>2. WorkerSound(sweep[w], row', received')
      <4>1. received \in [Deliveries -> Nat] /\ received' \in [Deliveries -> Nat]
        BY DEF IInv, TypeOK
      <4>2. RowsOf(sweep[w].kind) \subseteq Deliveries
        BY DEF RowsOf, PushRows, ChatRows
      <4>3. \A d \in sweep[w].todo : row'[d].status # "none"
        BY <3>1, <4>2 DEF Grows, WorkerSound
      <4>4. sweep[w].pc = "record" /\ sweep[w].kind = "push" /\ sweep[w].out = "ok"
              => received'[sweep[w].cur] > 0
        BY <3>1, <4>1, <4>2 DEF Grows, WorkerSound
      <4> QED BY <3>1, <4>3, <4>4 DEF WorkerSound
    <3> QED BY <2>1, <3>2
  <2> QED BY <2>1
<1>2. ASSUME NEW p \in Platforms PROVE LineSound(down'[p], row')
  <2>1. CASE down'[p] = down[p]
    <3>1. LineSound(down[p], row) /\ down[p] \in Seq(Deliveries)
      BY DEF IInv, TypeOK
    <3>2. \A k \in 1..Len(down[p]) : down[p][k] \in Deliveries
      BY <3>1
    <3>3. LineSound(down[p], row')
      BY <3>1, <3>2 DEF LineSound, Grows
    <3> QED BY <2>1, <3>3
  <2> QED BY <2>1
<1>3. ASSUME NEW x \in Result, ResultSound(x, row, received) PROVE ResultSound(x, row', received')
  <2>1. received[x.d] \in Nat /\ received'[x.d] \in Nat
    BY DEF IInv, TypeOK, Result
  <2> QED BY <1>3, <2>1 DEF ResultSound, Grows, Result
<1>4. ASSUME NEW p \in Platforms, dm'[p] # NoResult PROVE ResultSound(dm'[p], row', received')
  <2>1. CASE dm'[p] = dm[p]
    <3>1. dm[p] \in Result /\ ResultSound(dm[p], row, received)
      BY <1>4, <2>1 DEF IInv, TypeOK
    <3> QED BY <2>1, <3>1, <1>3
  <2> QED BY <1>4, <2>1
<1>5. ASSUME NEW a \in acks' PROVE ResultSound(a, row', received')
  <2>1. CASE a \in acks
    <3>1. a \in Result /\ ResultSound(a, row, received)
      BY <2>1 DEF IInv, TypeOK
    <3> QED BY <3>1, <1>3
  <2> QED BY <2>1
<1> QED BY <1>1, <1>2, <1>4, <1>5 DEF IInv

(* The initial state satisfies the invariant. *)
LEMMA InitIInv == Init => IInv
<1> SUFFICES ASSUME Init PROVE IInv
  OBVIOUS
<1>1. Idle \in SweepState
  BY DEF Idle, SweepState
<1>2. TypeOK
  BY <1>1, DeliveryAssumption DEF Init, TypeOK, PushRows, Row, Statuses
<1>3. DeliveredWasReceived
  BY DEF Init, DeliveredWasReceived
<1>4. \A w \in Workers : WorkerSound(sweep[w], row, received)
  BY DEF Init, WorkerSound, Idle
<1>5. \A p \in Platforms : LineSound(down[p], row)
  BY DEF Init, LineSound
<1> QED BY <1>2, <1>3, <1>4, <1>5 DEF IInv, Init

(* A sweep that leaves its current row is sound, and so is an idle one. *)
LEMMA RestSound ==
    ASSUME NEW r, NEW rc, NEW s \in SweepState, NEW todo \in SUBSET Deliveries,
           todo \subseteq RowsOf(s.kind), \A d \in todo : r[d].status # "none"
    PROVE  /\ Rest(s, todo) \in SweepState /\ WorkerSound(Rest(s, todo), r, rc)
           /\ Idle \in SweepState /\ WorkerSound(Idle, r, rc)
BY DEF Rest, Idle, SweepState, WorkerSound

(* Setting one sweep. *)
LEMMA SetSweep ==
    ASSUME TypeOK, NEW w \in Workers, NEW s \in SweepState, Set(w, s), WorkerSound(s, row', received')
    PROVE  /\ sweep' \in [Workers -> SweepState]
           /\ \A v \in Workers : sweep'[v] = sweep[v] \/ WorkerSound(sweep'[v], row', received')
<1>1. sweep' \in [Workers -> SweepState] /\ sweep'[w] = s /\ \A v \in Workers : v # w => sweep'[v] = sweep[v]
  BY DEF TypeOK, Set
<1> QED BY <1>1

(* A step that moves one sweep and touches neither rows nor recipients. *)
LEMMA MoveSweep ==
    ASSUME IInv, NEW w \in Workers, NEW s \in SweepState, Set(w, s), WorkerSound(s, row, received),
           UNCHANGED <<clock, row, cutoff, bots, received, crashes>>,
           due' \subseteq due, subs' \subseteq subs, sends' = sends,
           overlaps' \in [Deliveries -> 0..MaxOverlaps]
    PROVE  IInv'
<1> USE DEF bots
<1>1. sweep' \in [Workers -> SweepState]
      /\ \A v \in Workers : sweep'[v] = sweep[v] \/ WorkerSound(sweep'[v], row', received')
  BY SetSweep DEF IInv
<1>2. TypeOK'
  BY <1>1 DEF IInv, TypeOK
<1>3. DeliveredWasReceived' /\ Grows
  BY DEF IInv, TypeOK, DeliveredWasReceived, Grows
<1> QED BY <1>1, <1>2, <1>3, Kept

(* Every step keeps the invariant. *)
LEMMA NextIInv == IInv /\ [Next]_vars => IInv'
<1> SUFFICES ASSUME IInv, [Next]_vars PROVE IInv'
  OBVIOUS
<1> USE DEF backend, bots
<1>0. /\ clock \in Nat /\ row \in [Deliveries -> Row] /\ TypeOK
      /\ overlaps \in [Deliveries -> 0..MaxOverlaps]
      /\ received \in [Deliveries -> Nat] /\ sends \in [Deliveries -> Nat]
      /\ \A w \in Workers : sweep[w] \in SweepState /\ WorkerSound(sweep[w], row, received)
      /\ \A k : RowsOf(k) \subseteq Deliveries
  BY DeliveryAssumption DEF IInv, TypeOK, RowsOf, PushRows, ChatRows
<1>1. ASSUME NEW d \in Deliveries, Enqueue(d) PROVE IInv'
  <2>1. row' \in [Deliveries -> Row]
    BY ZenonT(40), <1>0, <1>1 DEF Enqueue, Row, Statuses
  <2>2. TypeOK'
    BY <2>1, <1>1 DEF Enqueue, IInv, TypeOK
  <2>3. DeliveredWasReceived' /\ Grows
    BY <1>0, <1>1 DEF Enqueue, IInv, DeliveredWasReceived, Grows, Row
  <2> QED BY <2>2, <2>3, <1>1, Kept DEF Enqueue
<1>2. ASSUME NEW w \in Workers, NEW kind \in {"push", "chat"}, StartSweep(w, kind) PROVE IInv'
  <2> DEFINE s0 == [Idle EXCEPT !.kind = kind, !.now = clock,
                                !.att = [d \in Deliveries |-> row[d].attempts]]
  <2>1. PICK B \in SUBSET Eligible(kind) : Set(w, Rest(s0, B))
    BY <1>2 DEF StartSweep
  <2>2. [d \in Deliveries |-> row[d].attempts] \in [Deliveries -> Nat]
    BY <1>0 DEF Row
  <2>3. s0 \in SweepState /\ s0.kind = kind
    BY <1>0, <2>2 DEF Idle, SweepState
  <2>4. B \in SUBSET Deliveries /\ B \subseteq RowsOf(kind) /\ \A d \in B : row[d].status # "none"
    BY <1>0, <2>1 DEF Eligible
  <2>a. overlaps' \in [Deliveries -> 0..MaxOverlaps]
    <3>1. PICK C \in SUBSET Eligible(kind) :
             /\ \A d \in InHand(C) : overlaps[d] < MaxOverlaps
             /\ overlaps' = [d \in Deliveries |-> IF d \in InHand(C) THEN overlaps[d] + 1 ELSE overlaps[d]]
      BY <1>2 DEF StartSweep
    <3> QED BY <1>0, <3>1, DeliveryAssumption
  <2> HIDE DEF s0
  <2>5. Rest(s0, B) \in SweepState /\ WorkerSound(Rest(s0, B), row, received)
    BY <2>3, <2>4, RestSound
  <2> QED BY <2>1, <2>5, <2>a, <1>2, MoveSweep DEF StartSweep
<1>3. ASSUME NEW w \in Workers, Step(w) PROVE IInv'
  <2> DEFINE s == sweep[w]
             d0 == s.cur
  <2>1. ASSUME NEW d \in Deliveries, PickPush(w, d) PROVE IInv'
    <3> DEFINE s1 == [s EXCEPT !.pc = "send", !.cur = d]
               s2 == [s EXCEPT !.pc = "record", !.cur = d, !.out = "gone"]
    <3>1. s1 \in SweepState /\ s2 \in SweepState
      BY <1>0 DEF SweepState
    <3>2. WorkerSound(s1, row, received) /\ WorkerSound(s2, row, received)
      BY <1>0, <2>1 DEF SweepState, WorkerSound, PickPush
    <3>3. Set(w, s1) \/ Set(w, s2)
      BY <2>1 DEF PickPush
    <3> QED BY <1>0, <2>1, <3>1, <3>2, <3>3, MoveSweep DEF PickPush
  <2>2. ASSUME NEW d \in Deliveries, PickChat(w, d) PROVE IInv'
    <3> DEFINE s1 == [s EXCEPT !.pc = "send", !.cur = d]
               s2 == Rest(s, s.todo \ {d})
    <3>1. s1 \in SweepState /\ WorkerSound(s1, row, received)
      BY <1>0, <2>2 DEF SweepState, WorkerSound, PickChat
    <3>2. s2 \in SweepState /\ WorkerSound(s2, row, received)
      <4>1. s.todo \ {d} \in SUBSET Deliveries /\ s.todo \ {d} \subseteq RowsOf(s.kind)
            /\ \A e \in s.todo \ {d} : row[e].status # "none"
        BY <1>0 DEF SweepState, WorkerSound
      <4> QED BY <1>0, <4>1, RestSound
    <3>3. Set(w, s1) \/ Set(w, s2)
      BY <2>2 DEF PickChat
    <3> QED BY <1>0, <2>2, <3>1, <3>2, <3>3, MoveSweep DEF PickChat
  <2>3. CASE PushAnswer(w)
    <3>1. PICK out \in {"ok", "gone", "error"}, reached \in BOOLEAN : SendPush(w, out, reached)
      BY <2>3 DEF PushAnswer
    <3> DEFINE s1 == [s EXCEPT !.pc = IF out = "gone" THEN "drop" ELSE "record", !.out = out]
    <3>2. d0 \in Deliveries /\ d0 \in s.todo
      BY <1>0, <3>1 DEF SendPush, WorkerSound, SweepState
    <3>3. received' \in [Deliveries -> Nat] /\ sends' \in [Deliveries -> Nat]
          /\ \A d \in Deliveries : received'[d] >= received[d]
      BY <1>0, <3>1, <3>2 DEF SendPush
    <3>4. out = "ok" => received'[d0] > 0
      BY <1>0, <3>1, <3>2 DEF SendPush
    <3>5. s1 \in SweepState
      BY <1>0 DEF SweepState
    <3>6. WorkerSound(s1, row', received')
      BY <1>0, <3>1, <3>2, <3>4 DEF WorkerSound, SweepState, SendPush
    <3>7. Set(w, s1)
      BY <3>1 DEF SendPush
    <3> HIDE DEF s1
    <3>8. sweep' \in [Workers -> SweepState]
          /\ \A v \in Workers : sweep'[v] = sweep[v] \/ WorkerSound(sweep'[v], row', received')
      BY <1>0, <3>5, <3>6, <3>7, SetSweep
    <3>9. TypeOK'
      BY <3>1, <3>3, <3>8 DEF SendPush, IInv, TypeOK
    <3>10. DeliveredWasReceived' /\ Grows
      BY <1>0, <3>1, <3>3 DEF SendPush, IInv, DeliveredWasReceived, Grows
    <3> QED BY <3>1, <3>8, <3>9, <3>10, Kept DEF SendPush
  <2>4. CASE DropSub(w)
    <3> DEFINE s1 == [s EXCEPT !.pc = "record"]
    <3>1. s1 \in SweepState
      BY <1>0 DEF SweepState
    <3>2. WorkerSound(s1, row, received)
      BY <1>0, <2>4 DEF SweepState, WorkerSound, DropSub
    <3> QED BY <1>0, <2>4, <3>1, <3>2, MoveSweep DEF DropSub
  <2>5. CASE HubDeliver(w)
    <3> DEFINE s1 == [s EXCEPT !.pc = "record"]
               s2 == Rest(s, s.todo \ {d0})
    <3>1. d0 \in Deliveries /\ d0 \in s.todo /\ s.kind = "chat" /\ Channel[d0] \in Platforms
          /\ row[d0].status # "none"
      BY <1>0, <2>5 DEF HubDeliver, WorkerSound, SweepState, RowsOf, ChatRows
    <3>2. s1 \in SweepState /\ WorkerSound(s1, row, received)
      BY <1>0, <2>5, <3>1 DEF SweepState, WorkerSound
    <3>3. s2 \in SweepState /\ WorkerSound(s2, row, received)
      <4>1. s.todo \ {d0} \in SUBSET Deliveries /\ s.todo \ {d0} \subseteq RowsOf(s.kind)
            /\ \A e \in s.todo \ {d0} : row[e].status # "none"
        BY <1>0 DEF SweepState, WorkerSound
      <4> QED BY <1>0, <4>1, RestSound
    <3>4. CASE ~Registered(Channel[d0])
      BY <1>0, <2>5, <3>3, <3>4, MoveSweep DEF HubDeliver
    <3>5. CASE Registered(Channel[d0])
      <4>1. Set(w, s1) /\ row' = row /\ received' = received
        BY <2>5, <3>5 DEF HubDeliver
      <4>2. sweep' \in [Workers -> SweepState]
            /\ \A v \in Workers : sweep'[v] = sweep[v] \/ WorkerSound(sweep'[v], row', received')
        BY <1>0, <3>2, <4>1, SetSweep
      <4>3. /\ down' \in [Platforms -> Seq(Deliveries)]
            /\ \A p \in Platforms : down'[p] = down[p] \/ LineSound(down'[p], row')
        <5>1. CASE down' = down
          BY <5>1 DEF IInv, TypeOK
        <5>2. CASE down' = [down EXCEPT ![Channel[d0]] = Append(@, d0)]
          <6>1. down \in [Platforms -> Seq(Deliveries)] /\ LineSound(down[Channel[d0]], row)
            BY <3>1 DEF IInv, TypeOK
          <6>2. LineSound(Append(down[Channel[d0]], d0), row)
            BY <3>1, <6>1 DEF LineSound
          <6>3. Append(down[Channel[d0]], d0) \in Seq(Deliveries)
            BY <3>1, <6>1
          <6> QED BY <3>1, <4>1, <5>2, <6>1, <6>2, <6>3
        <5> QED BY <2>5, <3>5, <5>1, <5>2 DEF HubDeliver
      <4>4. sends' \in [Deliveries -> Nat]
        <5>1. sends' = [sends EXCEPT ![d0] = @ + 1] /\ sends \in [Deliveries -> Nat]
          BY <2>5, <3>5 DEF HubDeliver, IInv, TypeOK
        <5> QED BY <3>1, <5>1
      <4>5. TypeOK'
        BY <2>5, <4>2, <4>3, <4>4 DEF HubDeliver, IInv, TypeOK
      <4>6. DeliveredWasReceived' /\ Grows
        BY <1>0, <4>1 DEF IInv, DeliveredWasReceived, Grows
      <4> QED BY <2>5, <4>2, <4>3, <4>5, <4>6, Kept DEF HubDeliver
    <3> QED BY <3>4, <3>5
  <2>6. CASE Record(w)
    <3> DEFINE s2 == Rest(s, s.todo \ {d0})
               new == Recorded(s, row[d0])
    <3>1. d0 \in Deliveries /\ d0 \in s.todo /\ s \in SweepState /\ row[d0] \in Row
          /\ row[d0].status # "none"
      BY <1>0, <2>6 DEF Record, WorkerSound, SweepState
    <3>2. CASE row[d0].status = "deleted"
      <4>1. Idle \in SweepState /\ WorkerSound(Idle, row, received)
        BY <1>0 DEF Idle, SweepState, WorkerSound
      <4> QED BY <1>0, <2>6, <3>2, <4>1, MoveSweep DEF Record
    <3>3. CASE row[d0].status # "deleted"
      <4>1. row' = [row EXCEPT ![d0] = new] /\ Set(w, s2) /\ received' = received
        BY <2>6, <3>3 DEF Record
      <4>2. Outcome(s, row[d0].status) \in Statuses \ {"none"}
        BY <3>1 DEF Outcome, Row, Statuses
      <4>3. new \in Row /\ new.status = Outcome(s, row[d0].status)
        <5>1. s.att[d0] + 1 \in Nat /\ s.now \in Nat
          <6>1. s.att \in [Deliveries -> Nat] /\ s.now \in Nat
            BY <3>1 DEF SweepState
          <6> QED BY <3>1, <6>1
        <5> QED BY <3>1, <4>2, <5>1 DEF Row, Recorded
      <4>4. Outcome(s, row[d0].status) = "delivered" => received[d0] > 0
        <5>1. s.kind = "push" /\ s.out = "ok" => received[d0] > 0
          BY <1>0, <2>6 DEF Record, WorkerSound
        <5>2. row[d0].status = "delivered" => received[d0] > 0
          BY <3>1 DEF IInv, DeliveredWasReceived
        <5>3. s.kind \in {"push", "chat"}
          BY <3>1 DEF SweepState
        <5>4. CASE s.kind = "chat"
          BY <5>2, <5>4 DEF Outcome
        <5>5. CASE s.kind = "push" /\ s.out = "ok"
          BY <5>1, <5>5
        <5>6. CASE s.kind = "push" /\ s.out # "ok"
          BY <5>6 DEF Outcome
        <5> QED BY <5>3, <5>4, <5>5, <5>6
      <4> HIDE DEF new
      <4>5. row' \in [Deliveries -> Row] /\ Grows
        BY <1>0, <3>1, <4>1, <4>2, <4>3 DEF Grows
      <4>6. DeliveredWasReceived'
        BY <1>0, <4>1, <4>3, <4>4 DEF IInv, DeliveredWasReceived
      <4>7. s2 \in SweepState /\ WorkerSound(s2, row', received')
        <5>1. s.todo \ {d0} \in SUBSET Deliveries /\ s.todo \ {d0} \subseteq RowsOf(s.kind)
              /\ \A e \in s.todo \ {d0} : row'[e].status # "none"
          BY <1>0, <4>5 DEF SweepState, WorkerSound, Grows
        <5> QED BY <1>0, <5>1, RestSound
      <4> HIDE DEF s2
      <4>8. sweep' \in [Workers -> SweepState]
            /\ \A v \in Workers : sweep'[v] = sweep[v] \/ WorkerSound(sweep'[v], row', received')
        BY <1>0, <4>1, <4>7, SetSweep
      <4>9. TypeOK'
        BY <2>6, <4>5, <4>8 DEF Record, IInv, TypeOK
      <4> QED BY <2>6, <4>5, <4>6, <4>8, <4>9, Kept DEF Record
    <3> QED BY <3>2, <3>3
  <2> QED BY <1>3, <2>1, <2>2, <2>3, <2>4, <2>5, <2>6 DEF Step
<1>4. ASSUME NEW p \in Platforms, NEW ok \in BOOLEAN, BotDM(p, ok) PROVE IInv'
  <2> DEFINE d == Head(down[p])
             x == [d |-> d, ok |-> ok]
  <2>1. /\ down[p] \in Seq(Deliveries) /\ down[p] # <<>> /\ d \in Deliveries /\ d = down[p][1]
        /\ Tail(down[p]) \in Seq(Deliveries) /\ 1 \in 1..Len(down[p])
        /\ Len(Tail(down[p])) = Len(down[p]) - 1
        /\ \A k \in 1..Len(Tail(down[p])) : Tail(down[p])[k] = down[p][k + 1] /\ k + 1 \in 1..Len(down[p])
    BY <1>4 DEF BotDM, IInv, TypeOK
  <2>2. LineSound(down[p], row) /\ LineSound(Tail(down[p]), row)
    BY <2>1 DEF IInv, LineSound
  <2>3. received' \in [Deliveries -> Nat] /\ (ok => received'[d] > 0)
        /\ \A e \in Deliveries : received'[e] >= received[e]
    <3>1. received' = [received EXCEPT ![d] = IF ok THEN @ + 1 ELSE @] /\ received \in [Deliveries -> Nat]
      BY <1>4 DEF BotDM, IInv, TypeOK
    <3> HIDE DEF d
    <3> QED BY <2>1, <3>1
  <2>4. x \in Result /\ ResultSound(x, row', received')
    BY <1>4, <2>1, <2>2, <2>3 DEF BotDM, Result, ResultSound, LineSound
  <2> HIDE DEF d, x
  <2>5. dm' = [dm EXCEPT ![p] = x] /\ down' = [down EXCEPT ![p] = Tail(@)]
    BY <1>4 DEF BotDM, x, d
  <2>6. TypeOK'
    BY SMTT(30), <1>4, <2>1, <2>3, <2>4, <2>5 DEF BotDM, IInv, TypeOK
  <2>7. DeliveredWasReceived' /\ Grows
    BY <1>0, <1>4, <2>3 DEF BotDM, IInv, DeliveredWasReceived, Grows
  <2>8. \A q \in Platforms : down'[q] = down[q] \/ LineSound(down'[q], row')
    BY <1>4, <2>2, <2>5 DEF BotDM, IInv, TypeOK
  <2>9. \A q \in Platforms : dm'[q] = dm[q] \/ (dm'[q] # NoResult => ResultSound(dm'[q], row', received'))
    BY <2>4, <2>5 DEF IInv, TypeOK
  <2> QED BY <1>4, <2>6, <2>7, <2>8, <2>9, Kept DEF BotDM
<1>5. ASSUME NEW p \in Platforms, BotReport(p) PROVE IInv'
  <2>1. dm[p] \in Result /\ ResultSound(dm[p], row, received)
    BY <1>5 DEF BotReport, IInv, TypeOK
  <2>2. TypeOK'
    BY <1>5, <2>1 DEF BotReport, IInv, TypeOK
  <2>3. DeliveredWasReceived' /\ Grows
    BY <1>0, <1>5 DEF BotReport, IInv, DeliveredWasReceived, Grows
  <2>4. \A q \in Platforms : dm'[q] = dm[q] \/ dm'[q] = NoResult
    BY <1>5 DEF BotReport, IInv, TypeOK
  <2>5. \A a \in acks' : a \in acks \/ ResultSound(a, row', received')
    BY <1>5, <2>1 DEF BotReport
  <2> QED BY <1>5, <2>2, <2>3, <2>4, <2>5, Kept DEF BotReport
<1>6. ASSUME NEW p \in Platforms, Connect(p) PROVE IInv'
  <2>1. TypeOK'
    BY <1>6 DEF Connect, IInv, TypeOK
  <2>2. DeliveredWasReceived' /\ Grows
    BY <1>0, <1>6 DEF Connect, IInv, DeliveredWasReceived, Grows
  <2> QED BY <1>6, <2>1, <2>2, Kept DEF Connect
<1>7. ASSUME NEW p \in Platforms, NEW left \in 0..IdleCutoff, Disconnect(p, left) PROVE IInv'
  <2>1. stale' \in [Platforms -> 0..IdleCutoff] /\ down' \in [Platforms -> Seq(Deliveries)]
        /\ acks' \subseteq acks /\ live' \subseteq Platforms /\ drops' \in 0..MaxDrops
    BY <1>7, DeliveryAssumption DEF Disconnect, IInv, TypeOK
  <2>2. TypeOK'
    BY <1>7, <2>1 DEF Disconnect, IInv, TypeOK
  <2>3. DeliveredWasReceived' /\ Grows
    BY <1>0, <1>7 DEF Disconnect, IInv, DeliveredWasReceived, Grows
  <2>4. \A q \in Platforms : down'[q] = down[q] \/ LineSound(down'[q], row')
    <3>1. \A q \in Platforms : down'[q] = down[q] \/ down'[q] = <<>>
      BY <1>7 DEF Disconnect, IInv, TypeOK
    <3> QED BY <3>1 DEF LineSound
  <2> QED BY <1>7, <2>1, <2>2, <2>3, <2>4, Kept DEF Disconnect
<1>8. ASSUME NEW a \in acks, DeliveryResult(a) PROVE IInv'
  <2>1. a \in Result /\ a.d \in Deliveries /\ ResultSound(a, row, received) /\ row[a.d] \in Row
    BY <1>0 DEF IInv, TypeOK, Result
  <2> DEFINE st == IF row[a.d].status = "deleted" THEN row[a.d].status
                     ELSE IF a.ok THEN "delivered" ELSE "failed"
  <2>2. st \in Statuses \ {"none"} /\ (st = "delivered" => received[a.d] > 0)
    BY <2>1 DEF Statuses, Row, ResultSound
  <2>3. row' = [row EXCEPT ![a.d] = [@ EXCEPT !.status = st]] /\ received' = received
    BY <1>8 DEF DeliveryResult
  <2> HIDE DEF st
  <2>4. row' \in [Deliveries -> Row] /\ Grows /\ DeliveredWasReceived'
    BY <1>0, <2>1, <2>2, <2>3 DEF Row, Grows, IInv, DeliveredWasReceived
  <2>5. TypeOK'
    BY <1>8, <2>4 DEF DeliveryResult, IInv, TypeOK
  <2> QED BY <1>8, <2>4, <2>5, Kept DEF DeliveryResult
<1>9. CASE PruneExpire
  <2>1. row' \in [Deliveries -> Row] /\ Grows /\ DeliveredWasReceived'
    BY <1>0, <1>9 DEF Expired, PruneExpire, Row, Statuses, Grows, IInv, DeliveredWasReceived
  <2>2. cutoff' \in Int
    BY <1>0, <1>9, DeliveryAssumption DEF Expired, PruneExpire
  <2>3. TypeOK'
    BY <1>9, <2>1, <2>2 DEF Expired, PruneExpire, IInv, TypeOK
  <2> QED BY <1>9, <2>1, <2>3, Kept DEF Expired, PruneExpire
<1>10. CASE PruneDelete
  <2>1. row' \in [Deliveries -> Row] /\ Grows /\ DeliveredWasReceived'
    BY <1>0, <1>10 DEF PruneDelete, Row, Statuses, Grows, IInv, DeliveredWasReceived
  <2>2. TypeOK'
    BY <1>10, <2>1 DEF PruneDelete, IInv, TypeOK
  <2> QED BY <1>10, <2>1, <2>2, Kept DEF PruneDelete
<1>11. CASE Unsubscribe
  <2>1. TypeOK'
    BY <1>11 DEF Unsubscribe, IInv, TypeOK
  <2>2. DeliveredWasReceived' /\ Grows
    BY <1>0, <1>11 DEF Unsubscribe, IInv, DeliveredWasReceived, Grows
  <2> QED BY <1>11, <2>1, <2>2, Kept DEF Unsubscribe
<1>12. CASE Crash
  <2>1. Idle \in SweepState /\ WorkerSound(Idle, row, received)
    BY DEF Idle, SweepState, WorkerSound
  <2>2. TypeOK'
    BY <1>12, <2>1, DeliveryAssumption DEF Crash, IInv, TypeOK
  <2>3. DeliveredWasReceived' /\ Grows
    BY <1>0, <1>12 DEF Crash, IInv, DeliveredWasReceived, Grows
  <2>4. \A q \in Platforms : down'[q] = down[q] \/ LineSound(down'[q], row')
    BY <1>12 DEF Crash, LineSound
  <2> QED BY <1>12, <2>1, <2>2, <2>3, <2>4, Kept DEF Crash
<1>13. CASE Tick
  <2>1. stale' \in [Platforms -> 0..IdleCutoff]
    BY <1>13, DeliveryAssumption DEF Tick, IInv, TypeOK
  <2>2. TypeOK'
    BY <1>13, <2>1, DeliveryAssumption DEF Tick, IInv, TypeOK
  <2>3. DeliveredWasReceived' /\ Grows
    BY <1>0, <1>13 DEF Tick, IInv, DeliveredWasReceived, Grows
  <2> QED BY <1>13, <2>2, <2>3, Kept DEF Tick
<1>14. CASE UNCHANGED vars
  <2>1. TypeOK'
    BY <1>14 DEF vars, IInv, TypeOK
  <2>2. DeliveredWasReceived' /\ Grows
    BY <1>0, <1>14 DEF vars, IInv, DeliveredWasReceived, Grows
  <2> QED BY <1>14, <2>1, <2>2, Kept DEF vars
<1> QED BY <1>1, <1>2, <1>3, <1>4, <1>5, <1>6, <1>7, <1>8, <1>9, <1>10, <1>11, <1>12, <1>13, <1>14
        DEF Next, Bot

(* Delivery is type correct. *)
THEOREM TypeCorrect == Spec => []TypeOK
<1>1. IInv => TypeOK
  BY DEF IInv
<1> QED BY InitIInv, NextIInv, <1>1, PTL DEF Spec

(* No row is ever marked delivered whose recipient was not notified. *)
THEOREM NoFalseReceipt == Spec => []DeliveredWasReceived
<1>1. IInv => DeliveredWasReceived
  BY DEF IInv
<1> QED BY InitIInv, NextIInv, <1>1, PTL DEF Spec
-----------------------------------------------------------------------------
(* The invariant behind the attempt budget counts, for each row, the sends    *)
(* that its attempts do not show.  While sweeps have the row in hand, a is    *)
(* what it counted when the first of them picked it: every copy they hold is  *)
(* at least a, and so what any of them writes is more than a, however they    *)
(* overwrite each other.  With what may still be sent, all they do amounts to *)
(* one send more than that, once the restarts and the sweeps that came in     *)
(* beside another are taken off, and to none more unless one of them will     *)
(* count it.                                                                  *)

InFlight(s, d) == s.cur = d /\ s.pc \in {"drop", "record"}
Holders(d) == {w \in Workers : d \in sweep[w].todo}
Ready(d) == {w \in Holders(d) : ~InFlight(sweep[w], d)}
Promised(d) == sends[d] + Cardinality(Ready(d))
Credit(d) == crashes + overlaps[d]

Paid(d, a) ==
    /\ a <= row[d].attempts /\ \A w \in Holders(d) : a <= sweep[w].att[d]
    /\ Promised(d) <= a + 1 + Credit(d)
    /\ Promised(d) = a + 1 + Credit(d) => a < row[d].attempts \/ Holders(d) # {}

Budgeted(d) ==
    /\ row[d].attempts <= MaxAttempts /\ \A w \in Holders(d) : sweep[w].att[d] < MaxAttempts
    /\ IsFiniteSet(Ready(d)) /\ Promised(d) <= MaxAttempts + Credit(d)
    /\ row[d].status # "deleted" => \E a \in Nat : Paid(d, a)

(* A row that no two sweeps have had in hand: a push row in hand has not been *)
(* settled, a chat row that is about to be sent again has waited, and one     *)
(* that was sent has the time of its dispatch.                                *)
Lapsed(d) == row[d].at # Never /\ clock - row[d].at > Redeliver
Caused(d) ==
    overlaps[d] = 0 =>
        /\ \A v, w \in Holders(d) : v = w
        /\ d \in PushRows /\ Holders(d) # {} => row[d].status \notin {"delivered", "failed"}
        /\ d \in ChatRows /\ crashes = 0 /\ sends[d] > 0 =>
             /\ Ready(d) # {} => Lapsed(d)
             /\ Holders(d) = {} => row[d].status = "deleted" \/ row[d].at # Never

(* Frames, reports and results are about chat rows. *)
ChatOnly ==
    /\ \A p \in Platforms : \A k \in 1..Len(down[p]) : down[p][k] \in ChatRows
    /\ \A p \in Platforms : dm[p] # NoResult => dm[p].d \in ChatRows
    /\ \A a \in acks : a.d \in ChatRows

Budget == ChatOnly /\ \A d \in Deliveries : Budgeted(d) /\ Caused(d)

LEMMA InitBudget == Init => Budget
<1> SUFFICES ASSUME Init PROVE Budget
  OBVIOUS
<1>1. ChatOnly
  BY DEF Init, ChatOnly
<1>2. ASSUME NEW d \in Deliveries PROVE Budgeted(d) /\ Caused(d)
  <2>1. Holders(d) = {} /\ Ready(d) = {}
    BY DEF Init, Idle, Holders, Ready
  <2>2. Promised(d) = 0 /\ Credit(d) = 0 /\ row[d].attempts = 0 /\ sends[d] = 0 /\ IsFiniteSet(Ready(d))
    BY <2>1, FS_EmptySet DEF Init, Promised, Credit
  <2>3. Paid(d, 0)
    BY <2>1, <2>2 DEF Paid
  <2> QED BY <2>1, <2>2, <2>3, DeliveryAssumption DEF Budgeted, Caused
<1> QED BY <1>1, <1>2 DEF Budget

(* What the type invariant says of a row and of a sweep. *)
LEMMA Typed ==
    ASSUME IInv
    PROVE  /\ clock \in Nat /\ crashes \in Nat /\ MaxAttempts \in Nat
           /\ \A d \in Deliveries : /\ row[d] \in Row /\ row[d].attempts \in Nat
                                    /\ row[d].at # Never => row[d].at \in Nat
                                    /\ sends[d] \in Nat /\ received[d] \in Nat /\ overlaps[d] \in Nat
           /\ \A w \in Workers : /\ sweep[w] \in SweepState /\ WorkerSound(sweep[w], row, received)
                                 /\ sweep[w].todo \subseteq Deliveries
                                 /\ \A d \in Deliveries : sweep[w].att[d] \in Nat
           /\ \A k : RowsOf(k) \subseteq Deliveries
<1>1. clock \in Nat /\ crashes \in Nat /\ MaxAttempts \in Nat
  BY DeliveryAssumption DEF IInv, TypeOK
<1>2. \A d \in Deliveries : /\ row[d] \in Row /\ row[d].attempts \in Nat
                            /\ row[d].at # Never => row[d].at \in Nat
                            /\ sends[d] \in Nat /\ received[d] \in Nat /\ overlaps[d] \in Nat
  BY SMTT(30), DeliveryAssumption DEF IInv, TypeOK, Row
<1>3. ASSUME NEW w \in Workers
      PROVE  /\ sweep[w] \in SweepState /\ WorkerSound(sweep[w], row, received)
             /\ sweep[w].todo \subseteq Deliveries
             /\ \A d \in Deliveries : sweep[w].att[d] \in Nat
  <2>1. sweep[w] \in SweepState /\ WorkerSound(sweep[w], row, received)
    BY DEF IInv, TypeOK
  <2>2. sweep[w].todo \subseteq Deliveries /\ sweep[w].att \in [Deliveries -> Nat]
    BY <2>1 DEF SweepState
  <2> QED BY <2>1, <2>2
<1>4. \A k : RowsOf(k) \subseteq Deliveries
  BY DEF RowsOf, PushRows, ChatRows
<1> QED BY <1>1, <1>2, <1>3, <1>4

(* What a step may do to a row: nothing that counts (the prune and a bot's   *)
(* result give it a status); a sweep passes over it unsent; a sweep hands it *)
(* to its channel; a sweep counts the attempt; a sweep finds it deleted.     *)
StatusKept(d) ==
    /\ row[d].status = "deleted" => row'[d].status = "deleted"
    /\ d \in PushRows /\ row[d].status \notin {"delivered", "failed"} => row'[d].status \notin {"delivered", "failed"}
Quiet(d) ==
    /\ Holders(d)' = Holders(d) /\ Ready(d)' = Ready(d) /\ sends'[d] = sends[d]
    /\ row'[d].attempts = row[d].attempts /\ row'[d].at = row[d].at /\ StatusKept(d)
Passed(w, d) ==
    /\ w \in Ready(d) /\ Ready(d)' = Ready(d) \ {w}
    /\ Holders(d)' = Holders(d) \ {w} \/ (d \in PushRows /\ Holders(d)' = Holders(d))
    /\ sends'[d] = sends[d] /\ row'[d] = row[d]
Handed(w, d) ==
    /\ w \in Ready(d) /\ Ready(d)' = Ready(d) \ {w} /\ Holders(d)' = Holders(d)
    /\ sends'[d] = sends[d] + 1 /\ row'[d] = row[d]
Counted(w, d) ==
    /\ w \in Holders(d) \ Ready(d) /\ Holders(d)' = Holders(d) \ {w} /\ Ready(d)' = Ready(d)
    /\ sends'[d] = sends[d] /\ row'[d].attempts = sweep[w].att[d] + 1 /\ row'[d].at # Never
    /\ row[d].status # "deleted"
Missing(w, d) ==
    /\ w \in Holders(d) \ Ready(d) /\ Holders(d)' = Holders(d) \ {w} /\ Ready(d)' = Ready(d)
    /\ sends'[d] = sends[d] /\ row'[d] = row[d] /\ row[d].status = "deleted"
Does(d) == Quiet(d) \/ \E w \in Workers : Passed(w, d) \/ Handed(w, d) \/ Counted(w, d) \/ Missing(w, d)

(* Fewer sweeps are about to send. *)
LEMMA OneLess ==
    ASSUME NEW d, IsFiniteSet(Ready(d)), NEW w \in Ready(d), Ready(d)' = Ready(d) \ {w}
    PROVE  IsFiniteSet(Ready(d)') /\ Cardinality(Ready(d)') = Cardinality(Ready(d)) - 1
BY FS_RemoveElement

(* A payment keeps the promise within the budget. *)
LEMMA PaidBudget ==
    ASSUME IInv, NEW d \in Deliveries, NEW a \in Nat, Paid(d, a), IsFiniteSet(Ready(d)),
           row[d].attempts <= MaxAttempts, \A w \in Holders(d) : sweep[w].att[d] < MaxAttempts
    PROVE  Promised(d) <= MaxAttempts + Credit(d)
<1>1. /\ row[d].attempts \in Nat /\ MaxAttempts \in Nat /\ Credit(d) \in Nat /\ Promised(d) \in Nat
      /\ \A w \in Holders(d) : sweep[w].att[d] \in Nat
  BY Typed, FS_CardinalityType DEF Credit, Promised, Holders
<1>2. CASE Promised(d) = a + 1 + Credit(d) /\ Holders(d) # {}
  <2>1. PICK w \in Holders(d) : a <= sweep[w].att[d] /\ sweep[w].att[d] < MaxAttempts
    BY <1>2 DEF Paid
  <2> QED BY <1>1, <1>2, <2>1
<1>3. CASE ~(Promised(d) = a + 1 + Credit(d) /\ Holders(d) # {})
  BY <1>1, <1>3 DEF Paid
<1> QED BY <1>2, <1>3

(* The budget of a row survives each of these. *)
LEMMA KeepsBudget ==
    ASSUME IInv, IInv', NEW d \in Deliveries, Budgeted(d), Does(d),
           crashes' = crashes, overlaps'[d] = overlaps[d],
           \A w \in Holders(d)' : sweep'[w].att[d] = sweep[w].att[d]
    PROVE  Budgeted(d)'
<1>0. /\ row[d].attempts \in Nat /\ row'[d].attempts \in Nat /\ MaxAttempts \in Nat
      /\ sends[d] \in Nat /\ sends'[d] \in Nat /\ Credit(d) \in Nat /\ Credit(d)' = Credit(d)
      /\ IsFiniteSet(Ready(d)) /\ Cardinality(Ready(d)) \in Nat
      /\ \A w \in Holders(d) : sweep[w].att[d] \in Nat /\ sweep[w].att[d] < MaxAttempts
  <2>1. row'[d].attempts \in Nat /\ sends'[d] \in Nat
    BY DEF IInv, TypeOK, Row
  <2>2. Credit(d) \in Nat /\ Credit(d)' = Credit(d)
    BY Typed DEF Credit
  <2>3. IsFiniteSet(Ready(d)) /\ Cardinality(Ready(d)) \in Nat
    BY FS_CardinalityType DEF Budgeted
  <2>4. \A w \in Holders(d) : sweep[w].att[d] \in Nat /\ sweep[w].att[d] < MaxAttempts
    BY Typed DEF Holders, Budgeted
  <2> QED BY Typed, <2>1, <2>2, <2>3, <2>4
<1>1. \A w \in Holders(d)' : w \in Holders(d)
  BY DEF Does, Quiet, Passed, Handed, Counted, Missing
<1>2. \A w \in Holders(d)' : sweep'[w].att[d] \in Nat /\ sweep'[w].att[d] < MaxAttempts
  BY <1>0, <1>1
<1>3. row'[d].attempts <= MaxAttempts
  BY <1>0 DEF Does, Quiet, Passed, Handed, Counted, Missing, Budgeted
<1>4. IsFiniteSet(Ready(d)') /\ Promised(d)' \in Nat /\ Promised(d)' <= Promised(d)
  <2>1. CASE Ready(d)' = Ready(d) /\ sends'[d] = sends[d]
    BY <1>0, <2>1 DEF Promised
  <2>2. CASE \E w \in Workers : Passed(w, d) \/ Handed(w, d)
    <3>1. PICK w \in Ready(d) : Ready(d)' = Ready(d) \ {w} /\ sends'[d] <= sends[d] + 1
      BY <1>0, <2>2 DEF Passed, Handed
    <3>2. IsFiniteSet(Ready(d)') /\ Cardinality(Ready(d)') = Cardinality(Ready(d)) - 1
      BY <1>0, <3>1, OneLess
    <3>3. Cardinality(Ready(d)') \in Nat
      BY <3>2, FS_CardinalityType
    <3> QED BY <1>0, <3>1, <3>2, <3>3 DEF Promised
  <2> QED BY <2>1, <2>2 DEF Does, Quiet, Counted, Missing
<1>5. CASE row'[d].status # "deleted"
  <2>1. row[d].status # "deleted"
    BY <1>5 DEF Does, Quiet, StatusKept, Passed, Handed, Counted, Missing
  <2>2. PICK a \in Nat : Paid(d, a)
    BY <2>1 DEF Budgeted
  <2>3. Promised(d) \in Nat
    BY <1>0 DEF Promised
  <2>4. a <= row'[d].attempts /\ \A w \in Holders(d)' : a <= sweep'[w].att[d]
    BY <1>0, <1>1, <2>2 DEF Does, Quiet, Passed, Handed, Counted, Missing, Paid
  <2>5. Promised(d)' = a + 1 + Credit(d) => a < row'[d].attempts \/ Holders(d)' # {}
    <3>1. CASE Quiet(d)
      BY <1>0, <1>4, <2>2, <2>3, <3>1 DEF Quiet, Paid
    <3>2. ASSUME NEW w \in Workers, Passed(w, d) PROVE Promised(d)' < Promised(d)
      <4>1. Cardinality(Ready(d)') = Cardinality(Ready(d)) - 1
        BY <1>0, <3>2, OneLess DEF Passed
      <4> QED BY <1>0, <3>2, <4>1 DEF Passed, Promised
    <3>3. CASE \E w \in Workers : Handed(w, d)
      BY <3>3 DEF Handed, Ready
    <3>4. CASE \E w \in Workers : Counted(w, d)
      BY <1>0, <2>2, <3>4 DEF Counted, Paid
    <3> QED BY <1>0, <1>4, <2>1, <2>2, <2>3, <3>1, <3>2, <3>3, <3>4 DEF Does, Missing, Paid
  <2>6. Paid(d, a)'
    BY <1>0, <1>4, <2>2, <2>3, <2>4, <2>5 DEF Paid
  <2>7. Promised(d)' <= MaxAttempts + Credit(d)'
    BY <1>0, <1>4, <2>3 DEF Budgeted
  <2> QED BY <1>2, <1>3, <1>4, <2>6, <2>7 DEF Budgeted
<1>6. CASE row'[d].status = "deleted"
  BY <1>0, <1>2, <1>3, <1>4, <1>6 DEF Budgeted, Promised
<1> QED BY <1>5, <1>6

(* So does what is known of a row that no two sweeps have had. *)
LEMMA KeepsCause ==
    ASSUME IInv, NEW d \in Deliveries, Caused(d), Does(d),
           crashes' = crashes, overlaps'[d] = overlaps[d], clock' \in Nat, clock' >= clock
    PROVE  Caused(d)'
<1> SUFFICES ASSUME overlaps[d] = 0 PROVE Caused(d)'
  BY DEF Caused
<1>0. /\ clock \in Nat /\ Redeliver \in Nat /\ (row[d].at # Never => row[d].at \in Nat) /\ sends[d] \in Nat
      /\ Ready(d) \subseteq Holders(d) /\ Ready(d)' \subseteq Holders(d)'
      /\ d \in PushRows => d \notin ChatRows
  BY Typed, DeliveryAssumption DEF Ready, PushRows
<1>1. Lapsed(d) /\ row'[d].at = row[d].at => Lapsed(d)'
  BY <1>0 DEF Lapsed
<1>2. \A v, w \in Holders(d) : v = w
  BY DEF Caused
<1>3. CASE Quiet(d)
  BY <1>0, <1>1, <1>3 DEF Quiet, StatusKept, Caused
<1>4. ASSUME NEW w \in Workers, Passed(w, d) PROVE Caused(d)'
  <2>1. Ready(d)' = {} /\ Ready(d) # {}
    BY <1>0, <1>2, <1>4 DEF Passed
  <2> QED BY <1>0, <1>4, <2>1 DEF Passed, Caused, Lapsed
<1>5. ASSUME NEW w \in Workers, Handed(w, d) PROVE Caused(d)'
  <2>1. Ready(d)' = {} /\ Holders(d) # {} /\ Holders(d)' = Holders(d)
    BY <1>0, <1>2, <1>5 DEF Handed
  <2> QED BY <1>0, <1>5, <2>1 DEF Handed, Caused
<1>6. ASSUME NEW w \in Workers, Counted(w, d) \/ Missing(w, d) PROVE Caused(d)'
  <2>1. Holders(d)' = {} /\ Ready(d)' = {}
    BY <1>0, <1>2, <1>6 DEF Counted, Missing
  <2> QED BY <1>0, <1>6, <2>1 DEF Counted, Missing, Caused
<1> QED BY <1>3, <1>4, <1>5, <1>6 DEF Does

(* The budget and the causes of all rows survive a step that does one of these *)
(* to each.                                                                   *)
LEMMA AllDo ==
    ASSUME IInv, IInv', Budget, ChatOnly', \A d \in Deliveries : Does(d),
           crashes' = crashes, overlaps' = overlaps, clock' \in Nat, clock' >= clock,
           \A d \in Deliveries : \A v \in Holders(d)' : sweep'[v].att[d] = sweep[v].att[d]
    PROVE  Budget'
<1>1. ASSUME NEW d \in Deliveries PROVE Budgeted(d)' /\ Caused(d)'
  <2>1. Budgeted(d) /\ Caused(d) /\ Does(d)
    BY DEF Budget
  <2>2. Budgeted(d)'
    BY <2>1, KeepsBudget
  <2>3. Caused(d)'
    BY <2>1, KeepsCause
  <2> QED BY <2>2, <2>3
<1> QED BY <1>1 DEF Budget

(* A step of nobody's sweep that leaves the records of the sends alone. *)
LEMMA StillBudget ==
    ASSUME IInv, IInv', Budget, ChatOnly', sweep' = sweep, sends' = sends, crashes' = crashes,
           overlaps' = overlaps, clock' \in Nat, clock' >= clock,
           \A d \in Deliveries : row'[d].attempts = row[d].attempts /\ row'[d].at = row[d].at /\ StatusKept(d)
    PROVE  Budget'
<1>1. \A d \in Deliveries : Does(d)
  BY DEF Does, Quiet, Holders, Ready
<1> QED BY <1>1, AllDo

(* One sweep moves from its state to s, with no more rows in hand than before. *)
LEMMA Shift ==
    ASSUME IInv, NEW w \in Workers, NEW s \in SweepState, Set(w, s), s.todo \subseteq sweep[w].todo, NEW d
    PROVE  /\ (d \in sweep[w].todo <=> d \in s.todo) /\ (InFlight(sweep[w], d) <=> InFlight(s, d))
                => Holders(d)' = Holders(d) /\ Ready(d)' = Ready(d)
           /\ d \notin sweep[w].todo => Holders(d)' = Holders(d) /\ Ready(d)' = Ready(d)
           /\ d \in s.todo /\ ~InFlight(sweep[w], d) /\ InFlight(s, d)
                => w \in Ready(d) /\ Ready(d)' = Ready(d) \ {w} /\ Holders(d)' = Holders(d)
           /\ d \in sweep[w].todo \ s.todo /\ ~InFlight(sweep[w], d)
                => w \in Ready(d) /\ Ready(d)' = Ready(d) \ {w} /\ Holders(d)' = Holders(d) \ {w}
           /\ d \in sweep[w].todo \ s.todo /\ InFlight(sweep[w], d)
                => w \in Holders(d) \ Ready(d) /\ Ready(d)' = Ready(d) /\ Holders(d)' = Holders(d) \ {w}
<1>1. sweep'[w] = s /\ \A v \in Workers \ {w} : sweep'[v] = sweep[v]
  BY DEF IInv, TypeOK, Set
<1>2. \A v \in Workers : /\ v \in Holders(d) <=> d \in sweep[v].todo
                         /\ v \in Ready(d) <=> d \in sweep[v].todo /\ ~InFlight(sweep[v], d)
                         /\ v \in Holders(d)' <=> d \in sweep'[v].todo
                         /\ v \in Ready(d)' <=> d \in sweep'[v].todo /\ ~InFlight(sweep'[v], d)
  BY DEF Holders, Ready
<1>3. Holders(d) \subseteq Workers /\ Ready(d) \subseteq Workers /\ Holders(d)' \subseteq Workers /\ Ready(d)' \subseteq Workers
  BY DEF Holders, Ready
<1> QED BY <1>1, <1>2, <1>3

(* A step of one sweep. *)
LEMMA SweepBudget ==
    ASSUME IInv, IInv', Budget, ChatOnly', NEW w \in Workers, NEW s \in SweepState, Set(w, s),
           s.todo \subseteq sweep[w].todo, s.todo # {} => s.att = sweep[w].att,
           UNCHANGED <<crashes, overlaps, clock>>, \A d \in Deliveries : Does(d)
    PROVE  Budget'
<1>1. sweep'[w] = s /\ \A v \in Workers \ {w} : sweep'[v] = sweep[v]
  BY DEF IInv, TypeOK, Set
<1>2. \A d \in Deliveries : \A v \in Holders(d)' : sweep'[v].att[d] = sweep[v].att[d]
  BY <1>1 DEF Holders
<1>3. clock' \in Nat /\ clock' >= clock /\ crashes' = crashes /\ overlaps' = overlaps
  BY Typed
<1> QED BY <1>2, <1>3, AllDo

(* A step of one sweep that neither sends nor records: it may pick a row, or  *)
(* let rows go that it has not sent.                                          *)
LEMMA QuietBudget ==
    ASSUME IInv, IInv', Budget, NEW w \in Workers, NEW s \in SweepState, Set(w, s),
           UNCHANGED <<row, sends, crashes, overlaps, clock, down, dm, acks>>,
           s.todo \subseteq sweep[w].todo, s.todo # {} => s.att = sweep[w].att,
           \A d \in s.todo : InFlight(sweep[w], d) => InFlight(s, d),
           \A d \in s.todo : InFlight(s, d) => InFlight(sweep[w], d) \/ d \in PushRows,
           \A d \in sweep[w].todo \ s.todo : ~InFlight(sweep[w], d)
    PROVE  Budget'
<1>1. ChatOnly'
  BY DEF Budget, ChatOnly
<1>2. ASSUME NEW d \in Deliveries PROVE Does(d)
  <2>1. row' = row /\ sends' = sends
    OBVIOUS
  <2>2. CASE Holders(d)' = Holders(d) /\ Ready(d)' = Ready(d)
    BY <2>1, <2>2 DEF Does, Quiet, StatusKept
  <2>3. CASE d \in s.todo /\ ~InFlight(sweep[w], d) /\ InFlight(s, d)
    <3>1. d \in PushRows /\ w \in Ready(d) /\ Ready(d)' = Ready(d) \ {w} /\ Holders(d)' = Holders(d)
      BY <2>3, Shift
    <3> QED BY <2>1, <3>1 DEF Does, Passed
  <2>4. CASE d \in sweep[w].todo \ s.todo
    <3>1. w \in Ready(d) /\ Ready(d)' = Ready(d) \ {w} /\ Holders(d)' = Holders(d) \ {w}
      BY <2>4, Shift
    <3> QED BY <2>1, <3>1 DEF Does, Passed
  <2>5. CASE d \notin sweep[w].todo \/ (d \in s.todo /\ (InFlight(sweep[w], d) <=> InFlight(s, d)))
    <3>1. Holders(d)' = Holders(d) /\ Ready(d)' = Ready(d)
      BY <2>5, Shift
    <3> QED BY <2>2, <3>1
  <2> QED BY <2>3, <2>4, <2>5
<1>3. UNCHANGED <<crashes, overlaps, clock>>
  OBVIOUS
<1> QED BY <1>1, <1>2, <1>3, SweepBudget

(* A sweep lets a row go that it has not sent. *)
LEMMA LetGo ==
    ASSUME IInv, IInv', Budget, NEW w \in Workers, NEW d, Set(w, Rest(sweep[w], sweep[w].todo \ {d})),
           UNCHANGED <<row, sends, crashes, overlaps, clock, down, dm, acks>>,
           \A e : ~InFlight(sweep[w], e)
    PROVE  Budget'
<1> DEFINE s2 == Rest(sweep[w], sweep[w].todo \ {d})
<1>1. sweep[w] \in SweepState
  BY Typed
<1>2. /\ s2 \in SweepState /\ s2.todo = sweep[w].todo \ {d} /\ \A e : ~InFlight(s2, e)
      /\ s2.todo # {} => s2.att = sweep[w].att
  BY <1>1 DEF Rest, Idle, SweepState, InFlight
<1>3. Set(w, s2)
  OBVIOUS
<1> HIDE DEF s2
<1>4. /\ s2.todo \subseteq sweep[w].todo
      /\ \A e \in s2.todo : InFlight(sweep[w], e) => InFlight(s2, e)
      /\ \A e \in s2.todo : InFlight(s2, e) => InFlight(sweep[w], e) \/ e \in PushRows
      /\ \A e \in sweep[w].todo \ s2.todo : ~InFlight(sweep[w], e)
  BY <1>2
<1> QED BY <1>2, <1>3, <1>4, QuietBudget

(* A sweep hands its current row to the channel. *)
LEMMA SentBudget ==
    ASSUME IInv, IInv', Budget, ChatOnly', NEW w \in Workers, NEW s \in SweepState, Set(w, s),
           NEW d0 \in sweep[w].todo, \A e : ~InFlight(sweep[w], e),
           s.todo = sweep[w].todo, s.att = sweep[w].att,
           s.cur = d0, s.pc \in {"drop", "record"},
           sends' = [sends EXCEPT ![d0] = @ + 1], UNCHANGED <<row, crashes, overlaps, clock>>
    PROVE  Budget'
<1>0. sends \in [Deliveries -> Nat] /\ d0 \in Deliveries
  BY Typed DEF IInv, TypeOK
<1>1. sends'[d0] = sends[d0] + 1 /\ \A d \in Deliveries \ {d0} : sends'[d] = sends[d]
  BY <1>0
<1>2. ASSUME NEW d \in Deliveries PROVE Does(d)
  <2>1. CASE d = d0
    <3>1. w \in Ready(d) /\ Ready(d)' = Ready(d) \ {w} /\ Holders(d)' = Holders(d)
      BY <2>1, Shift DEF InFlight
    <3> QED BY <1>1, <2>1, <3>1 DEF Does, Handed
  <2>2. CASE d # d0
    <3>1. ~InFlight(s, d) /\ ~InFlight(sweep[w], d)
      BY <2>2 DEF InFlight
    <3>2. Holders(d)' = Holders(d) /\ Ready(d)' = Ready(d)
      BY <3>1, Shift
    <3> QED BY <1>1, <2>2, <3>2 DEF Does, Quiet, StatusKept
  <2> QED BY <2>1, <2>2
<1>3. UNCHANGED <<crashes, overlaps, clock>> /\ s.todo \subseteq sweep[w].todo
  OBVIOUS
<1> QED BY <1>2, <1>3, SweepBudget

(* A sweep records what became of its row, or finds the row deleted. *)
LEMMA RecordBudget ==
    ASSUME IInv, IInv', Budget, NEW w \in Workers, Record(w)
    PROVE  Budget'
<1> DEFINE s == sweep[w]
           d0 == s.cur
           s2 == Rest(s, s.todo \ {d0})
           new == Recorded(s, row[d0])
<1> USE DEF bots
<1>0. /\ s \in SweepState /\ s.pc = "record" /\ s.todo \subseteq Deliveries /\ d0 \in s.todo
      /\ row \in [Deliveries -> Row] /\ s.now \in Nat
  BY Typed DEF Record, WorkerSound, SweepState, IInv, TypeOK
<1>1. ChatOnly' /\ sends' = sends /\ UNCHANGED <<crashes, overlaps, clock>>
  BY DEF Record, Budget, ChatOnly
<1>2. InFlight(s, d0) /\ \A d \in s.todo \ {d0} : ~InFlight(s, d)
  BY <1>0 DEF InFlight
<1>3. CASE row[d0].status = "deleted"
  <2>1. Set(w, Idle) /\ row' = row /\ Idle \in SweepState /\ Idle.todo = {}
    BY <1>3 DEF Record, Idle, SweepState
  <2>2. ASSUME NEW d \in Deliveries PROVE Does(d)
    <3>1. CASE d = d0
      <4>1. w \in Holders(d) \ Ready(d) /\ Ready(d)' = Ready(d) /\ Holders(d)' = Holders(d) \ {w}
        BY <1>0, <1>2, <2>1, <3>1, Shift
      <4> QED BY <1>1, <1>3, <2>1, <3>1, <4>1 DEF Does, Missing
    <3>2. CASE d \in s.todo \ {d0}
      <4>1. w \in Ready(d) /\ Ready(d)' = Ready(d) \ {w} /\ Holders(d)' = Holders(d) \ {w}
        BY <1>0, <1>2, <2>1, <3>2, Shift
      <4> QED BY <1>1, <2>1, <4>1 DEF Does, Passed
    <3>3. CASE d \notin s.todo
      <4>1. Holders(d)' = Holders(d) /\ Ready(d)' = Ready(d)
        BY <1>0, <2>1, <3>3, Shift
      <4> QED BY <1>1, <2>1, <4>1 DEF Does, Quiet, StatusKept
    <3> QED BY <3>1, <3>2, <3>3
  <2> QED BY <1>0, <1>1, <2>1, <2>2, SweepBudget
<1>4. CASE row[d0].status # "deleted"
  <2>1. row' = [row EXCEPT ![d0] = new] /\ Set(w, s2)
    BY <1>4 DEF Record
  <2>2. /\ s2 \in SweepState /\ s2.todo = s.todo \ {d0} /\ \A e : ~InFlight(s2, e)
        /\ s2.todo # {} => s2.att = s.att
    BY <1>0 DEF Rest, Idle, SweepState, InFlight
  <2>3. new.attempts = s.att[d0] + 1 /\ new.at = s.now
    BY <1>0 DEF Recorded, Row
  <2>4. row'[d0] = new /\ \A d \in Deliveries \ {d0} : row'[d] = row[d]
    BY <1>0, <2>1
  <2> HIDE DEF s2, new
  <2>5. s2.todo \subseteq s.todo
    BY <2>2
  <2>6. ASSUME NEW d \in Deliveries PROVE Does(d)
    <3>1. CASE d = d0
      <4>1. w \in Holders(d) \ Ready(d) /\ Ready(d)' = Ready(d) /\ Holders(d)' = Holders(d) \ {w}
        BY <1>0, <1>2, <2>1, <2>2, <2>5, <3>1, Shift
      <4> QED BY <1>0, <1>1, <1>4, <2>3, <2>4, <3>1, <4>1 DEF Does, Counted
    <3>2. CASE d # d0
      <4>1. (d \in s.todo <=> d \in s2.todo) /\ (d \in s.todo => ~InFlight(s, d)) /\ ~InFlight(s2, d)
        BY <1>2, <2>2, <3>2
      <4>2. Holders(d)' = Holders(d) /\ Ready(d)' = Ready(d)
        BY <2>1, <2>2, <2>5, <4>1, Shift
      <4> QED BY <1>1, <2>4, <3>2, <4>2 DEF Does, Quiet, StatusKept
    <3> QED BY <3>1, <3>2
  <2> QED BY <1>1, <2>1, <2>2, <2>5, <2>6, SweepBudget
<1> QED BY <1>3, <1>4

(* A sweep starts: with rows that others have in hand, counting the overlap,  *)
(* and with rows that nobody has.                                             *)
LEMMA StartBudget ==
    ASSUME IInv, IInv', Budget, NEW w \in Workers, NEW kind \in {"push", "chat"}, StartSweep(w, kind)
    PROVE  Budget'
<1> USE DEF bots
<1> DEFINE s0 == [Idle EXCEPT !.kind = kind, !.now = clock,
                              !.att = [d \in Deliveries |-> row[d].attempts]]
<1>1. PICK B \in SUBSET Eligible(kind) :
         /\ Set(w, Rest(s0, B))
         /\ overlaps' = [d \in Deliveries |-> IF d \in InHand(B) THEN overlaps[d] + 1 ELSE overlaps[d]]
  BY DEF StartSweep
<1> HIDE DEF s0
<1>a. PICK s : s = Rest(s0, B)
  OBVIOUS
<1>2. B \subseteq Deliveries /\ B \subseteq RowsOf(kind)
  BY Typed DEF Eligible
<1>3. /\ s.todo = B /\ s.pc \in {"idle", "each"}
      /\ B # {} => \A d \in Deliveries : s.att[d] = row[d].attempts
  BY <1>a DEF Rest, Idle, s0
<1>4. /\ sweep'[w] = s /\ sweep[w].todo = {}
      /\ \A v \in Workers \ {w} : sweep'[v] = sweep[v]
  BY <1>1, <1>a, Typed DEF IInv, TypeOK, Set, WorkerSound, StartSweep
<1>5. UNCHANGED <<clock, row, sends, crashes, down, dm, acks>> /\ ChatOnly'
  BY DEF StartSweep, Budget, ChatOnly
<1>6. \A d : ~InFlight(s, d)
  BY <1>3 DEF InFlight
<1>7. ASSUME NEW d \in Deliveries, d \notin B PROVE Budgeted(d)' /\ Caused(d)'
  <2>1. Holders(d)' = Holders(d) /\ Ready(d)' = Ready(d)
    BY <1>3, <1>4, <1>7 DEF Holders, Ready
  <2>2. overlaps'[d] = overlaps[d]
    BY <1>1, <1>7 DEF InHand
  <2>3. Does(d) /\ Budgeted(d) /\ Caused(d)
    BY <1>5, <2>1 DEF Does, Quiet, StatusKept, Budget
  <2>4. \A v \in Holders(d)' : sweep'[v].att[d] = sweep[v].att[d]
    BY <1>4, <2>1 DEF Holders
  <2>5. clock' \in Nat /\ clock' >= clock /\ crashes' = crashes
    BY <1>5, Typed
  <2>6. Budgeted(d)'
    BY <2>2, <2>3, <2>4, <2>5, KeepsBudget
  <2>7. Caused(d)'
    BY <2>2, <2>3, <2>5, KeepsCause
  <2> QED BY <2>6, <2>7
<1>8. ASSUME NEW d \in B PROVE Budgeted(d)' /\ Caused(d)'
  <2>0. /\ d \in Deliveries /\ row[d].status = "pending" /\ row[d].attempts < MaxAttempts
        /\ d \in ChatRows => row[d].at = Never \/ clock - row[d].at > Redeliver
        /\ s.att[d] = row[d].attempts
    BY <1>1, <1>2, <1>3, <1>8 DEF Eligible, RowsOf, PushRows
  <2>1. /\ row[d].attempts \in Nat /\ MaxAttempts \in Nat /\ sends[d] \in Nat /\ overlaps[d] \in Nat /\ crashes \in Nat
        /\ Budgeted(d) /\ Caused(d) /\ Credit(d) \in Nat
    BY <2>0, Typed DEF Budget, Credit
  <2>2. /\ w \notin Holders(d) /\ Ready(d) \subseteq Holders(d) /\ w \in Ready(d)'
        /\ Holders(d)' = Holders(d) \cup {w} /\ Ready(d)' = Ready(d) \cup {w}
    BY <1>3, <1>4, <1>6, <1>8 DEF Holders, Ready
  <2>3. IsFiniteSet(Ready(d)') /\ Cardinality(Ready(d)') = Cardinality(Ready(d)) + 1 /\ Cardinality(Ready(d)) \in Nat
    BY <2>1, <2>2, FS_AddElement, FS_CardinalityType DEF Budgeted
  <2>4. /\ \A v \in Holders(d) : sweep[v].att[d] \in Nat /\ sweep'[v].att[d] = sweep[v].att[d]
        /\ sweep'[w].att[d] = row[d].attempts
    BY <1>4, <2>0, <2>2, Typed DEF Holders
  <2>5. \A v \in Holders(d)' : sweep'[v].att[d] < MaxAttempts
    BY <2>0, <2>1, <2>2, <2>4 DEF Budgeted
  <2>6. Promised(d)' = Promised(d) + 1 /\ Promised(d) \in Nat
    BY <1>5, <2>1, <2>3 DEF Promised
  <2>7. PICK a \in Nat : Paid(d, a)
    BY <2>0, <2>1 DEF Budgeted
  <2>8. CASE Holders(d) = {}
    <3>1. d \notin InHand(B)
      BY <2>8 DEF InHand, Holders
    <3>2. overlaps'[d] = overlaps[d] /\ Credit(d)' = Credit(d)
      BY <1>1, <1>5, <2>0, <3>1 DEF Credit
    <3>3. Promised(d) <= row[d].attempts + Credit(d)
      BY <2>1, <2>6, <2>7, <2>8 DEF Paid
    <3>4. \A v \in Holders(d)' : row[d].attempts <= sweep'[v].att[d]
      BY <2>1, <2>2, <2>4, <2>8
    <3>5. Paid(d, row[d].attempts)'
      BY <1>5, <2>1, <2>2, <2>6, <3>2, <3>3, <3>4 DEF Paid
    <3>6. Promised(d)' <= MaxAttempts + Credit(d)'
      BY <2>0, <2>1, <2>6, <3>2, <3>3
    <3>7. Budgeted(d)'
      BY <1>5, <2>0, <2>1, <2>3, <2>5, <3>5, <3>6 DEF Budgeted
    <3>8. d \in ChatRows /\ crashes = 0 /\ sends[d] > 0 /\ overlaps[d] = 0 => Lapsed(d)
      BY <2>0, <2>1, <2>8 DEF Caused, Lapsed
    <3>9. Lapsed(d) => Lapsed(d)'
      BY <1>5 DEF Lapsed
    <3>10. Caused(d)'
      BY <1>5, <2>0, <2>2, <2>8, <3>2, <3>8, <3>9 DEF Caused
    <3> QED BY <3>7, <3>10
  <2>9. CASE Holders(d) # {}
    <3>1. d \in InHand(B)
      BY <1>8, <2>9 DEF InHand, Holders
    <3>2. overlaps'[d] = overlaps[d] + 1 /\ Credit(d)' = Credit(d) + 1
      BY <1>1, <1>5, <2>0, <2>1, <3>1 DEF Credit
    <3>3. a <= row[d].attempts /\ \A v \in Holders(d)' : a <= sweep'[v].att[d]
      BY <2>2, <2>4, <2>7 DEF Paid
    <3>4. Promised(d)' <= a + 1 + Credit(d)'
      BY <2>1, <2>6, <2>7, <3>2 DEF Paid
    <3>5. Paid(d, a)'
      BY <1>5, <2>2, <3>3, <3>4 DEF Paid
    <3>6. Promised(d)' <= MaxAttempts + Credit(d)'
      BY <2>1, <2>6, <3>2 DEF Budgeted
    <3>7. Budgeted(d)'
      BY <1>5, <2>0, <2>1, <2>3, <2>5, <3>5, <3>6 DEF Budgeted
    <3>8. Caused(d)'
      BY <2>1, <3>2 DEF Caused
    <3> QED BY <3>7, <3>8
  <2> QED BY <2>8, <2>9
<1> QED BY <1>5, <1>7, <1>8 DEF Budget

(* Every step keeps the budget and the causes, whatever sweeps overlap. *)
LEMMA NextBudget == IInv /\ IInv' /\ Budget /\ [Next]_vars => Budget'
<1> SUFFICES ASSUME IInv, IInv', Budget, [Next]_vars PROVE Budget'
  OBVIOUS
<1> USE DEF backend, bots
<1>0. /\ clock \in Nat /\ crashes \in Nat
      /\ \A d \in Deliveries : row[d] \in Row /\ row[d].attempts \in Nat /\ sends[d] \in Nat
      /\ \A w \in Workers : /\ sweep[w] \in SweepState /\ WorkerSound(sweep[w], row, received)
                            /\ sweep[w].todo \subseteq Deliveries
      /\ \A k : RowsOf(k) \subseteq Deliveries
  BY Typed
<1>1. ASSUME NEW d \in Deliveries, Enqueue(d) PROVE Budget'
  <2>1. ChatOnly'
    BY <1>1 DEF Enqueue, Budget, ChatOnly
  <2>2. \A e \in Deliveries : /\ row'[e].attempts = row[e].attempts /\ row'[e].at = row[e].at
                              /\ row'[e].status = row[e].status
                                   \/ (row[e].status = "none" /\ row'[e].status = "pending")
    BY <1>0, <1>1 DEF Enqueue, IInv, TypeOK, Row
  <2>3. UNCHANGED <<sweep, sends, crashes, clock, overlaps>>
    BY <1>1 DEF Enqueue
  <2> QED BY <1>0, <2>1, <2>2, <2>3, StillBudget DEF StatusKept
<1>2. ASSUME NEW w \in Workers, NEW kind \in {"push", "chat"}, StartSweep(w, kind) PROVE Budget'
  BY <1>2, StartBudget
<1>3. ASSUME NEW w \in Workers, Step(w) PROVE Budget'
  <2> DEFINE s == sweep[w]
             d0 == s.cur
  <2>1. ASSUME NEW d \in Deliveries, PickPush(w, d) PROVE Budget'
    <3> DEFINE s1 == [s EXCEPT !.pc = "send", !.cur = d]
               s2 == [s EXCEPT !.pc = "record", !.cur = d, !.out = "gone"]
    <3>1. /\ s1 \in SweepState /\ s1.todo = s.todo /\ s1.att = s.att
          /\ s2 \in SweepState /\ s2.todo = s.todo /\ s2.att = s.att
      BY <1>0 DEF SweepState
    <3>2. Set(w, s1) \/ Set(w, s2)
      BY <2>1 DEF PickPush
    <3>3. \A e : ~InFlight(s, e)
      BY <2>1 DEF PickPush, InFlight
    <3>4. \A e \in s.todo : e \in PushRows
      BY <1>0, <2>1 DEF PickPush, WorkerSound, RowsOf
    <3> HIDE DEF s1, s2
    <3> QED BY <2>1, <3>1, <3>2, <3>3, <3>4, QuietBudget DEF PickPush
  <2>2. ASSUME NEW d \in Deliveries, PickChat(w, d) PROVE Budget'
    <3> DEFINE s1 == [s EXCEPT !.pc = "send", !.cur = d]
               s2 == Rest(s, s.todo \ {d})
    <3>1. \A e : ~InFlight(s, e)
      BY <2>2 DEF PickChat, InFlight
    <3>2. CASE Set(w, s1)
      <4>1. s1 \in SweepState /\ s1.todo = s.todo /\ s1.att = s.att /\ \A e : ~InFlight(s1, e)
        BY <1>0 DEF SweepState, InFlight
      <4> HIDE DEF s1
      <4> QED BY <2>2, <3>1, <3>2, <4>1, QuietBudget DEF PickChat
    <3>3. CASE Set(w, s2)
      BY <1>0, <2>2, <3>1, <3>3, LetGo DEF PickChat
    <3> QED BY <2>2, <3>2, <3>3 DEF PickChat
  <2>3. CASE PushAnswer(w)
    <3>1. PICK out \in {"ok", "gone", "error"}, reached \in BOOLEAN : SendPush(w, out, reached)
      BY <2>3 DEF PushAnswer
    <3> DEFINE s1 == [s EXCEPT !.pc = IF out = "gone" THEN "drop" ELSE "record", !.out = out]
    <3>2. d0 \in s.todo /\ \A e : ~InFlight(s, e)
      BY <1>0, <3>1 DEF SendPush, WorkerSound, InFlight
    <3>3. sends' = [sends EXCEPT ![d0] = @ + 1] /\ UNCHANGED <<clock, row, crashes, overlaps>> /\ ChatOnly'
      BY <3>1 DEF SendPush, Budget, ChatOnly
    <3>4. /\ s1 \in SweepState /\ s1.todo = s.todo /\ s1.att = s.att
          /\ s1.cur = d0 /\ s1.pc \in {"drop", "record"} /\ Set(w, s1)
      BY <1>0, <3>1 DEF SendPush, SweepState
    <3> HIDE DEF s1
    <3> QED BY <3>2, <3>3, <3>4, SentBudget
  <2>4. CASE DropSub(w)
    <3> DEFINE s1 == [s EXCEPT !.pc = "record"]
    <3>1. /\ s1 \in SweepState /\ s1.todo = s.todo /\ s1.att = s.att
          /\ Set(w, s1) /\ \A e : InFlight(s1, e) = InFlight(s, e)
      BY <1>0, <2>4 DEF DropSub, SweepState, InFlight
    <3> HIDE DEF s1
    <3> QED BY <2>4, <3>1, QuietBudget DEF DropSub
  <2>5. CASE HubDeliver(w)
    <3> DEFINE s1 == [s EXCEPT !.pc = "record"]
               s2 == Rest(s, s.todo \ {d0})
    <3>1. /\ d0 \in Deliveries /\ d0 \in s.todo /\ Channel[d0] \in Platforms /\ d0 \in ChatRows
      BY <1>0, <2>5 DEF HubDeliver, WorkerSound, SweepState, RowsOf, ChatRows
    <3>2. \A e : ~InFlight(s, e)
      BY <2>5 DEF HubDeliver, InFlight
    <3>3. CASE ~Registered(Channel[d0])
      <4>1. Set(w, s2) /\ UNCHANGED <<row, sends, crashes, overlaps, clock, down, dm, acks>>
        BY <2>5, <3>3 DEF HubDeliver
      <4> QED BY <1>0, <3>1, <3>2, <4>1, LetGo
    <3>4. CASE Registered(Channel[d0])
      <4>1. /\ sends' = [sends EXCEPT ![d0] = @ + 1] /\ Set(w, s1)
            /\ down' = down \/ down' = [down EXCEPT ![Channel[d0]] = Append(@, d0)]
            /\ UNCHANGED <<row, crashes, overlaps, clock, dm, acks>>
        BY <2>5, <3>4 DEF HubDeliver
      <4>2. /\ s1 \in SweepState /\ s1.todo = s.todo /\ s1.att = s.att
            /\ s1.cur = d0 /\ s1.pc \in {"drop", "record"}
        BY <1>0 DEF SweepState
      <4>3. ChatOnly'
        <5>1. \A p \in Platforms : down[p] \in Seq(Deliveries)
          BY DEF IInv, TypeOK
        <5>2. \A p \in Platforms : down'[p] = down[p] \/ down'[p] = Append(down[p], d0)
          BY <3>1, <4>1 DEF IInv, TypeOK
        <5>3. ASSUME NEW p \in Platforms, NEW k \in 1..Len(down'[p]) PROVE down'[p][k] \in ChatRows
          <6>1. \A m \in 1..Len(down[p]) : down[p][m] \in ChatRows
            BY DEF Budget, ChatOnly
          <6>2. CASE down'[p] = down[p]
            BY <5>3, <6>1, <6>2
          <6>3. CASE down'[p] = Append(down[p], d0)
            <7>1. Append(down[p], d0)[k] = IF k = Len(down[p]) + 1 THEN d0 ELSE down[p][k]
              BY <3>1, <5>1, <5>3, <6>3
            <7> QED BY <3>1, <5>1, <5>3, <6>1, <6>3, <7>1
          <6> QED BY <5>2, <6>2, <6>3
        <5> QED BY <4>1, <5>3 DEF Budget, ChatOnly
      <4> HIDE DEF s1
      <4> QED BY <3>1, <3>2, <4>1, <4>2, <4>3, SentBudget
    <3> QED BY <3>3, <3>4
  <2>6. CASE Record(w)
    BY <2>6, RecordBudget
  <2> QED BY <1>3, <2>1, <2>2, <2>3, <2>4, <2>5, <2>6 DEF Step
<1>4. ASSUME NEW p \in Platforms, NEW ok \in BOOLEAN, BotDM(p, ok) PROVE Budget'
  <2>1. /\ down[p] \in Seq(Deliveries) /\ down[p] # <<>> /\ Head(down[p]) = down[p][1]
        /\ 1 \in 1..Len(down[p])
        /\ \A k \in 1..Len(Tail(down[p])) : Tail(down[p])[k] = down[p][k + 1] /\ k + 1 \in 1..Len(down[p])
    BY <1>4 DEF BotDM, IInv, TypeOK
  <2>2. Head(down[p]) \in ChatRows /\ \A k \in 1..Len(Tail(down[p])) : Tail(down[p])[k] \in ChatRows
    BY <2>1 DEF Budget, ChatOnly
  <2>3. /\ \A q \in Platforms : down'[q] = down[q] \/ down'[q] = Tail(down[p])
        /\ \A q \in Platforms : dm'[q] = dm[q] \/ dm'[q].d = Head(down[p])
    BY <1>4 DEF BotDM, IInv, TypeOK
  <2>4. ChatOnly'
    BY <1>4, <2>2, <2>3 DEF BotDM, Budget, ChatOnly
  <2> QED BY <1>0, <1>4, <2>4, StillBudget DEF BotDM, StatusKept
<1>5. ASSUME NEW p \in Platforms, BotReport(p) PROVE Budget'
  <2>1. \A q \in Platforms : dm'[q] = dm[q] \/ dm'[q] = NoResult
    BY <1>5 DEF BotReport, IInv, TypeOK
  <2>2. ChatOnly'
    BY <1>5, <2>1 DEF BotReport, Budget, ChatOnly
  <2> QED BY <1>0, <1>5, <2>2, StillBudget DEF BotReport, StatusKept
<1>6. ASSUME NEW p \in Platforms, Connect(p) PROVE Budget'
  <2>1. ChatOnly'
    BY <1>6 DEF Connect, Budget, ChatOnly
  <2> QED BY <1>0, <1>6, <2>1, StillBudget DEF Connect, StatusKept
<1>7. ASSUME NEW p \in Platforms, NEW left \in 0..IdleCutoff, Disconnect(p, left) PROVE Budget'
  <2>1. /\ \A q \in Platforms : down'[q] = down[q] \/ down'[q] = <<>>
        /\ acks' \subseteq acks /\ dm' = dm
    BY <1>7 DEF Disconnect, IInv, TypeOK
  <2>2. ChatOnly'
    BY <2>1 DEF Budget, ChatOnly
  <2> QED BY <1>0, <1>7, <2>2, StillBudget DEF Disconnect, StatusKept
<1>8. ASSUME NEW a \in acks, DeliveryResult(a) PROVE Budget'
  <2>1. a.d \in ChatRows /\ a.d \in Deliveries
    BY DEF Budget, ChatOnly, ChatRows
  <2>2. ChatOnly'
    BY <1>8 DEF DeliveryResult, Budget, ChatOnly
  <2>3. \A d \in Deliveries : /\ row'[d].attempts = row[d].attempts /\ row'[d].at = row[d].at
                              /\ row[d].status = "deleted" => row'[d].status = "deleted"
                              /\ d # a.d => row'[d] = row[d]
    <3> DEFINE st == IF row[a.d].status = "deleted" THEN row[a.d].status
                       ELSE IF a.ok THEN "delivered" ELSE "failed"
    <3>1. row' = [row EXCEPT ![a.d] = [@ EXCEPT !.status = st]]
      BY <1>8 DEF DeliveryResult
    <3>2. row[a.d].status = "deleted" => st = "deleted"
      OBVIOUS
    <3> HIDE DEF st
    <3> QED BY <1>0, <2>1, <3>1, <3>2 DEF Row, IInv, TypeOK
  <2> QED BY <1>0, <1>8, <2>1, <2>2, <2>3, StillBudget DEF DeliveryResult, PushRows, StatusKept
<1>9. CASE PruneExpire
  <2>1. ChatOnly'
    BY <1>9 DEF PruneExpire, Budget, ChatOnly
  <2>2. \A d \in Deliveries : /\ row'[d].attempts = row[d].attempts /\ row'[d].at = row[d].at
                              /\ row'[d].status = row[d].status
                                 \/ (row[d].status = "pending" /\ row'[d].status = "expired")
    <3>1. \A d \in Deliveries : row'[d] = Expired(row[d], cutoff')
      BY <1>9 DEF PruneExpire
    <3> QED BY <1>0, <3>1 DEF Expired, Row
  <2> QED BY <1>0, <1>9, <2>1, <2>2, StillBudget DEF PruneExpire, StatusKept
<1>10. CASE PruneDelete
  <2>1. ChatOnly'
    BY <1>10 DEF PruneDelete, Budget, ChatOnly
  <2>2. \A d \in Deliveries : /\ row'[d].attempts = row[d].attempts /\ row'[d].at = row[d].at
                              /\ row'[d].status = row[d].status \/ row'[d].status = "deleted"
    BY <1>0, <1>10 DEF PruneDelete, Row
  <2> QED BY <1>0, <1>10, <2>1, <2>2, StillBudget DEF PruneDelete, StatusKept
<1>11. CASE Unsubscribe
  <2>1. ChatOnly'
    BY <1>11 DEF Unsubscribe, Budget, ChatOnly
  <2> QED BY <1>0, <1>11, <2>1, StillBudget DEF Unsubscribe, StatusKept
<1>12. CASE Crash
  <2>1. /\ \A d : Holders(d)' = {} /\ Ready(d)' = {}
        /\ UNCHANGED <<row, sends, overlaps>> /\ crashes' = crashes + 1
    BY <1>12 DEF Crash, Idle, Holders, Ready
  <2>2. ChatOnly'
    BY <1>12 DEF Crash, Budget, ChatOnly
  <2>3. ASSUME NEW d \in Deliveries PROVE Budgeted(d)' /\ Caused(d)'
    <3>1. /\ Budgeted(d) /\ Caused(d) /\ Cardinality(Ready(d)) \in Nat /\ overlaps[d] \in Nat /\ MaxAttempts \in Nat
          /\ sends[d] \in Nat /\ row[d].attempts \in Nat
      BY Typed, FS_CardinalityType DEF Budget, Budgeted
    <3>2. Promised(d)' = sends[d] /\ Credit(d)' = Credit(d) + 1 /\ Credit(d) \in Nat /\ IsFiniteSet(Ready(d)')
          /\ sends[d] <= Promised(d) /\ Promised(d) \in Nat
      <4>1. Cardinality(Ready(d)') = 0 /\ IsFiniteSet(Ready(d)')
        BY <2>1, FS_EmptySet
      <4>2. Credit(d) \in Nat /\ Credit(d)' = Credit(d) + 1
        BY <1>0, <2>1, <3>1 DEF Credit
      <4>3. Promised(d)' = sends[d] + 0
        BY <2>1, <4>1 DEF Promised
      <4> QED BY <3>1, <4>1, <4>2, <4>3 DEF Promised
    <3>3. ASSUME row[d].status # "deleted" PROVE Paid(d, row[d].attempts)'
      <4>1. PICK a \in Nat : Paid(d, a)
        BY <3>1, <3>3 DEF Budgeted
      <4>2. Promised(d) <= a + 1 + Credit(d) /\ a <= row[d].attempts
        BY <4>1 DEF Paid
      <4> QED BY <2>1, <3>1, <3>2, <4>2 DEF Paid
    <3>4. Budgeted(d)'
      BY <2>1, <3>1, <3>2, <3>3 DEF Budgeted
    <3>5. Caused(d)'
      BY <1>0, <2>1 DEF Caused
    <3> QED BY <3>4, <3>5
  <2> QED BY <2>2, <2>3 DEF Budget
<1>13. CASE Tick
  <2>1. ChatOnly'
    BY <1>13 DEF Tick, Budget, ChatOnly
  <2> QED BY <1>0, <1>13, <2>1, StillBudget DEF Tick, StatusKept
<1>14. CASE UNCHANGED vars
  <2>1. ChatOnly'
    BY <1>14 DEF vars, Budget, ChatOnly
  <2> QED BY <1>0, <1>14, <2>1, StillBudget DEF vars, StatusKept
<1> QED BY <1>1, <1>2, <1>3, <1>4, <1>5, <1>6, <1>7, <1>8, <1>9, <1>10, <1>11, <1>12, <1>13, <1>14
        DEF Next, Bot
(* MAX_ATTEMPTS bounds what is sent, however many sweeps overlap: no row is     *)
(* handed to its channel more often than that, once more per restart of the   *)
(* backend, and once more per sweep that picked it while another had it in    *)
(* hand, whatever fails, however late results are, in whichever order sweeps  *)
(* write their copies back, and whichever rows the prune takes from them.     *)
THEOREM BudgetKept == Spec => []AttemptBudget
<1>1. Init => IInv /\ Budget
  BY InitIInv, InitBudget
<1>2. (IInv /\ Budget) /\ [Next]_vars => (IInv /\ Budget)'
  BY NextIInv, NextBudget
<1>3. IInv /\ Budget => AttemptBudget
  <2> SUFFICES ASSUME IInv, Budget, NEW d \in Deliveries PROVE sends[d] <= MaxAttempts + crashes + overlaps[d]
    BY DEF AttemptBudget
  <2>1. Promised(d) <= MaxAttempts + Credit(d) /\ IsFiniteSet(Ready(d))
    BY DEF Budget, Budgeted
  <2>2. Cardinality(Ready(d)) \in Nat /\ sends[d] \in Nat /\ crashes \in Nat /\ overlaps[d] \in Nat /\ MaxAttempts \in Nat
    BY <2>1, Typed, FS_CardinalityType
  <2> QED BY <2>1, <2>2 DEF Promised, Credit
<1> QED BY <1>1, <1>2, <1>3, PTL DEF Spec

(* Nothing is sent again without a cause, of any row that no two sweeps have  *)
(* had in hand: a chat row only after the ack window of its last dispatch,    *)
(* which only a restart makes the backend forget, and a push row only while   *)
(* it is unsettled.                                                           *)
THEOREM CauseKept == Spec => ResendNeedsCause
<1> DEFINE Because == \A d \in Deliveries : sends'[d] > sends[d] /\ overlaps[d] = 0 =>
                        IF d \in ChatRows
                        THEN sends[d] > 0 /\ crashes = 0 => row[d].at # Never /\ clock - row[d].at > Redeliver
                        ELSE row[d].status \notin {"delivered", "failed"}
<1> USE DEF bots
<1>1. ASSUME IInv, Budget, [Next]_vars PROVE [Because]_vars
  <2>0. \A d \in Deliveries : sends[d] \in Nat
    BY <1>1, Typed
  <2>1. ASSUME NEW w \in Workers, PushAnswer(w) \/ HubDeliver(w) PROVE Because
    <3>1. /\ sweep[w].cur \in sweep[w].todo /\ sweep[w].pc = "send" /\ sweep[w].cur \in Deliveries
          /\ \A d \in Deliveries : d # sweep[w].cur => sends'[d] = sends[d]
      BY <1>1, <2>1, Typed DEF PushAnswer, SendPush, HubDeliver, WorkerSound, IInv, TypeOK
    <3>2. w \in Ready(sweep[w].cur) /\ w \in Holders(sweep[w].cur)
      BY <3>1 DEF Ready, Holders, InFlight
    <3>3. Caused(sweep[w].cur)
      BY <1>1, <3>1 DEF Budget
    <3>4. ASSUME NEW d \in Deliveries, d = sweep[w].cur, overlaps[d] = 0
          PROVE IF d \in ChatRows
                THEN sends[d] > 0 /\ crashes = 0 => row[d].at # Never /\ clock - row[d].at > Redeliver
                ELSE row[d].status \notin {"delivered", "failed"}
      BY <3>2, <3>3, <3>4 DEF Caused, Lapsed, PushRows
    <3> QED BY <2>0, <3>1, <3>4
  <2>2. CASE sends' = sends
    BY <2>0, <2>2
  <2>3. [Next]_vars => sends' = sends \/ \E w \in Workers : PushAnswer(w) \/ HubDeliver(w)
    BY DEF Next, Step, Bot, vars, Enqueue, StartSweep, PickPush, PickChat, DropSub, Record, BotDM, BotReport,
           Connect, Disconnect, DeliveryResult, PruneExpire, PruneDelete, Unsubscribe, Crash, Tick
  <2> QED BY <1>1, <2>1, <2>2, <2>3
<1>2. Init => IInv /\ Budget
  BY InitIInv, InitBudget
<1>3. (IInv /\ Budget) /\ [Next]_vars => (IInv /\ Budget)'
  BY NextIInv, NextBudget
<1> QED BY <1>1, <1>2, <1>3, PTL DEF Spec, ResendNeedsCause
-----------------------------------------------------------------------------
(* A step that gives one row a status and touches no recipient. *)
LEMMA OneRow ==
    ASSUME NEW d0 \in Deliveries, NEW st, row'[d0].status = st, received' = received,
           \A d \in Deliveries \ {d0} : row'[d].status = row[d].status
    PROVE  Promise!Becomes(d0, st)
BY DEF Promise!Becomes

(* What the sweeps have in hand, as Outbox sees it. *)
LEMMA SameHeld ==
    ASSUME \A d \in Deliveries : Holders(d)' = Holders(d)
    PROVE  [d \in Deliveries |-> {w \in Workers : d \in sweep'[w].todo}]
             = [d \in Deliveries |-> {w \in Workers : d \in sweep[w].todo}]
BY DEF Holders

(* A step that at most lets rows go. *)
LEMMA NoRow ==
    ASSUME received' = received, \A d \in Deliveries : row'[d].status = row[d].status,
           \A d \in Deliveries : Holders(d)' \subseteq Holders(d)
    PROVE  Promise!Next
<1>1. [d \in Deliveries |-> row'[d].status] = [d \in Deliveries |-> row[d].status]
  OBVIOUS
<1>2. [d \in Deliveries |-> received'[d] > 0] = [d \in Deliveries |-> received[d] > 0]
  OBVIOUS
<1>3. /\ [d \in Deliveries |-> {w \in Workers : d \in sweep'[w].todo}] \in [Deliveries -> SUBSET Workers]
      /\ \A d \in Deliveries : {w \in Workers : d \in sweep'[w].todo} \subseteq {w \in Workers : d \in sweep[w].todo}
  BY DEF Holders
<1>4. Promise!LetGo
  BY <1>1, <1>2, <1>3 DEF Promise!LetGo
<1> QED BY <1>4 DEF Promise!Next

(* A recipient is notified. *)
LEMMA Reached ==
    ASSUME NEW d0 \in Deliveries, row' = row, row[d0].status # "none", (received'[d0] > 0) = TRUE,
           \A d \in Deliveries \ {d0} : received'[d] = received[d],
           \A d \in Deliveries : Holders(d)' = Holders(d)
    PROVE  Promise!Next
<1>1. [d \in Deliveries |-> received'[d] > 0] = [[d \in Deliveries |-> received[d] > 0] EXCEPT ![d0] = TRUE]
  BY Zenon
<1>2. Promise!Reach(d0)
  BY <1>1, SameHeld DEF Promise!Reach
<1> QED BY <1>2 DEF Promise!Next

(* One sweep keeps what it has in hand. *)
LEMMA SameTodo ==
    ASSUME IInv, NEW w \in Workers, NEW s \in SweepState, Set(w, s), s.todo = sweep[w].todo
    PROVE  \A d : Holders(d)' = Holders(d)
<1>1. sweep'[w] = s /\ \A v \in Workers \ {w} : sweep'[v] = sweep[v]
  BY DEF IInv, TypeOK, Set
<1> QED BY <1>1 DEF Holders

(* Every step of the table is one the contract allows. *)
LEMMA NextPromise == IInv /\ Budget /\ [Next]_vars => [Promise!Next]_(Promise!ovars)
<1> SUFFICES ASSUME IInv, Budget, [Next]_vars PROVE [Promise!Next]_(Promise!ovars)
  OBVIOUS
<1> USE DEF backend, bots
<1>0. /\ row \in [Deliveries -> Row] /\ received \in [Deliveries -> Nat]
      /\ \A w \in Workers : /\ sweep[w] \in SweepState /\ WorkerSound(sweep[w], row, received)
                            /\ sweep[w].todo \subseteq Deliveries
  BY Typed DEF IInv, TypeOK
<1>1. ASSUME NEW d \in Deliveries, Enqueue(d) PROVE Promise!Next
  <2>1. /\ received' = received /\ row[d].status = "none" /\ row'[d].status = "pending"
        /\ \A e \in Deliveries \ {d} : row'[e].status = row[e].status
    BY <1>0, <1>1 DEF Enqueue, Row
  <2>2. Promise!Becomes(d, "pending")
    BY <2>1, OneRow
  <2>3. \A e \in Deliveries : Holders(e)' = Holders(e)
    BY <1>1 DEF Enqueue, Holders
  <2>4. Promise!Queue(d)
    BY <2>1, <2>2, <2>3, SameHeld DEF Promise!Queue
  <2> QED BY <2>4 DEF Promise!Next
<1>2. ASSUME NEW w \in Workers, PushAnswer(w) PROVE Promise!Next
  <2>1. PICK out \in {"ok", "gone", "error"}, reached \in BOOLEAN : SendPush(w, out, reached)
    BY <1>2 DEF PushAnswer
  <2>2. sweep[w].cur \in Deliveries /\ row[sweep[w].cur].status # "none" /\ row' = row
    BY <1>0, <2>1 DEF SendPush, WorkerSound
  <2> DEFINE s1 == [sweep[w] EXCEPT !.pc = IF out = "gone" THEN "drop" ELSE "record", !.out = out]
  <2>a. s1 \in SweepState /\ s1.todo = sweep[w].todo /\ Set(w, s1)
    BY <1>0, <2>1 DEF SendPush, SweepState
  <2> HIDE DEF s1
  <2>b. \A d \in Deliveries : Holders(d)' = Holders(d)
    BY <2>a, SameTodo
  <2>3. CASE reached
    <3>1. PICK d0 \in Deliveries : d0 = sweep[w].cur
      BY <2>2
    <3>2. (received'[d0] > 0) = TRUE /\ \A d \in Deliveries \ {d0} : received'[d] = received[d]
      BY <1>0, <2>1, <2>3, <3>1 DEF SendPush
    <3> QED BY <2>2, <2>b, <3>1, <3>2, Reached
  <2>4. CASE ~reached
    <3>1. received' = received
      BY <1>0, <2>1, <2>2, <2>4 DEF SendPush
    <3> QED BY <2>2, <2>b, <3>1, NoRow
  <2> QED BY <2>3, <2>4
<1>3. ASSUME NEW w \in Workers, Record(w) PROVE Promise!Next
  <2> DEFINE s == sweep[w]
  <2>a. PICK d0 \in Deliveries : d0 = s.cur
    BY <1>0, <1>3 DEF Record, WorkerSound
  <2>b. PICK st : st = Outcome(s, row[d0].status)
    OBVIOUS
  <2>1. /\ d0 \in s.todo /\ received' = received /\ s \in SweepState
        /\ s.kind \in {"push", "chat"} /\ s.todo \subseteq RowsOf(s.kind) /\ s.todo \subseteq Deliveries
        /\ s.kind = "push" /\ s.out = "ok" => received[d0] > 0
    BY <1>0, <1>3, <2>a DEF Record, WorkerSound, SweepState
  <2>2. CASE row[d0].status = "deleted"
    <3>1. row' = row /\ Set(w, Idle)
      BY <1>3, <2>2, <2>a DEF Record
    <3>2. \A d : Holders(d)' \subseteq Holders(d)
      BY <3>1 DEF Holders, Set, Idle, IInv, TypeOK
    <3> QED BY <2>1, <3>1, <3>2, NoRow
  <2>3. CASE row[d0].status # "deleted"
    <3> DEFINE s2 == Rest(s, s.todo \ {d0})
    <3>1. row' = [row EXCEPT ![d0] = Recorded(s, @)] /\ Set(w, s2)
      BY <1>3, <2>3, <2>a DEF Record
    <3>2. row'[d0].status = st /\ \A e \in Deliveries \ {d0} : row'[e] = row[e]
      BY <1>0, <2>1, <2>a, <2>b, <3>1 DEF Recorded, Row
    <3>3. Promise!Becomes(d0, st)
      BY <2>1, <3>2, OneRow
    <3>4. s2.todo = s.todo \ {d0}
      BY <2>1 DEF Rest, Idle, SweepState
    <3> HIDE DEF s2
    <3>5. sweep'[w] = s2 /\ \A v \in Workers \ {w} : sweep'[v] = sweep[v]
      BY <3>1 DEF IInv, TypeOK, Set
    <3>6. Holders(d0)' = Holders(d0) \ {w} /\ \A d \in Deliveries \ {d0} : Holders(d)' = Holders(d)
      BY <3>4, <3>5 DEF Holders
    <3>7. CASE s.kind = "chat"
      <4>1. st = row[d0].status
        BY <2>b, <3>7 DEF Outcome
      <4> QED BY <2>1, <3>2, <3>6, <4>1, NoRow
    <3>8. CASE s.kind = "push"
      <4>1. st \in {"delivered", "failed", "pending"} /\ (st = "delivered" => (received[d0] > 0) = TRUE)
        BY <2>1, <2>b, <3>8 DEF Outcome
      <4>2. d0 \notin ChatRows /\ w \in {v \in Workers : d0 \in sweep[v].todo}
        BY <2>1, <3>8 DEF RowsOf, PushRows
      <4>3. [d \in Deliveries |-> {v \in Workers : d \in sweep'[v].todo}]
              = [[d \in Deliveries |-> {v \in Workers : d \in sweep[v].todo}] EXCEPT ![d0] = @ \ {w}]
        BY <3>6 DEF Holders
      <4>4. Promise!Settle(w, d0, st)
        BY <2>3, <3>3, <4>1, <4>2, <4>3 DEF Promise!Settle
      <4> QED BY <4>1, <4>4 DEF Promise!Next
    <3> QED BY <2>1, <3>7, <3>8
  <2> QED BY <2>2, <2>3
<1>4. ASSUME NEW p \in Platforms, NEW ok \in BOOLEAN, BotDM(p, ok) PROVE Promise!Next
  <2>1. /\ down[p] \in Seq(Deliveries) /\ down[p] # <<>> /\ Head(down[p]) = down[p][1]
        /\ 1 \in 1..Len(down[p]) /\ Head(down[p]) \in Deliveries
    BY <1>4 DEF BotDM, IInv, TypeOK
  <2>2. row[Head(down[p])].status # "none"
    BY <2>1 DEF IInv, LineSound
  <2>b. \A d \in Deliveries : Holders(d)' = Holders(d)
    BY <1>4 DEF BotDM, Holders
  <2>3. CASE ok
    <3>1. PICK d0 \in Deliveries : d0 = Head(down[p])
      BY <2>1
    <3>2. /\ row' = row /\ (received'[d0] > 0) = TRUE
          /\ \A d \in Deliveries \ {d0} : received'[d] = received[d]
      BY <1>0, <1>4, <2>3, <3>1 DEF BotDM
    <3> QED BY <2>2, <2>b, <3>1, <3>2, Reached
  <2>4. CASE ~ok
    <3>1. row' = row /\ received' = received
      BY <1>0, <1>4, <2>1, <2>4 DEF BotDM
    <3> QED BY <2>b, <3>1, NoRow
  <2> QED BY <2>3, <2>4
<1>5. ASSUME NEW a \in acks, DeliveryResult(a) PROVE Promise!Next
  <2>1. /\ a.d \in Deliveries /\ a.ok \in BOOLEAN /\ row[a.d].status # "none"
        /\ a.ok => received[a.d] > 0
        /\ a.d \in ChatRows
    BY <1>0 DEF IInv, TypeOK, Result, ResultSound, Budget, ChatOnly
  <2>a. PICK d0 \in Deliveries : d0 = a.d
    BY <2>1
  <2>b. PICK st : st = IF row[d0].status = "deleted" THEN row[d0].status
                       ELSE IF a.ok THEN "delivered" ELSE "failed"
    OBVIOUS
  <2>2. row' = [row EXCEPT ![d0] = [@ EXCEPT !.status = st]] /\ received' = received
    BY <1>5, <2>a, <2>b DEF DeliveryResult
  <2>3. row'[d0].status = st /\ \A e \in Deliveries \ {d0} : row'[e] = row[e]
    BY <1>0, <2>1, <2>2 DEF Row
  <2>4. Promise!Becomes(d0, st)
    BY <2>2, <2>3, OneRow
  <2>5. \A d \in Deliveries : Holders(d)' = Holders(d)
    BY <1>5 DEF DeliveryResult, Holders
  <2>6. CASE row[d0].status = "deleted"
    BY <2>2, <2>3, <2>5, <2>6, <2>b, NoRow
  <2>7. CASE row[d0].status # "deleted"
    <3>1. st \in {"delivered", "failed"} /\ (st = "delivered" => (received[d0] > 0) = TRUE)
      BY <2>1, <2>7, <2>a, <2>b
    <3>2. Promise!Report(d0, st)
      BY <2>1, <2>4, <2>5, <2>7, <2>a, <3>1, SameHeld DEF Promise!Report
    <3> QED BY <3>1, <3>2 DEF Promise!Next
  <2> QED BY <2>6, <2>7
<1>6. CASE PruneExpire
  <2>a. PICK D \in SUBSET Deliveries :
               D = {d \in Deliveries : row[d].status = "pending" /\ row[d].born < cutoff'}
    OBVIOUS
  <2>1. \A d \in Deliveries : row'[d] = Expired(row[d], cutoff') /\ row[d] \in Row
    BY <1>0, <1>6 DEF PruneExpire
  <2>2. \A d \in Deliveries : row'[d].status = IF d \in D THEN "expired" ELSE row[d].status
    BY <2>1, <2>a DEF Expired, Row
  <2>3. received' = received /\ \A d \in D : row[d].status \in {"pending"}
    BY <1>6, <2>a DEF PruneExpire
  <2>4. [d \in Deliveries |-> row'[d].status] =
          [d \in Deliveries |-> IF d \in D THEN "expired" ELSE [e \in Deliveries |-> row[e].status][d]]
    BY <2>2
  <2>b. \A d \in Deliveries : Holders(d)' = Holders(d)
    BY <1>6 DEF PruneExpire, Holders
  <2>5. Promise!Sweep({"pending"}, "expired")
    BY <2>3, <2>4, <2>b, SameHeld DEF Promise!Sweep
  <2> QED BY <2>5 DEF Promise!Next
<1>7. CASE PruneDelete
  <2>a. PICK D \in SUBSET Deliveries :
               D = {d \in Deliveries : row[d].status \in {"delivered", "failed", "expired"} /\ row[d].born < cutoff}
    OBVIOUS
  <2>1. \A d \in Deliveries : /\ row[d] \in Row
                              /\ row'[d] = IF d \in D THEN [row[d] EXCEPT !.status = "deleted"] ELSE row[d]
    BY <1>0, <1>7, <2>a DEF PruneDelete
  <2>2. \A d \in Deliveries : row'[d].status = IF d \in D THEN "deleted" ELSE row[d].status
    BY <2>1 DEF Row
  <2>3. received' = received /\ \A d \in D : row[d].status \in {"delivered", "failed", "expired"}
    BY <1>7, <2>a DEF PruneDelete
  <2>4. [d \in Deliveries |-> row'[d].status] =
          [d \in Deliveries |-> IF d \in D THEN "deleted" ELSE [e \in Deliveries |-> row[e].status][d]]
    BY <2>2
  <2>b. \A d \in Deliveries : Holders(d)' = Holders(d)
    BY <1>7 DEF PruneDelete, Holders
  <2>5. Promise!Sweep({"delivered", "failed", "expired"}, "deleted")
    BY <2>3, <2>4, <2>b, SameHeld DEF Promise!Sweep
  <2> QED BY <2>5 DEF Promise!Next
<1>8. ASSUME NEW w \in Workers, NEW kind \in {"push", "chat"}, StartSweep(w, kind) PROVE Promise!Next
  <2> DEFINE s0 == [Idle EXCEPT !.kind = kind, !.now = clock,
                                !.att = [d \in Deliveries |-> row[d].attempts]]
  <2>1. PICK B \in SUBSET Eligible(kind) : Set(w, Rest(s0, B))
    BY <1>8 DEF StartSweep
  <2>2. Rest(s0, B).todo = B
    BY DEF Rest, Idle
  <2> HIDE DEF s0
  <2>3. /\ sweep'[w].todo = B /\ sweep[w].todo = {}
        /\ \A v \in Workers \ {w} : sweep'[v] = sweep[v]
    BY <1>0, <1>8, <2>1, <2>2 DEF IInv, TypeOK, Set, WorkerSound, StartSweep
  <2>4. B \in SUBSET {d \in Deliveries : [e \in Deliveries |-> row[e].status][d] = "pending"}
    BY <2>1, Typed DEF Eligible
  <2>5. [d \in Deliveries |-> {v \in Workers : d \in sweep'[v].todo}]
          = [d \in Deliveries |-> IF d \in B THEN [e \in Deliveries |-> {v \in Workers : e \in sweep[v].todo}][d] \cup {w}
                                  ELSE [e \in Deliveries |-> {v \in Workers : e \in sweep[v].todo}][d]]
    BY <2>3
  <2>6. row' = row /\ received' = received
    BY <1>8 DEF StartSweep
  <2>7. Promise!Take(w)
    BY <2>4, <2>5, <2>6 DEF Promise!Take
  <2> QED BY <2>7 DEF Promise!Next
<1>9. ASSUME NEW w \in Workers, NEW d \in Deliveries,
             PickPush(w, d) \/ PickChat(w, d) \/ DropSub(w) \/ HubDeliver(w)
      PROVE  Promise!Next
  <2>1. row' = row /\ received' = received
    BY <1>9 DEF PickPush, PickChat, DropSub, HubDeliver
  <2>2. sweep'[w].todo \subseteq sweep[w].todo /\ \A v \in Workers \ {w} : sweep'[v] = sweep[v]
    <3>1. sweep \in [Workers -> SweepState] /\ sweep[w] \in SweepState
      BY <1>0 DEF IInv, TypeOK
    <3>2. PICK s : Set(w, s) /\ s.todo \subseteq sweep[w].todo
      <4>1. \A D : Rest(sweep[w], D).todo \subseteq D
        BY <3>1 DEF Rest, Idle, SweepState
      <4>2. \A x, y, z : /\ [sweep[w] EXCEPT !.pc = x].todo = sweep[w].todo
                         /\ [sweep[w] EXCEPT !.pc = x, !.cur = y].todo = sweep[w].todo
                         /\ [sweep[w] EXCEPT !.pc = x, !.cur = y, !.out = z].todo = sweep[w].todo
        BY <3>1 DEF SweepState
      <4>3. CASE PickPush(w, d)
        <5>1. \/ Set(w, [sweep[w] EXCEPT !.pc = "send", !.cur = d])
              \/ Set(w, [sweep[w] EXCEPT !.pc = "record", !.cur = d, !.out = "gone"])
          BY <4>3 DEF PickPush
        <5>2. /\ [sweep[w] EXCEPT !.pc = "send", !.cur = d].todo = sweep[w].todo
              /\ [sweep[w] EXCEPT !.pc = "record", !.cur = d, !.out = "gone"].todo = sweep[w].todo
          BY <3>1 DEF SweepState
        <5> QED BY <5>1, <5>2
      <4>4. CASE PickChat(w, d)
        <5>1. \/ Set(w, [sweep[w] EXCEPT !.pc = "send", !.cur = d])
              \/ Set(w, Rest(sweep[w], sweep[w].todo \ {d}))
          BY <4>4 DEF PickChat
        <5>2. /\ [sweep[w] EXCEPT !.pc = "send", !.cur = d].todo = sweep[w].todo
              /\ Rest(sweep[w], sweep[w].todo \ {d}).todo \subseteq sweep[w].todo
          BY <3>1, <4>1 DEF SweepState
        <5> QED BY <5>1, <5>2
      <4>5. CASE DropSub(w)
        BY <4>2, <4>5 DEF DropSub
      <4>6. CASE HubDeliver(w)
        <5>1. \/ Set(w, [sweep[w] EXCEPT !.pc = "record"])
              \/ Set(w, Rest(sweep[w], sweep[w].todo \ {sweep[w].cur}))
          BY <4>6 DEF HubDeliver
        <5>2. /\ [sweep[w] EXCEPT !.pc = "record"].todo = sweep[w].todo
              /\ Rest(sweep[w], sweep[w].todo \ {sweep[w].cur}).todo \subseteq sweep[w].todo
          BY <3>1, <4>1 DEF SweepState
        <5> QED BY <5>1, <5>2
      <4> QED BY <1>9, <4>3, <4>4, <4>5, <4>6
    <3> QED BY <3>1, <3>2 DEF Set
  <2>3. \A e \in Deliveries : Holders(e)' \subseteq Holders(e)
    BY <2>2 DEF Holders
  <2> QED BY <2>1, <2>3, NoRow
<1>10. CASE Crash \/ UNCHANGED <<row, received, sweep>>
  <2>1. \A e \in Deliveries : Holders(e)' \subseteq Holders(e)
    <3>1. CASE Crash
      <4>1. \A w \in Workers : sweep'[w].todo = {}
        BY <3>1 DEF Crash, Idle
      <4> QED BY <4>1 DEF Holders
    <3> QED BY <1>10, <3>1 DEF Holders
  <2>2. row' = row /\ received' = received
    BY <1>10 DEF Crash
  <2> QED BY <2>1, <2>2, NoRow
<1>11. Next => \/ \E d \in Deliveries : Enqueue(d)
               \/ \E w \in Workers : PushAnswer(w) \/ Record(w)
               \/ \E p \in Platforms, ok \in BOOLEAN : BotDM(p, ok)
               \/ \E a \in acks : DeliveryResult(a)
               \/ PruneExpire \/ PruneDelete
               \/ \E w \in Workers, kind \in {"push", "chat"} : StartSweep(w, kind)
               \/ \E w \in Workers, d \in Deliveries : PickPush(w, d) \/ PickChat(w, d)
               \/ \E w \in Workers : DropSub(w) \/ HubDeliver(w)
               \/ Crash \/ UNCHANGED <<row, received, sweep>>
  BY DEF Next, Step, Bot, BotReport, Connect, Disconnect, Unsubscribe, Tick
<1>12. ASSUME NEW w \in Workers, DropSub(w) \/ HubDeliver(w) PROVE \E d \in Deliveries : d = sweep[w].cur
  BY <1>0, <1>12 DEF DropSub, HubDeliver, WorkerSound
<1> QED BY <1>1, <1>2, <1>3, <1>4, <1>5, <1>6, <1>7, <1>8, <1>9, <1>10, <1>11, <1>12 DEF vars

(* The queue keeps ADR-0009's contract, however many sweeps overlap: a row is *)
(* queued once, a sweep takes it only while it is pending and settles it at   *)
(* most once, it is marked delivered only when its recipient has got it, it   *)
(* leaves the table only after it has been settled, and a settled row is      *)
(* queued again only by a sweep that still had it in hand.                    *)
THEOREM ContractKept == Spec => QueueContract
<1>1. ASSUME Init PROVE Promise!Init
  <2>1. \A d \in Deliveries : /\ row[d].status = "none" /\ (received[d] > 0) = FALSE
                              /\ {w \in Workers : d \in sweep[w].todo} = {}
    <3>1. \A w \in Workers : sweep[w].todo = {}
      BY <1>1 DEF Init, Idle
    <3>2. \A d \in Deliveries : row[d].status = "none" /\ received[d] = 0
      BY <1>1 DEF Init
    <3>3. \A d \in Deliveries : (received[d] > 0) = FALSE
      BY <3>2
    <3> QED BY <3>1, <3>2, <3>3
  <2>2. [d \in Deliveries |-> row[d].status] = [d \in Deliveries |-> "none"]
    BY <2>1
  <2>3. [d \in Deliveries |-> received[d] > 0] = [d \in Deliveries |-> FALSE]
    BY <2>1, Zenon
  <2>4. [d \in Deliveries |-> {w \in Workers : d \in sweep[w].todo}] = [d \in Deliveries |-> {}]
    BY <2>1
  <2> QED BY <2>2, <2>3, <2>4 DEF Promise!Init
<1>2. Init => IInv /\ Budget
  BY InitIInv, InitBudget
<1>3. (IInv /\ Budget) /\ [Next]_vars => (IInv /\ Budget)'
  BY NextIInv, NextBudget
<1>4. IInv /\ Budget /\ [Next]_vars => [Promise!Next]_(Promise!ovars)
  BY NextPromise
<1> QED BY <1>1, <1>2, <1>3, <1>4, PTL DEF Spec, QueueContract, Promise!Spec
=============================================================================
