-------------------------- MODULE AttentionProofs --------------------------
(***************************************************************************)
(* Type correctness of Attention, NoEarlyFire and ClearedByOwner, for any  *)
(* number of overlapping handlers, crashes and forgotten machines; and for *)
(* handlers of disjoint scopes, what they leave in the table and the       *)
(* anti-spam window.                                                       *)
(***************************************************************************)
EXTENDS MCAttention, TLAPS

(* Row ids are never reused. *)
RowsSound ==
    /\ \A r \in rows : r.id < nextId
    /\ \A r, q \in rows : r.id = q.id => r = q

(* What handler state j may rely on in a table rs whose next id is n: an id  *)
(* it holds is that of the row it read or of none; if it is about to fire,   *)
(* that row was found due; and it dooms no row outside the sids it reports.  *)
JobSound(j, rs, n) ==
    /\ j.id < n
    /\ \A i \in j.doomed : i < n
    /\ \A k \in Keys : j.report[k] # "absent" => SidOf[k] \in j.sids
    /\ j.todo \subseteq {k \in Keys : j.report[k] # "absent"}
    /\ j.pc = "create" => j.key \in Keys
    /\ \A r \in rs : r.id \in j.doomed =>
           SidOf[r.key] \in j.sids /\ j.report[r.key] # "active"
    /\ j.pc = "fire" => \A r \in rs : r.id = j.id =>
           r.key = j.key /\ j.now - r.since >= Threshold[r.key][j.tier]

JobsSound == \A h \in Handlers : JobSound(job[h], rows, nextId)

IInv == TypeOK /\ RowsSound /\ NoEarlyFire /\ JobsSound

USE DEF Never, NewRow, FiredRows, Unseen, LeftAfter

(* The idle handler state is a handler state that relies on nothing. *)
LEMMA NoJobSound ==
    ASSUME NEW rs, NEW n \in Nat \ {0}
    PROVE  NoJob \in Job /\ JobSound(NoJob, rs, n)
<1>1. NoJob \in Job
  BY PolicyAssumption, KeysAssumption DEF NoJob, Job, Wire, Sids
<1>2. JobSound(NoJob, rs, n)
  BY DEF NoJob, JobSound
<1> QED BY <1>1, <1>2

(* What a handler relies on survives any change of the table that keeps the  *)
(* key and start of every surviving id and gives new rows fresh ids.         *)
LEMMA SoundKept ==
    ASSUME NEW rs \in SUBSET Row, NEW rs2 \in SUBSET Row, NEW n \in Nat, NEW n2 \in Nat, n <= n2,
           \A r2 \in rs2 : r2.id >= n \/ \E r \in rs : r.id = r2.id /\ r.key = r2.key /\ r.since = r2.since,
           NEW j \in Job, JobSound(j, rs, n)
    PROVE  JobSound(j, rs2, n2)
BY DEF JobSound, Job, Row

(* One handler moves to state j, the table stays: the invariant of the jobs. *)
LEMMA SetKeeps ==
    ASSUME IInv, NEW h \in Handlers, NEW j \in Job, Set(h, j),
           rows' \in SUBSET Row, nextId' \in Nat, nextId <= nextId',
           \A r2 \in rows' : r2.id >= nextId \/
               \E r \in rows : r.id = r2.id /\ r.key = r2.key /\ r.since = r2.since,
           JobSound(j, rows', nextId')
    PROVE  job' \in [Handlers -> Job] /\ JobsSound'
<1>1. job' \in [Handlers -> Job] /\ job'[h] = j
  BY DEF IInv, TypeOK, Set
<1>2. ASSUME NEW g \in Handlers PROVE JobSound(job'[g], rows', nextId')
  <2>1. CASE g = h
    BY <1>1, <2>1
  <2>2. CASE g # h
    <3>1. job'[g] = job[g] /\ job[g] \in Job
      BY <2>2 DEF IInv, TypeOK, Set
    <3>2. JobSound(job[g], rows, nextId)
      BY DEF IInv, JobsSound
    <3> QED BY <3>1, <3>2, SoundKept DEF IInv, TypeOK
  <2> QED BY <2>1, <2>2
<1> QED BY <1>1, <1>2 DEF JobsSound

(* The initial state satisfies the invariant. *)
LEMMA InitIInv == Init => IInv
<1> SUFFICES ASSUME Init PROVE IInv
  OBVIOUS
<1>1. job \in [Handlers -> Job] /\ JobsSound
  BY NoJobSound DEF Init, JobsSound
<1>2. TypeOK
  BY <1>1, BoundsAssumption DEF TypeOK, Init
<1>3. RowsSound /\ NoEarlyFire
  BY DEF Init, RowsSound, NoEarlyFire
<1> QED BY <1>1, <1>2, <1>3 DEF IInv

(* A step that only moves handler h keeps the invariant. *)
LEMMA MoveKeeps ==
    ASSUME IInv, NEW h \in Handlers, NEW j \in Job, Set(h, j), JobSound(j, rows, nextId),
           UNCHANGED <<clock, lastSeen, rows, nextId, notified, counters>>
    PROVE  IInv'
<1>1. job' \in [Handlers -> Job] /\ JobsSound'
  BY SetKeeps DEF IInv, TypeOK, Row, counters
<1>2. TypeOK'
  BY <1>1 DEF IInv, TypeOK, counters
<1>3. RowsSound' /\ NoEarlyFire'
  BY DEF IInv, RowsSound, NoEarlyFire
<1> QED BY <1>1, <1>2, <1>3 DEF IInv

(* What a handler decides about a row it has read is sound. *)
LEMMA DecideSound ==
    ASSUME NEW rs \in SUBSET Row, NEW n \in Nat, NEW j \in Job, JobSound(j, rs, n),
           NEW r \in rs, \A q \in rs : q.id = r.id => q = r, r.id < n, 0 < n
    PROVE  Decided(j, r) \in Job /\ JobSound(Decided(j, r), rs, n)
BY DEF Decided, JobSound, Job, Row, Due

(* A step that removes rows, and moves handler h, keeps the invariant. *)
LEMMA RemoveKeeps ==
    ASSUME IInv, NEW h \in Handlers, NEW j \in Job, Set(h, j), JobSound(j, rows, nextId),
           rows' \subseteq rows, UNCHANGED <<clock, lastSeen, nextId, notified, counters>>
    PROVE  IInv'
<1>1. rows' \in SUBSET Row /\ nextId' \in Nat /\ nextId <= nextId'
  BY DEF IInv, TypeOK
<1>2. \A r2 \in rows' : \E r \in rows : r.id = r2.id /\ r.key = r2.key /\ r.since = r2.since
  OBVIOUS
<1>3. JobSound(j, rows', nextId')
  BY <1>1, <1>2, SoundKept DEF IInv, TypeOK
<1>4. job' \in [Handlers -> Job] /\ JobsSound'
  BY <1>1, <1>2, <1>3, SetKeeps
<1>5. TypeOK'
  BY <1>1, <1>4 DEF IInv, TypeOK, counters
<1>6. RowsSound' /\ NoEarlyFire'
  BY DEF IInv, RowsSound, NoEarlyFire
<1> QED BY <1>4, <1>5, <1>6 DEF IInv

(* Every step keeps the invariant. *)
LEMMA NextIInv == IInv /\ [Next]_vars => IInv'
<1> SUFFICES ASSUME IInv, [Next]_vars PROVE IInv'
  OBVIOUS
<1> USE DEF counters
<1>0. /\ clock \in Nat /\ rows \in SUBSET Row /\ nextId \in Nat \ {0}
      /\ \A h \in Handlers : job[h] \in Job /\ JobSound(job[h], rows, nextId)
  BY BoundsAssumption DEF IInv, TypeOK, JobsSound
<1>1. ASSUME NEW h \in Handlers, Ingest(h) PROVE IInv'
  <2>1. PICK sids \in Scopes, tier \in Tiers : \E report \in Reports(sids) :
            StoreSnapshot(h, sids, report, tier)
    BY <1>1 DEF Ingest
  <2>2. PICK report \in Reports(sids) : StoreSnapshot(h, sids, report, tier)
    BY <2>1
  <2> DEFINE j == [NoJob EXCEPT !.pc = "stored", !.sids = sids, !.report = report, !.tier = tier,
                                !.todo = {k \in Keys : report[k] # "absent"}]
  <2>3. /\ sids \in SUBSET Sids /\ report \in [Keys -> Wire]
        /\ \A k \in Keys : report[k] # "absent" => SidOf[k] \in sids
    BY <2>2, KeysAssumption DEF Reports, Wire
  <2>4. j \in Job
    BY <2>3, NoJobSound, <1>0 DEF Job
  <2>5. JobSound(j, rows, nextId)
    BY <2>3, <1>0 DEF JobSound, NoJob
  <2>6. job' \in [Handlers -> Job] /\ JobsSound'
    BY <2>2, <2>4, <2>5, <1>0, SetKeeps DEF StoreSnapshot
  <2>7. TypeOK'
    BY <2>2, <2>6, BoundsAssumption DEF StoreSnapshot, MayStart, IInv, TypeOK
  <2>8. RowsSound' /\ NoEarlyFire'
    BY <2>2 DEF StoreSnapshot, IInv, RowsSound, NoEarlyFire
  <2> QED BY <2>6, <2>7, <2>8 DEF IInv
<1>2. ASSUME NEW h \in Handlers, Sweep(h) PROVE IInv'
  <2>1. PICK resting \in BOOLEAN, tier \in Tiers : StartSweep(h, resting, tier)
    BY <1>2 DEF Sweep
  <2> DEFINE gone == clock - lastSeen > Stale
             report == [k \in Keys |-> CASE k = OfflineKey -> IF gone THEN "active" ELSE "cleared"
                                         [] k = IdleKey -> IF resting /\ ~gone THEN "active" ELSE "cleared"
                                         [] OTHER -> "absent"]
             j == [NoJob EXCEPT !.pc = "next", !.sids = {MachineScope}, !.tier = tier, !.now = clock,
                                !.todo = {IdleKey, OfflineKey}, !.report = report]
  <2>2. /\ report \in [Keys -> Wire]
        /\ \A k \in Keys : report[k] # "absent" <=> k \in {OfflineKey, IdleKey}
    BY DEF Wire
  <2>3. {MachineScope} \in SUBSET Sids
    BY KeysAssumption DEF Sids
  <2>4. j \in Job
    <3> HIDE DEF report
    <3> QED BY <2>2, <2>3, NoJobSound, <1>0, KeysAssumption DEF Job
  <2>5. JobSound(j, rows, nextId)
    <3> HIDE DEF report
    <3> QED BY <2>2, <2>3, <1>0, KeysAssumption DEF JobSound, NoJob
  <2>6. Set(h, j)
    BY <2>1 DEF StartSweep
  <2>7. job' \in [Handlers -> Job] /\ JobsSound'
    <3> HIDE DEF j
    <3> QED BY <2>1, <2>4, <2>5, <2>6, <1>0, SetKeeps DEF StartSweep
  <2>8. TypeOK'
    BY <2>1, <2>7, BoundsAssumption DEF StartSweep, MayStart, IInv, TypeOK
  <2>9. RowsSound' /\ NoEarlyFire'
    BY <2>1 DEF StartSweep, IInv, RowsSound, NoEarlyFire
  <2> QED BY <2>7, <2>8, <2>9 DEF IInv
<1>3. ASSUME NEW h \in Handlers, Step(h) PROVE IInv'
  <2>0. NoJob \in Job /\ JobSound(NoJob, rows, nextId)
    BY <1>0, NoJobSound
  <2>1. CASE BeginReconcile(h)
    <3> DEFINE j == [job[h] EXCEPT !.pc = "next", !.now = clock]
    <3>1. j \in Job
      BY <1>0 DEF Job
    <3>2. JobSound(j, rows, nextId)
      BY <1>0 DEF Job, JobSound
    <3> QED BY <2>1, <3>1, <3>2, MoveKeeps DEF BeginReconcile
  <2>2. ASSUME NEW k \in Keys, ClearReported(h, k) PROVE IInv'
    <3> DEFINE j == [job[h] EXCEPT !.todo = @ \ {k}]
    <3>1. j \in Job
      BY <1>0 DEF Job
    <3>2. JobSound(j, rows, nextId)
      BY <1>0 DEF Job, JobSound
    <3>3. rows' \subseteq rows
      BY <2>2 DEF ClearReported
    <3> QED BY <2>2, <3>1, <3>2, <3>3, RemoveKeeps DEF ClearReported
  <2>3. ASSUME NEW k \in Keys, Lookup(h, k) PROVE IInv'
    <3>1. CASE \E r \in RowsOf(k) : Set(h, Decided(job[h], r))
      <4>1. PICK r \in rows : Set(h, Decided(job[h], r))
        BY <3>1 DEF RowsOf
      <4>2. r.id < nextId /\ \A q \in rows : q.id = r.id => q = r
        BY DEF IInv, RowsSound
      <4>3. Decided(job[h], r) \in Job /\ JobSound(Decided(job[h], r), rows, nextId)
        BY <1>0, <4>2, DecideSound
      <4> QED BY <2>3, <4>1, <4>3, MoveKeeps DEF Lookup
    <3>2. CASE Set(h, [job[h] EXCEPT !.pc = "create", !.key = k])
      <4> DEFINE j == [job[h] EXCEPT !.pc = "create", !.key = k]
      <4>1. j \in Job
        BY <1>0 DEF Job
      <4>2. JobSound(j, rows, nextId)
        BY <1>0 DEF Job, JobSound
      <4> QED BY <2>3, <3>2, <4>1, <4>2, MoveKeeps DEF Lookup
    <3> QED BY <2>3, <3>1, <3>2 DEF Lookup
  <2>4. ASSUME NEW k \in Keys, Enqueue(h, k) PROVE IInv'
    <3> DEFINE j == IF job[h].fired = {k} THEN NoJob ELSE [job[h] EXCEPT !.fired = @ \ {k}]
    <3>1. j \in Job
      BY <1>0, <2>0 DEF Job
    <3>2. JobSound(j, rows, nextId)
      BY <1>0, <2>0 DEF Job, JobSound
    <3>3. Set(h, j)
      BY <2>4 DEF Enqueue, Set
    <3>4. job' \in [Handlers -> Job] /\ JobsSound'
      <4> HIDE DEF j
      <4> QED BY <2>4, <3>1, <3>2, <3>3, <1>0, SetKeeps DEF Enqueue
    <3>5. TypeOK'
      <4>1. job[h].now \in Nat
        BY <1>0 DEF Job
      <4> QED BY <2>4, <3>4, <4>1 DEF Enqueue, IInv, TypeOK
    <3>6. RowsSound' /\ NoEarlyFire'
      BY <2>4 DEF Enqueue, IInv, RowsSound, NoEarlyFire
    <3> QED BY <3>4, <3>5, <3>6 DEF IInv
  <2>5. CASE Create(h)
    <3> DEFINE k == job[h].key
               r == [id |-> nextId, key |-> k, since |-> job[h].now, fired |-> Never]
    <3>1. CASE RowsOf(k) # {} /\ Abort(h) /\ UNCHANGED <<rows, nextId>>
      BY <2>5, <3>1, <2>0, MoveKeeps DEF Create, Abort
    <3>2. CASE rows' = rows \cup {r} /\ nextId' = nextId + 1 /\ Set(h, Decided(job[h], r))
      <4>1. k \in Keys
        BY <1>0, <2>5 DEF Create, JobSound
      <4>2. r \in Row /\ r.id = nextId /\ r.fired = Never
        BY <4>1, <1>0 DEF Row, Job
      <4> HIDE DEF r
      <4>3. rows' \in SUBSET Row /\ nextId' \in Nat /\ nextId <= nextId'
        BY <1>0, <3>2, <4>2
      <4>4. \A r2 \in rows' : r2.id >= nextId \/
               \E q \in rows : q.id = r2.id /\ q.key = r2.key /\ q.since = r2.since
        BY <1>0, <3>2, <4>2
      <4>5. JobSound(job[h], rows', nextId')
        BY <1>0, <4>3, <4>4, SoundKept
      <4>6. \A q \in rows : q.id < nextId
        BY DEF IInv, RowsSound
      <4>7. r \in rows' /\ r.id < nextId' /\ \A q \in rows' : q.id = r.id => q = r
        BY <3>2, <4>2, <4>6, <1>0
      <4>8. Decided(job[h], r) \in Job /\ JobSound(Decided(job[h], r), rows', nextId')
        BY <1>0, <4>3, <4>5, <4>7, DecideSound
      <4>9. job' \in [Handlers -> Job] /\ JobsSound'
        BY <3>2, <4>3, <4>4, <4>8, SetKeeps
      <4>10. TypeOK'
        BY <2>5, <3>2, <4>3, <4>9, <1>0 DEF Create, IInv, TypeOK
      <4>11. RowsSound'
        BY <1>0, <3>2, <4>2, <4>6 DEF IInv, RowsSound, Row
      <4>12. NoEarlyFire'
        BY <3>2, <4>2 DEF IInv, NoEarlyFire
      <4> QED BY <4>9, <4>10, <4>11, <4>12 DEF IInv
    <3> QED BY <2>5, <3>1, <3>2 DEF Create
  <2>6. CASE Fire(h)
    <3> DEFINE mine == {r \in rows : r.id = job[h].id}
               j == [job[h] EXCEPT !.pc = "next", !.key = NoKey, !.id = 0, !.fired = @ \cup {job[h].key}]
    <3>1. CASE mine = {} /\ Abort(h) /\ UNCHANGED rows
      BY <2>6, <3>1, <2>0, MoveKeeps DEF Fire, Abort
    <3>2. CASE /\ mine # {} /\ Set(h, j)
               /\ rows' = (rows \ mine) \cup {[r EXCEPT !.fired = job[h].now] : r \in mine}
      <4>1. PICK r0 \in rows : r0.id = job[h].id /\ mine = {r0}
        BY <3>2 DEF IInv, RowsSound
      <4> DEFINE r1 == [r0 EXCEPT !.fired = job[h].now]
      <4>2. /\ r0 \in Row /\ r1 \in Row /\ r1.id = r0.id /\ r1.key = r0.key /\ r1.since = r0.since
            /\ r1.fired = job[h].now /\ job[h].key = r0.key /\ job[h].tier \in Tiers
            /\ job[h].now - r0.since >= Threshold[r0.key][job[h].tier]
        BY <1>0, <2>6, <4>1 DEF Row, Job, JobSound, Fire
      <4>3. rows' = (rows \ {r0}) \cup {r1}
        BY <3>2, <4>1
      <4> HIDE DEF r1
      <4>4. rows' \in SUBSET Row /\ nextId' \in Nat /\ nextId <= nextId'
        BY <2>6, <4>2, <4>3, <1>0 DEF Fire
      <4>5. \A r2 \in rows' : \E q \in rows : q.id = r2.id /\ q.key = r2.key /\ q.since = r2.since
        BY <4>2, <4>3
      <4>6. job[h].key \in Keys
        BY <4>2 DEF Row
      <4>7. j \in Job
        BY <1>0, <4>6 DEF Job
      <4>8. JobSound(j, rows', nextId')
        <5>1. JobSound(job[h], rows', nextId')
          BY <1>0, <4>4, <4>5, SoundKept
        <5> QED BY <5>1, <1>0, <2>6 DEF JobSound, Job, Fire
      <4>9. job' \in [Handlers -> Job] /\ JobsSound'
        <5> HIDE DEF j
        <5> QED BY <3>2, <4>4, <4>5, <4>7, <4>8, SetKeeps
      <4>10. TypeOK'
        BY <2>6, <4>4, <4>9 DEF Fire, IInv, TypeOK
      <4>11. RowsSound'
        BY <2>6, <4>2, <4>3 DEF Fire, IInv, RowsSound
      <4>12. NoEarlyFire'
        BY <4>2, <4>3 DEF IInv, NoEarlyFire
      <4> QED BY <4>9, <4>10, <4>11, <4>12 DEF IInv
    <3> QED BY <2>6, <3>1, <3>2 DEF Fire
  <2>7. CASE Scan(h)
    <3> DEFINE doomed == {r.id : r \in {q \in rows : /\ SidOf[q.key] \in job[h].sids
                                                     /\ q.key \notin Reported(job[h], "active")}}
               j == [job[h] EXCEPT !.pc = "doomed", !.doomed = doomed]
    <3>1. doomed \in SUBSET Nat /\ \A i \in doomed : i < nextId
      BY <1>0 DEF IInv, RowsSound, Row
    <3>2. \A r \in rows : r.id \in doomed =>
              SidOf[r.key] \in job[h].sids /\ job[h].report[r.key] # "active"
      BY <1>0 DEF IInv, RowsSound, Row, Reported
    <3>3. Set(h, j)
      BY <2>7 DEF Scan
    <3> HIDE DEF doomed
    <3>4. j \in Job
      BY <1>0, <3>1 DEF Job
    <3>5. JobSound(j, rows, nextId)
      BY <1>0, <3>1, <3>2 DEF Job, JobSound
    <3> QED BY <2>7, <3>3, <3>4, <3>5, MoveKeeps DEF Scan
  <2>8. CASE EndClear(h)
    <3> DEFINE j == [job[h] EXCEPT !.pc = "enqueue"]
    <3>1. j \in Job /\ JobSound(j, rows, nextId)
      BY <1>0 DEF Job, JobSound
    <3> QED BY <2>8, <2>0, <3>1, MoveKeeps DEF EndClear
  <2>9. ASSUME NEW i \in job[h].doomed, DeleteDoomed(h, i) PROVE IInv'
    <3> DEFINE j == [job[h] EXCEPT !.doomed = @ \ {i}]
    <3>1. j \in Job /\ JobSound(j, rows, nextId)
      BY <1>0 DEF Job, JobSound
    <3>2. CASE Set(h, j) /\ rows' = rows \ {r \in rows : r.id = i}
      BY <2>9, <3>1, <3>2, RemoveKeeps DEF DeleteDoomed
    <3>3. CASE Abort(h) /\ UNCHANGED rows
      BY <2>9, <2>0, <3>3, MoveKeeps DEF DeleteDoomed, Abort
    <3> QED BY <2>9, <3>2, <3>3 DEF DeleteDoomed
  <2> QED BY <1>3, <2>1, <2>2, <2>3, <2>4, <2>5, <2>6, <2>7, <2>8, <2>9 DEF Step
<1>4. CASE Touch
  BY <1>4 DEF Touch, IInv, TypeOK, RowsSound, NoEarlyFire, JobsSound
<1>5. CASE ForgetMachine
  BY <1>5, BoundsAssumption DEF ForgetMachine, IInv, TypeOK, RowsSound, NoEarlyFire, JobsSound, JobSound
<1>6. CASE Crash
  <2>1. job' \in [Handlers -> Job] /\ JobsSound'
    BY <1>6, <1>0, NoJobSound DEF Crash, JobsSound
  <2>2. TypeOK'
    BY <1>6, <2>1, BoundsAssumption DEF Crash, IInv, TypeOK
  <2> QED BY <1>6, <2>1, <2>2 DEF Crash, IInv, RowsSound, NoEarlyFire
<1>7. CASE Tick
  BY <1>7, BoundsAssumption DEF Tick, IInv, TypeOK, RowsSound, NoEarlyFire, JobsSound
<1>8. CASE UNCHANGED vars
  BY <1>8 DEF vars, IInv, TypeOK, RowsSound, NoEarlyFire, JobsSound
<1> QED BY <1>1, <1>2, <1>3, <1>4, <1>5, <1>6, <1>7, <1>8 DEF Next

(* Attention is type correct. *)
THEOREM TypeCorrect == Spec => []TypeOK
<1>1. IInv => TypeOK
  BY DEF IInv
<1> QED BY InitIInv, NextIInv, <1>1, PTL DEF Spec

(* Whatever the interleaving, nobody is notified before the threshold. *)
THEOREM NeverEarly == Spec => []NoEarlyFire
<1>1. IInv => NoEarlyFire
  BY DEF IInv
<1> QED BY InitIInv, NextIInv, <1>1, PTL DEF Spec

(* What ClearedByOwner says of one step. *)
OwnerStep ==
    \A r \in rows : (\A q \in rows' : q.id # r.id) =>
        \/ lastSeen' = Never
        \/ \E h \in Handlers : /\ job[h] # job'[h]
                               /\ SidOf[r.key] \in job[h].sids
                               /\ job[h].report[r.key] # "active"

(* No step removes a row but its own session's word, or forgetMachine. *)
LEMMA StepClearsOwn == IInv /\ [Next]_vars => OwnerStep
<1> SUFFICES ASSUME IInv, [Next]_vars, NEW r \in rows, \A q \in rows' : q.id # r.id, lastSeen' # Never
             PROVE  \E h \in Handlers : /\ job[h] # job'[h]
                                        /\ SidOf[r.key] \in job[h].sids
                                        /\ job[h].report[r.key] # "active"
  BY DEF OwnerStep
<1>0. \A h \in Handlers : job[h] \in Job /\ JobSound(job[h], rows, nextId)
  BY DEF IInv, TypeOK, JobsSound
<1>1. r \in Row /\ ~(rows \subseteq rows')
  BY DEF IInv, TypeOK
<1>2. PICK h \in Handlers : Step(h)
  BY <1>1 DEF Next, vars, Ingest, Sweep, StoreSnapshot, StartSweep, Touch, ForgetMachine, Crash, Tick
<1>3. ASSUME NEW k \in Keys, ClearReported(h, k), r \in RowsOf(k)
      PROVE  job[h] # job'[h] /\ SidOf[r.key] \in job[h].sids /\ job[h].report[r.key] # "active"
  <2>1. job'[h] = [job[h] EXCEPT !.todo = @ \ {k}]
    BY <1>3, <1>0 DEF ClearReported, Set, IInv, TypeOK
  <2>2. job'[h].todo # job[h].todo
    BY <2>1, <1>0, <1>3 DEF ClearReported, Job
  <2>3. r.key = k /\ job[h].report[k] = "cleared"
    BY <1>3 DEF RowsOf, ClearReported
  <2> QED BY <2>2, <2>3, <1>0 DEF JobSound
<1>4. ASSUME NEW i \in job[h].doomed, DeleteDoomed(h, i), r.id = i
      PROVE  job[h] # job'[h] /\ SidOf[r.key] \in job[h].sids /\ job[h].report[r.key] # "active"
  <2>1. job'[h] = [job[h] EXCEPT !.doomed = @ \ {i}] \/ job'[h] = NoJob
    BY <1>4, <1>0 DEF DeleteDoomed, Set, Abort, IInv, TypeOK
  <2>2. job'[h].doomed # job[h].doomed
    BY <2>1, <1>0, <1>4 DEF Job, NoJob
  <2> QED BY <2>2, <1>4, <1>0 DEF JobSound
<1>5. ~Fire(h)
  <2> SUFFICES ASSUME Fire(h) PROVE FALSE
    OBVIOUS
  <2>1. \A q \in rows : \E q2 \in rows' : q2.id = q.id
    <3>1. ASSUME NEW q \in rows PROVE [q EXCEPT !.fired = job[h].now].id = q.id
      BY DEF IInv, TypeOK, Row
    <3> QED BY <3>1 DEF Fire
  <2> QED BY <2>1
<1>6. ~(BeginReconcile(h) \/ Create(h) \/ Scan(h) \/ EndClear(h))
      /\ \A k \in Keys : ~(Lookup(h, k) \/ Enqueue(h, k))
  BY <1>1 DEF BeginReconcile, Create, Scan, EndClear, Lookup, Enqueue
<1>7. CASE \E k \in Keys : ClearReported(h, k)
  <2>1. PICK k \in Keys : ClearReported(h, k)
    BY <1>7
  <2>2. r \in RowsOf(k)
    BY <2>1 DEF ClearReported
  <2> QED BY <2>1, <2>2, <1>3
<1>8. CASE \E i \in job[h].doomed : DeleteDoomed(h, i)
  <2>1. PICK i \in job[h].doomed : DeleteDoomed(h, i)
    BY <1>8
  <2>2. r.id = i
    BY <2>1 DEF DeleteDoomed
  <2> QED BY <2>1, <2>2, <1>4
<1> QED BY <1>2, <1>5, <1>6, <1>7, <1>8 DEF Step

(* No handler of another session ends a live episode. *)
THEOREM OwnerClears == Spec => ClearedByOwner
<1>1. IInv /\ [Next]_vars => [OwnerStep]_vars
  BY StepClearsOwn
<1> QED BY InitIInv, NextIInv, <1>1, PTL DEF Spec, ClearedByOwner, OwnerStep
-----------------------------------------------------------------------------
(***************************************************************************)
(* Handlers of disjoint scopes.                                            *)
(***************************************************************************)
(* How far handler state j has come in the table rs: every attention it was  *)
(* told is active and has dealt with has its row; the row it is about to     *)
(* create is not there, and the one it is about to fire still is, and still  *)
(* outside the cooldown; what it dooms exists, and is all there is beyond    *)
(* its report.                                                               *)
Progress(j, rs) ==
    /\ j.pc \in {"idle", "stored"} => j.fired = {}
    /\ j.pc # "doomed" => j.doomed = {}
    /\ \A k \in Keys : j.report[k] = "active" /\ k \notin j.todo => \E r \in rs : r.key = k
    /\ j.pc = "create" =>
         j.key \in j.todo /\ j.report[j.key] = "active" /\ \A r \in rs : r.key # j.key
    /\ j.pc = "fire" =>
         /\ j.report[j.key] = "active" /\ j.key \in Keys
         /\ \E r \in rs : /\ r.id = j.id /\ r.key = j.key
                          /\ r.fired = Never \/ j.now - r.fired >= Cooldown[r.key]
    /\ \A i \in j.doomed : \E r \in rs : r.id = i
    /\ j.pc \in {"doomed", "enqueue"} =>
         /\ j.todo = {}
         /\ \A r \in rs : SidOf[r.key] \in j.sids => j.report[r.key] = "active" \/ r.id \in j.doomed

KeysUnique == \A r, q \in rows : r.key = q.key => r = q

(* a fire in the table is notified, or known to a handler that will do it *)
FireNoted ==
    \A r \in rows : r.fired # Never =>
        \/ [key |-> r.key, at |-> r.fired] \in notified
        \/ \E h \in Handlers : r.key \in job[h].fired /\ job[h].now = r.fired

ApartInv ==
    /\ Disjoint /\ KeysUnique /\ FireNoted
    /\ \A h \in Handlers : Progress(job[h], rows)

(* A handler's progress depends on the rows of its own scope only. *)
LEMMA ScopeKept ==
    ASSUME NEW rs \in SUBSET Row, NEW rs2 \in SUBSET Row, NEW j \in Job, NEW n, JobSound(j, rs, n),
           Progress(j, rs), \A r \in Row : SidOf[r.key] \in j.sids => (r \in rs <=> r \in rs2)
    PROVE  Progress(j, rs2)
<1>1. \A k \in Keys : j.report[k] = "active" => SidOf[k] \in j.sids
  BY DEF JobSound
<1>2. \A k \in Keys, r \in rs : j.report[k] = "active" /\ r.key = k => r \in rs2
  BY <1>1
<1>3. \A k \in Keys, r \in rs2 : j.report[k] = "active" /\ r.key = k => r \in rs
  BY <1>1
<1>4. \A i \in j.doomed, r \in rs : r.id = i => r \in rs2
  BY DEF JobSound
<1>5. \A r \in rs : r.key \in Keys
  BY DEF Row
<1>6. \A k \in Keys : j.report[k] = "active" /\ k \notin j.todo => \E r \in rs2 : r.key = k
  BY <1>2 DEF Progress
<1>7. j.pc = "create" =>
         j.key \in j.todo /\ j.report[j.key] = "active" /\ \A r \in rs2 : r.key # j.key
  BY <1>3 DEF Progress, JobSound
<1>8. j.pc = "fire" =>
         /\ j.report[j.key] = "active" /\ j.key \in Keys
         /\ \E r \in rs2 : /\ r.id = j.id /\ r.key = j.key
                           /\ r.fired = Never \/ j.now - r.fired >= Cooldown[r.key]
  BY <1>2 DEF Progress
<1>9. \A i \in j.doomed : \E r \in rs2 : r.id = i
  BY <1>4 DEF Progress
<1>10. j.pc \in {"doomed", "enqueue"} =>
         /\ j.todo = {}
         /\ \A r \in rs2 : SidOf[r.key] \in j.sids => j.report[r.key] = "active" \/ r.id \in j.doomed
  BY DEF Progress
<1> QED BY <1>6, <1>7, <1>8, <1>9, <1>10 DEF Progress

(* Handler h moves, and touches only rows of its scope. *)
LEMMA ApartMove ==
    ASSUME IInv, ApartInv, NEW h \in Handlers, NEW j \in Job, Set(h, j), rows' \in SUBSET Row, Disjoint',
           \A r \in Row : SidOf[r.key] \notin job[h].sids => (r \in rows <=> r \in rows'),
           KeysUnique', Progress(j, rows'),
           notified \subseteq notified',
           \A r \in rows' : r \in rows \/ r.fired = Never \/ (r.key \in j.fired /\ r.fired = j.now),
           \A k \in job[h].fired : \/ k \in j.fired /\ j.now = job[h].now
                                   \/ [key |-> k, at |-> job[h].now] \in notified'
    PROVE  ApartInv'
<1>1. \A g \in Handlers : job'[g] = IF g = h THEN j ELSE job[g]
  BY DEF Set, IInv, TypeOK
<1>2. ASSUME NEW g \in Handlers PROVE Progress(job'[g], rows')
  <2>1. CASE g = h
    BY <1>1, <2>1
  <2>2. CASE g # h
    <3>1. job'[g] = job[g] /\ job[g] \in Job /\ JobSound(job[g], rows, nextId) /\ Progress(job[g], rows)
      BY <1>1, <2>2 DEF IInv, TypeOK, JobsSound, ApartInv
    <3>2. \A r \in Row : SidOf[r.key] \in job[g].sids => (r \in rows <=> r \in rows')
      BY <2>2 DEF ApartInv, Disjoint
    <3>3. rows \in SUBSET Row
      BY DEF IInv, TypeOK
    <3> QED BY <3>1, <3>2, <3>3, ScopeKept
  <2> QED BY <2>1, <2>2
<1>3. ASSUME NEW r \in rows', r.fired # Never
      PROVE  \/ [key |-> r.key, at |-> r.fired] \in notified'
             \/ \E g \in Handlers : r.key \in job'[g].fired /\ job'[g].now = r.fired
  <2>1. CASE r \in rows
    <3>1. \/ [key |-> r.key, at |-> r.fired] \in notified
          \/ \E g \in Handlers : r.key \in job[g].fired /\ job[g].now = r.fired
      BY <1>3, <2>1 DEF ApartInv, FireNoted
    <3>2. CASE [key |-> r.key, at |-> r.fired] \in notified
      BY <3>2
    <3>3. ASSUME NEW g \in Handlers, r.key \in job[g].fired, job[g].now = r.fired
          PROVE  \/ [key |-> r.key, at |-> r.fired] \in notified'
                 \/ \E g2 \in Handlers : r.key \in job'[g2].fired /\ job'[g2].now = r.fired
      BY <1>1, <3>3
    <3> QED BY <3>1, <3>2, <3>3
  <2>2. CASE r \notin rows
    BY <1>1, <1>3, <2>2
  <2> QED BY <2>1, <2>2
<1> QED BY <1>2, <1>3 DEF ApartInv, FireNoted

(* The steps of a handler that leave the table as it is. *)
LEMMA ApartQuiet ==
    ASSUME IInv, ApartInv, NEW h \in Handlers, NEW j \in Job, Set(h, j), Disjoint', UNCHANGED rows,
           Progress(j, rows), notified \subseteq notified',
           \A k \in job[h].fired : \/ k \in j.fired /\ j.now = job[h].now
                                   \/ [key |-> k, at |-> job[h].now] \in notified'
    PROVE  ApartInv'
BY ApartMove DEF IInv, TypeOK, ApartInv, KeysUnique

(* A handler starts. *)
LEMMA ApartStart ==
    ASSUME IInv, ApartInv, NEW h \in Handlers, Ingest(h) \/ Sweep(h), Disjoint'
    PROVE  ApartInv'
<1>1. NoJob.fired = {} /\ NoJob.doomed = {}
  BY DEF NoJob
<1>2. PICK j : /\ Set(h, j) /\ j.fired = {} /\ j.doomed = {} /\ j.pc \in {"stored", "next"}
               /\ \A k \in Keys : j.report[k] = "active" => k \in j.todo
               /\ job[h].pc = "idle" /\ UNCHANGED <<rows, notified>>
  <2>1. ASSUME NEW sids, NEW report, NEW tier, StoreSnapshot(h, sids, report, tier)
        PROVE  \E j : /\ Set(h, j) /\ j.fired = {} /\ j.doomed = {} /\ j.pc \in {"stored", "next"}
                      /\ \A k \in Keys : j.report[k] = "active" => k \in j.todo
                      /\ job[h].pc = "idle" /\ UNCHANGED <<rows, notified>>
    <3> DEFINE j == [NoJob EXCEPT !.pc = "stored", !.sids = sids, !.report = report, !.tier = tier,
                                  !.todo = {k \in Keys : report[k] # "absent"}]
    <3>1. /\ j.fired = {} /\ j.doomed = {} /\ j.pc = "stored"
          /\ j.report = report /\ j.todo = {k \in Keys : report[k] # "absent"}
      BY DEF NoJob
    <3> HIDE DEF j
    <3>2. Set(h, j) /\ job[h].pc = "idle" /\ UNCHANGED <<rows, notified>>
      BY <2>1 DEF StoreSnapshot, MayStart, j
    <3> QED BY <3>1, <3>2
  <2>2. ASSUME NEW idle_, NEW tier, StartSweep(h, idle_, tier)
        PROVE  \E j : /\ Set(h, j) /\ j.fired = {} /\ j.doomed = {} /\ j.pc \in {"stored", "next"}
                      /\ \A k \in Keys : j.report[k] = "active" => k \in j.todo
                      /\ job[h].pc = "idle" /\ UNCHANGED <<rows, notified>>
    <3> DEFINE off_ == clock - lastSeen > Stale
               rep == [k \in Keys |-> CASE k = OfflineKey -> IF off_ THEN "active" ELSE "cleared"
                                        [] k = IdleKey -> IF idle_ /\ ~off_ THEN "active" ELSE "cleared"
                                        [] OTHER -> "absent"]
               j == [NoJob EXCEPT !.pc = "next", !.sids = {MachineScope}, !.tier = tier, !.now = clock,
                                  !.todo = {IdleKey, OfflineKey}, !.report = rep]
    <3>1. \A k \in Keys : rep[k] = "active" => k \in {IdleKey, OfflineKey}
      OBVIOUS
    <3>2. /\ j.fired = {} /\ j.doomed = {} /\ j.pc = "next" /\ j.todo = {IdleKey, OfflineKey}
          /\ j.report = rep
      BY DEF NoJob
    <3>3. Set(h, j) /\ job[h].pc = "idle" /\ UNCHANGED <<rows, notified>>
      BY <2>2 DEF StartSweep, MayStart
    <3> HIDE DEF j, rep
    <3> QED BY <3>1, <3>2, <3>3
  <2> QED BY <2>1, <2>2 DEF Ingest, Sweep
<1>3. j \in Job
  <2>1. IInv'
    BY NextIInv DEF Next
  <2> QED BY <1>2, <2>1 DEF Set, IInv, TypeOK
<1>4. Progress(j, rows)
  BY <1>2 DEF Progress
<1>5. job[h].fired = {}
  BY <1>2 DEF ApartInv, Progress
<1> QED BY <1>2, <1>3, <1>4, <1>5, ApartQuiet

(* A handler deals with an attention: it clears it, or looks it up. *)
LEMMA ApartTodo ==
    ASSUME IInv, ApartInv, NEW h \in Handlers, NEW k \in Keys, ClearReported(h, k) \/ Lookup(h, k), Disjoint'
    PROVE  ApartInv'
<1>0. /\ job[h] \in Job /\ JobSound(job[h], rows, nextId) /\ Progress(job[h], rows)
      /\ rows \in SUBSET Row /\ nextId \in Nat /\ job \in [Handlers -> Job]
  BY DEF IInv, TypeOK, JobsSound, ApartInv
<1>1. CASE ClearReported(h, k)
  <2> DEFINE j == [job[h] EXCEPT !.todo = @ \ {k}]
  <2>1. /\ j \in Job /\ j.fired = job[h].fired /\ j.now = job[h].now /\ j.pc = "next"
        /\ j.report = job[h].report /\ j.doomed = job[h].doomed /\ j.todo = job[h].todo \ {k}
    BY <1>0, <1>1 DEF Job, ClearReported
  <2>2. Set(h, j) /\ rows' = rows \ RowsOf(k) /\ notified' = notified /\ job[h].report[k] = "cleared" /\ k \in job[h].todo
    BY <1>1 DEF ClearReported
  <2> HIDE DEF j
  <2>3. Progress(j, rows')
    BY <1>0, <1>1, <2>1, <2>2 DEF Progress, RowsOf, ClearReported
  <2>4. \A r \in Row : SidOf[r.key] \notin job[h].sids => (r \in rows <=> r \in rows')
    BY <1>0, <2>2 DEF RowsOf, JobSound
  <2>5. KeysUnique'
    BY <2>2 DEF ApartInv, KeysUnique
  <2> QED BY <1>0, <2>1, <2>2, <2>3, <2>4, <2>5, ApartMove
<1>2. ASSUME NEW r \in RowsOf(k), Lookup(h, k), Set(h, Decided(job[h], r)) PROVE ApartInv'
  <2> DEFINE j == Decided(job[h], r)
  <2>0. r \in rows /\ r.key = k /\ job[h].report[k] = "active" /\ job[h].pc = "next" /\ rows' = rows /\ notified' = notified
    BY <1>2 DEF RowsOf, Lookup
  <2>1. j \in Job
    <3>1. r.id < nextId /\ 0 < nextId /\ \A q \in rows : q.id = r.id => q = r
      BY <2>0 DEF IInv, RowsSound, TypeOK
    <3> QED BY <1>0, <2>0, <3>1, DecideSound
  <2>2. /\ j.fired = job[h].fired /\ j.now = job[h].now /\ j.pc \in {"next", "fire"}
        /\ j.report = job[h].report /\ j.doomed = job[h].doomed /\ j.todo = job[h].todo \ {k}
        /\ j.pc = "fire" => j.id = r.id /\ j.key = k /\ (r.fired = Never \/ j.now - r.fired >= Cooldown[k])
    BY <1>0, <2>0 DEF Decided, Due, Job
  <2> HIDE DEF j
  <2>3. Progress(j, rows)
    BY <1>0, <2>0, <2>2 DEF Progress
  <2> QED BY <1>2, <2>0, <2>1, <2>2, <2>3, ApartQuiet DEF j
<1>3. ASSUME RowsOf(k) = {}, Lookup(h, k), Set(h, [job[h] EXCEPT !.pc = "create", !.key = k]) PROVE ApartInv'
  <2> DEFINE j == [job[h] EXCEPT !.pc = "create", !.key = k]
  <2>0. job[h].report[k] = "active" /\ k \in job[h].todo /\ job[h].pc = "next" /\ rows' = rows /\ notified' = notified
    BY <1>3 DEF Lookup
  <2>1. /\ j \in Job /\ j.fired = job[h].fired /\ j.now = job[h].now /\ j.pc = "create" /\ j.key = k
        /\ j.report = job[h].report /\ j.doomed = job[h].doomed /\ j.todo = job[h].todo
    BY <1>0 DEF Job
  <2> HIDE DEF j
  <2>2. Progress(j, rows)
    BY <1>0, <1>3, <2>0, <2>1 DEF Progress, RowsOf
  <2> QED BY <1>3, <2>0, <2>1, <2>2, ApartQuiet DEF j
<1> QED BY <1>1, <1>2, <1>3 DEF Lookup

(* It creates the row it found missing, and nobody was there before it. *)
LEMMA ApartCreate ==
    ASSUME IInv, ApartInv, NEW h \in Handlers, Create(h), Disjoint'
    PROVE  ApartInv'
<1>0. /\ job[h] \in Job /\ JobSound(job[h], rows, nextId) /\ Progress(job[h], rows)
      /\ rows \in SUBSET Row /\ nextId \in Nat /\ job[h].pc = "create"
  BY DEF IInv, TypeOK, JobsSound, ApartInv, Create
<1> DEFINE k == job[h].key
           r == NewRow(job[h])
           j == Decided(job[h], r)
<1>1. k \in Keys /\ job[h].report[k] = "active" /\ RowsOf(k) = {} /\ SidOf[k] \in job[h].sids
  BY <1>0 DEF JobSound, Progress, RowsOf
<1>2. rows' = rows \cup {r} /\ Set(h, j) /\ notified' = notified
  BY <1>1 DEF Create
<1>3. r \in Row /\ r.key = k /\ r.fired = Never /\ r.id = nextId
  BY <1>0, <1>1 DEF Row, Job
<1>4. /\ j \in Job /\ j.fired = job[h].fired /\ j.now = job[h].now /\ j.pc \in {"next", "fire"}
      /\ j.report = job[h].report /\ j.doomed = job[h].doomed /\ j.todo = job[h].todo \ {k}
      /\ j.pc = "fire" => j.id = r.id /\ j.key = k
  BY <1>0, <1>3 DEF Decided, Job
<1> HIDE DEF j, r, k
<1>5. Progress(j, rows')
  BY <1>0, <1>1, <1>2, <1>3, <1>4 DEF Progress
<1>6. KeysUnique'
  BY <1>1, <1>2, <1>3 DEF ApartInv, KeysUnique, RowsOf
<1>7. rows' \in SUBSET Row /\ \A q \in Row : SidOf[q.key] \notin job[h].sids => (q \in rows <=> q \in rows')
  BY <1>0, <1>1, <1>2, <1>3
<1> QED BY <1>2, <1>3, <1>4, <1>5, <1>6, <1>7, ApartMove

(* It fires the row it decided on. *)
LEMMA ApartFire ==
    ASSUME IInv, ApartInv, NEW h \in Handlers, Fire(h), Disjoint'
    PROVE  ApartInv' /\ FiresInWindow
<1>0. /\ job[h] \in Job /\ JobSound(job[h], rows, nextId) /\ Progress(job[h], rows)
      /\ rows \in SUBSET Row /\ nextId \in Nat /\ job[h].pc = "fire" /\ job \in [Handlers -> Job]
  BY DEF IInv, TypeOK, JobsSound, ApartInv, Fire
<1>1. PICK r \in rows : /\ r.id = job[h].id /\ r.key = job[h].key
                        /\ r.fired = Never \/ job[h].now - r.fired >= Cooldown[r.key]
  BY <1>0 DEF Progress
<1>2. FiredRows(job[h]) = {r}
  BY <1>1 DEF IInv, RowsSound
<1> DEFINE q == [r EXCEPT !.fired = job[h].now]
           j == [job[h] EXCEPT !.pc = "next", !.key = NoKey, !.id = 0, !.fired = @ \cup {job[h].key}]
<1>3. rows' = (rows \ {r}) \cup {q} /\ Set(h, j) /\ notified' = notified
  BY <1>2 DEF Fire
<1>4. /\ q \in Row /\ q.key = r.key /\ q.fired = job[h].now /\ q.id = r.id
      /\ SidOf[r.key] \in job[h].sids /\ r.key \in Keys
  BY <1>0, <1>1 DEF Row, Job, JobSound, Progress
<1>5. /\ j \in Job /\ j.fired = job[h].fired \cup {r.key} /\ j.now = job[h].now /\ j.pc = "next"
      /\ j.report = job[h].report /\ j.doomed = job[h].doomed /\ j.todo = job[h].todo
  BY <1>0, <1>1, <1>4 DEF Job
<1> HIDE DEF j, q
<1>6. Progress(j, rows')
  BY <1>0, <1>3, <1>4, <1>5 DEF Progress
<1>7. KeysUnique'
  BY <1>3, <1>4 DEF ApartInv, KeysUnique
<1>8. rows' \in SUBSET Row /\ \A w \in Row : SidOf[w.key] \notin job[h].sids => (w \in rows <=> w \in rows')
  BY <1>0, <1>3, <1>4
<1>9. ApartInv'
  BY <1>3, <1>4, <1>5, <1>6, <1>7, <1>8, ApartMove
<1>10. FiresInWindow
  <2> SUFFICES ASSUME NEW g \in Handlers, NEW k \in job'[g].fired \ job[g].fired, NEW w \in RowsOf(k)
               PROVE  w.fired = Never \/ job[g].now - w.fired >= Cooldown[k]
    BY DEF FiresInWindow
  <2>1. g = h /\ k = r.key
    BY <1>0, <1>3, <1>5 DEF Set
  <2>2. w = r
    BY <2>1 DEF ApartInv, KeysUnique, RowsOf
  <2> QED BY <1>1, <2>1, <2>2
<1> QED BY <1>9, <1>10

(* It scans its scope, deletes what it doomed, and ends its clearing pass. *)
LEMMA ApartClear ==
    ASSUME IInv, ApartInv, NEW h \in Handlers, Disjoint',
           Scan(h) \/ EndClear(h) \/ \E i \in job[h].doomed : DeleteDoomed(h, i)
    PROVE  ApartInv'
<1>0. /\ job[h] \in Job /\ JobSound(job[h], rows, nextId) /\ Progress(job[h], rows)
      /\ rows \in SUBSET Row /\ nextId \in Nat
  BY DEF IInv, TypeOK, JobsSound, ApartInv
<1>1. CASE Scan(h)
  <2> DEFINE j == [job[h] EXCEPT !.pc = "doomed", !.doomed = {r.id : r \in Unseen(job[h])}]
  <2>1. /\ j \in Job /\ j.fired = job[h].fired /\ j.now = job[h].now /\ j.pc = "doomed" /\ j.todo = {}
        /\ j.report = job[h].report /\ j.sids = job[h].sids
        /\ j.doomed = {r.id : r \in Unseen(job[h])}
    <3>1. {r.id : r \in Unseen(job[h])} \in SUBSET Nat
      BY <1>0 DEF Row
    <3> QED BY <1>0, <1>1, <3>1 DEF Job, Scan
  <2>2. Set(h, j) /\ rows' = rows /\ notified' = notified /\ job[h].pc = "next" /\ job[h].todo = {}
    BY <1>1 DEF Scan
  <2> HIDE DEF j
  <2>3. \A r \in rows : SidOf[r.key] \in j.sids => j.report[r.key] = "active" \/ r.id \in j.doomed
    BY <1>0, <2>1 DEF Reported, Row
  <2>4. \A i \in j.doomed : \E r \in rows : r.id = i
    BY <2>1
  <2>5. \A k \in Keys : j.report[k] = "active" /\ k \notin j.todo => \E r \in rows : r.key = k
    BY <1>0, <2>1, <2>2 DEF Progress
  <2>6. Progress(j, rows)
    BY <2>1, <2>3, <2>4, <2>5 DEF Progress
  <2> QED BY <2>1, <2>2, <2>6, ApartQuiet
<1>2. CASE EndClear(h)
  <2>1. job[h].pc = "doomed" /\ job[h].doomed = {} /\ rows' = rows /\ notified' = notified
    BY <1>2 DEF EndClear
  <2>2. CASE job[h].fired = {}
    <3>1. Progress(NoJob, rows) /\ NoJob \in Job /\ Set(h, NoJob)
      BY <1>2, <2>2, NoJobSound, <1>0 DEF EndClear, Progress, NoJob, IInv, TypeOK
    <3> QED BY <2>1, <2>2, <3>1, ApartQuiet
  <2>3. CASE job[h].fired # {}
    <3> DEFINE j == [job[h] EXCEPT !.pc = "enqueue"]
    <3>1. /\ j \in Job /\ j.fired = job[h].fired /\ j.now = job[h].now /\ j.pc = "enqueue" /\ j.todo = job[h].todo
          /\ j.report = job[h].report /\ j.doomed = {} /\ j.sids = job[h].sids
      BY <1>0, <2>1 DEF Job
    <3>2. Set(h, j)
      BY <1>2, <2>3 DEF EndClear
    <3> HIDE DEF j
    <3>3. Progress(j, rows)
      BY <1>0, <2>1, <3>1 DEF Progress
    <3> QED BY <2>1, <3>1, <3>2, <3>3, ApartQuiet
  <2> QED BY <2>2, <2>3
<1>3. ASSUME NEW i \in job[h].doomed, DeleteDoomed(h, i) PROVE ApartInv'
  <2>0. PICK r \in rows : r.id = i
    BY <1>0 DEF Progress
  <2>1. {q \in rows : q.id = i} = {r}
    BY <2>0 DEF IInv, RowsSound
  <2> DEFINE j == [job[h] EXCEPT !.doomed = @ \ {i}]
  <2>2. Set(h, j) /\ rows' = rows \ {r} /\ notified' = notified /\ job[h].pc = "doomed"
    BY <1>3, <2>1 DEF DeleteDoomed
  <2>3. /\ j \in Job /\ j.fired = job[h].fired /\ j.now = job[h].now /\ j.pc = "doomed" /\ j.todo = job[h].todo
        /\ j.report = job[h].report /\ j.doomed = job[h].doomed \ {i} /\ j.sids = job[h].sids
    BY <1>0, <2>2 DEF Job
  <2> HIDE DEF j
  <2>4. SidOf[r.key] \in job[h].sids /\ job[h].report[r.key] # "active"
    BY <1>0, <2>0 DEF JobSound
  <2>5. Progress(j, rows')
    <3>1. \A k \in Keys : j.report[k] = "active" /\ k \notin j.todo => \E q \in rows' : q.key = k
      BY <1>0, <2>2, <2>3, <2>4 DEF Progress
    <3>2. \A n \in j.doomed : \E q \in rows' : q.id = n
      BY <1>0, <2>0, <2>2, <2>3 DEF Progress
    <3>3. \A q \in rows' : SidOf[q.key] \in j.sids => j.report[q.key] = "active" \/ q.id \in j.doomed
      BY <1>0, <2>0, <2>2, <2>3 DEF Progress, IInv, RowsSound
    <3>4. j.todo = {}
      BY <1>0, <2>2, <2>3 DEF Progress
    <3> QED BY <2>3, <3>1, <3>2, <3>3, <3>4 DEF Progress
  <2>6. \A q \in Row : SidOf[q.key] \notin job[h].sids => (q \in rows <=> q \in rows')
    BY <2>2, <2>4
  <2>7. KeysUnique'
    BY <2>2 DEF ApartInv, KeysUnique
  <2> QED BY <1>0, <2>2, <2>3, <2>5, <2>6, <2>7, ApartMove
<1> QED BY <1>1, <1>2, <1>3

(* It enqueues, or takes its clock reading. *)
LEMMA ApartEnds ==
    ASSUME IInv, ApartInv, NEW h \in Handlers, Disjoint', BeginReconcile(h) \/ \E k \in Keys : Enqueue(h, k)
    PROVE  ApartInv'
<1>0. /\ job[h] \in Job /\ JobSound(job[h], rows, nextId) /\ Progress(job[h], rows) /\ clock \in Nat
  BY BoundsAssumption DEF IInv, TypeOK, JobsSound, ApartInv
<1>1. CASE BeginReconcile(h)
  <2> DEFINE j == [job[h] EXCEPT !.pc = "next", !.now = clock]
  <2>1. /\ j \in Job /\ j.fired = {} /\ j.pc = "next" /\ j.todo = job[h].todo
        /\ j.report = job[h].report /\ j.doomed = {} /\ job[h].fired = {}
    BY <1>0, <1>1 DEF Job, BeginReconcile, Progress
  <2>2. Set(h, j) /\ rows' = rows /\ notified' = notified /\ job[h].pc = "stored"
    BY <1>1 DEF BeginReconcile
  <2> HIDE DEF j
  <2>3. Progress(j, rows)
    BY <1>0, <2>1 DEF Progress
  <2> QED BY <2>1, <2>2, <2>3, ApartQuiet
<1>2. ASSUME NEW k \in Keys, Enqueue(h, k) PROVE ApartInv'
  <2>1. /\ notified' = notified \cup {[key |-> k, at |-> job[h].now]} /\ rows' = rows
        /\ job[h].pc = "enqueue"
    BY <1>2 DEF Enqueue
  <2>2. CASE LeftAfter(job[h], k) = {}
    <3>1. Progress(NoJob, rows) /\ NoJob \in Job /\ Set(h, NoJob) /\ job[h].fired \subseteq {k}
      BY <1>2, <2>2, NoJobSound, <1>0 DEF Enqueue, Progress, NoJob, IInv, TypeOK
    <3> QED BY <2>1, <3>1, ApartQuiet
  <2>3. CASE LeftAfter(job[h], k) # {}
    <3> DEFINE j == [job[h] EXCEPT !.fired = LeftAfter(job[h], k)]
    <3>1. /\ j \in Job /\ j.fired = job[h].fired \ {k} /\ j.now = job[h].now /\ j.pc = "enqueue" /\ j.todo = job[h].todo
          /\ j.report = job[h].report /\ j.doomed = job[h].doomed /\ j.sids = job[h].sids
      BY <1>0, <2>1 DEF Job
    <3>2. Set(h, j)
      BY <1>2, <2>3 DEF Enqueue
    <3> HIDE DEF j
    <3>3. Progress(j, rows)
      BY <1>0, <2>1, <3>1 DEF Progress
    <3> QED BY <2>1, <3>1, <3>2, <3>3, ApartQuiet
  <2> QED BY <2>2, <2>3
<1> QED BY <1>1, <1>2

LEMMA ApartInit == Init => ApartInv
<1> SUFFICES ASSUME Init PROVE ApartInv
  OBVIOUS
<1>1. \A h \in Handlers : job[h] = NoJob /\ Progress(NoJob, rows)
  BY DEF Init, Progress, NoJob
<1>2. Disjoint
  BY DEF Init, Disjoint, NoJob
<1> QED BY <1>1, <1>2 DEF Init, ApartInv, KeysUnique, FireNoted

(* A step of the engine that neither crashes nor forgets, and lets no two   *)
(* handlers of one scope be in flight together.                             *)
ApartNext == Next /\ Disjoint' /\ UNCHANGED <<crashes, forgets>>

(* Handler h fires nothing. *)
Calm(h) == job'[h].fired \subseteq job[h].fired /\ \A g \in Handlers \ {h} : job'[g] = job[g]

LEMMA CalmSet ==
    ASSUME IInv, NEW h \in Handlers, NEW j, Set(h, j), j.fired \subseteq job[h].fired
    PROVE  Calm(h)
BY DEF Calm, Set, IInv, TypeOK

LEMMA StepCalm ==
    ASSUME IInv, ApartInv, NEW h \in Handlers, Ingest(h) \/ Sweep(h) \/ Step(h), ~Fire(h)
    PROVE  FiresInWindow
<1>0. job[h] \in Job /\ NoJob.fired = {}
  BY DEF IInv, TypeOK, NoJob
<1>1. Set(h, NoJob) => Calm(h)
  BY <1>0, CalmSet
<1>2. ASSUME Ingest(h) \/ Sweep(h) PROVE Calm(h)
  <2>1. PICK j : Set(h, j) /\ j.fired = {}
    <3>1. ASSUME NEW sids, NEW report, NEW tier, StoreSnapshot(h, sids, report, tier)
          PROVE  \E j : Set(h, j) /\ j.fired = {}
      <4> DEFINE j == [NoJob EXCEPT !.pc = "stored", !.sids = sids, !.report = report, !.tier = tier,
                                    !.todo = {k \in Keys : report[k] # "absent"}]
      <4>1. Set(h, j) /\ j.fired = {}
        BY <3>1 DEF StoreSnapshot, NoJob
      <4> QED BY <4>1
    <3>2. ASSUME NEW idle_, NEW tier, StartSweep(h, idle_, tier)
          PROVE  \E j : Set(h, j) /\ j.fired = {}
      <4>1. PICK rep : Set(h, [NoJob EXCEPT !.pc = "next", !.sids = {MachineScope}, !.tier = tier, !.now = clock,
                                            !.todo = {IdleKey, OfflineKey}, !.report = rep])
        BY <3>2 DEF StartSweep
      <4> DEFINE j == [NoJob EXCEPT !.pc = "next", !.sids = {MachineScope}, !.tier = tier, !.now = clock,
                                    !.todo = {IdleKey, OfflineKey}, !.report = rep]
      <4>2. j.fired = {}
        BY DEF NoJob
      <4> QED BY <4>1, <4>2
    <3> QED BY <1>2, <3>1, <3>2 DEF Ingest, Sweep
  <2> QED BY <2>1, CalmSet
<1>3. ASSUME BeginReconcile(h) PROVE Calm(h)
  <2> DEFINE j == [job[h] EXCEPT !.pc = "next", !.now = clock]
  <2>1. Set(h, j) /\ j.fired = job[h].fired
    BY <1>0, <1>3 DEF BeginReconcile, Job
  <2> QED BY <2>1, CalmSet
<1>4. ASSUME NEW k, Enqueue(h, k) PROVE Calm(h)
  <2> DEFINE j == [job[h] EXCEPT !.fired = LeftAfter(job[h], k)]
  <2>1. j.fired \subseteq job[h].fired
    BY <1>0 DEF Job
  <2>2. Set(h, j) \/ Set(h, NoJob)
    BY <1>4 DEF Enqueue
  <2> QED BY <1>1, <2>1, <2>2, CalmSet
<1>5. ASSUME Scan(h) PROVE Calm(h)
  <2> DEFINE j == [job[h] EXCEPT !.pc = "doomed", !.doomed = {r.id : r \in Unseen(job[h])}]
  <2>1. Set(h, j) /\ j.fired = job[h].fired
    BY <1>0, <1>5 DEF Scan, Job
  <2> QED BY <2>1, CalmSet
<1>6. ASSUME EndClear(h) PROVE Calm(h)
  <2> DEFINE j == [job[h] EXCEPT !.pc = "enqueue"]
  <2>1. j.fired = job[h].fired /\ (Set(h, j) \/ Set(h, NoJob))
    BY <1>0, <1>6 DEF EndClear, Job
  <2> QED BY <1>1, <2>1, CalmSet
<1>7. ASSUME NEW i, DeleteDoomed(h, i) PROVE Calm(h)
  <2> DEFINE j == [job[h] EXCEPT !.doomed = @ \ {i}]
  <2>1. j.fired = job[h].fired /\ (Set(h, j) \/ Set(h, NoJob))
    BY <1>0, <1>7 DEF DeleteDoomed, Abort, Job
  <2> QED BY <1>1, <2>1, CalmSet
<1>8. ASSUME NEW k, ClearReported(h, k) PROVE Calm(h)
  <2> DEFINE j == [job[h] EXCEPT !.todo = @ \ {k}]
  <2>1. Set(h, j) /\ j.fired = job[h].fired
    BY <1>0, <1>8 DEF ClearReported, Job
  <2> QED BY <2>1, CalmSet
<1>9. ASSUME NEW r PROVE Decided(job[h], r).fired = job[h].fired
  BY <1>0 DEF Decided, Job
<1>10. ASSUME NEW k, Lookup(h, k) PROVE Calm(h)
  <2> DEFINE j == [job[h] EXCEPT !.pc = "create", !.key = k]
  <2>1. j.fired = job[h].fired
    BY <1>0 DEF Job
  <2>2. Set(h, j) \/ \E r \in RowsOf(k) : Set(h, Decided(job[h], r))
    BY <1>10 DEF Lookup
  <2> QED BY <1>9, <2>1, <2>2, CalmSet
<1>11. ASSUME Create(h) PROVE Calm(h)
  <2>1. Set(h, NoJob) \/ Set(h, Decided(job[h], NewRow(job[h])))
    BY <1>11 DEF Create, Abort
  <2> QED BY <1>1, <1>9, <2>1, CalmSet
<1>12. Calm(h)
  BY <1>2, <1>3, <1>4, <1>5, <1>6, <1>7, <1>8, <1>10, <1>11 DEF Step
<1> QED BY <1>12 DEF Calm, FiresInWindow

LEMMA ApartKept ==
    ASSUME IInv, ApartInv, ApartNext \/ UNCHANGED vars
    PROVE  ApartInv' /\ FiresInWindow
<1> USE DEF counters
<1>0. crashes \in Nat /\ forgets \in Nat
  BY BoundsAssumption DEF IInv, TypeOK
<1>1. ASSUME job' = job, rows' = rows, notified' = notified PROVE ApartInv' /\ FiresInWindow
  <2>1. ApartInv'
    BY <1>1 DEF ApartInv, Disjoint, KeysUnique, FireNoted
  <2>2. FiresInWindow
    BY <1>1 DEF FiresInWindow
  <2> QED BY <2>1, <2>2
<1>2. ASSUME NEW h \in Handlers, Disjoint', Ingest(h) \/ Sweep(h) \/ Step(h) PROVE ApartInv' /\ FiresInWindow
  <2>1. CASE Fire(h)
    BY <1>2, <2>1, ApartFire
  <2>2. ApartInv'
    BY <1>2, ApartStart, ApartEnds, ApartClear, ApartTodo, ApartCreate, ApartFire DEF Step
  <2> QED BY <1>2, <2>1, <2>2, StepCalm
<1>4. CASE ApartNext
  <2>1. ~Crash /\ ~ForgetMachine
    BY <1>0, <1>4 DEF ApartNext, Crash, ForgetMachine
  <2>2. Touch \/ Tick => ApartInv' /\ FiresInWindow
    BY <1>1 DEF Touch, Tick
  <2> QED BY <1>2, <1>4, <2>1, <2>2 DEF ApartNext, Next
<1>5. CASE UNCHANGED vars
  BY <1>1, <1>5 DEF vars
<1> QED BY <1>4, <1>5

(* What the invariant says of the handlers that are done. *)
LEMMA ApartMeans == IInv /\ ApartInv => Reconciled /\ FiredIsEnqueued
<1> SUFFICES ASSUME IInv, ApartInv PROVE Reconciled /\ FiredIsEnqueued
  OBVIOUS
<1>1. ASSUME NEW h \in Handlers, job[h].pc = "enqueue" \/ (job[h].pc = "doomed" /\ job[h].doomed = {})
      PROVE  {r.key : r \in {q \in rows : SidOf[q.key] \in job[h].sids}} = Reported(job[h], "active")
  <2>1. JobSound(job[h], rows, nextId) /\ Progress(job[h], rows) /\ job[h].doomed = {} /\ job[h].todo = {}
    BY <1>1 DEF IInv, JobsSound, ApartInv, Progress
  <2>2. \A r \in rows : r.key \in Keys
    BY DEF IInv, TypeOK, Row
  <2>3. ASSUME NEW k \in Reported(job[h], "active")
        PROVE  k \in {r.key : r \in {q \in rows : SidOf[q.key] \in job[h].sids}}
    BY <2>1 DEF Reported, JobSound, Progress
  <2>4. ASSUME NEW r \in rows, SidOf[r.key] \in job[h].sids PROVE r.key \in Reported(job[h], "active")
    BY <1>1, <2>1, <2>2, <2>4 DEF Reported, Progress
  <2> QED BY <2>3, <2>4
<1>2. FiredIsEnqueued
  BY DEF FiredIsEnqueued, Quiet, ApartInv, FireNoted, Progress
<1> QED BY <1>1, <1>2 DEF Reconciled

(* When no two handlers of one scope are in flight together, and nothing     *)
(* crashes or is forgotten, every handler leaves exactly the rows it was     *)
(* told of, every fire gets its notification, and a target fires at most     *)
(* once per cooldown: for any number of handlers, sessions and tiers.        *)
THEOREM ApartEpisodes == Init /\ [][ApartNext]_vars => [](Reconciled /\ FiredIsEnqueued) /\ [][FiresInWindow]_vars
<1>1. Init => IInv /\ ApartInv
  BY InitIInv, ApartInit
<1>2. IInv /\ ApartInv /\ [ApartNext]_vars => IInv' /\ ApartInv' /\ FiresInWindow
  BY NextIInv, ApartKept DEF ApartNext
<1>3. IInv /\ ApartInv => Reconciled /\ FiredIsEnqueued
  BY ApartMeans
<1> QED BY <1>1, <1>2, <1>3, PTL

(* The same of the runs, which admit overlapping handlers too. *)
MCInv == IInv /\ (apart => ApartInv /\ crashes = 0 /\ forgets = 0)

LEMMA MCKept == MCInv /\ [MCNext]_<<vars, apart>> => MCInv' /\ [apart => FiresInWindow]_vars
<1> SUFFICES ASSUME MCInv, [MCNext]_<<vars, apart>> PROVE MCInv' /\ [apart => FiresInWindow]_vars
  OBVIOUS
<1>1. IInv' /\ apart' = apart
  BY NextIInv DEF MCInv, MCNext
<1>2. ASSUME apart PROVE ApartInv' /\ crashes' = 0 /\ forgets' = 0 /\ FiresInWindow
  <2>1. IInv /\ ApartInv /\ crashes = 0 /\ forgets = 0
    BY <1>2 DEF MCInv
  <2>2. CASE MCNext
    <3>1. ApartNext /\ crashes' = 0 /\ forgets' = 0
      BY <1>2, <2>1, <2>2 DEF MCNext, Admitted, ApartNext
    <3> QED BY <2>1, <3>1, ApartKept
  <2>3. CASE UNCHANGED <<vars, apart>>
    BY <2>1, <2>3, ApartKept DEF vars
  <2> QED BY <2>2, <2>3
<1> QED BY <1>1, <1>2 DEF MCInv

LEMMA MCInitial == MCInit => MCInv
BY InitIInv, ApartInit DEF MCInit, MCInv, Init

(* Handlers kept apart reconcile their rows and notify their fires. *)
THEOREM KeptApart == MCSpec => []ReconciledApart
<1>1. MCInv => ReconciledApart
  BY ApartMeans DEF MCInv, ReconciledApart
<1> QED BY MCInitial, MCKept, <1>1, PTL DEF MCSpec

(* Handlers kept apart fire a target at most once per cooldown. *)
THEOREM WindowKept == MCSpec => OncePerWindow
<1>1. MCInv /\ [MCNext]_<<vars, apart>> => [apart => FiresInWindow]_vars
  BY MCKept
<1> QED BY MCInitial, MCKept, <1>1, PTL DEF MCSpec, OncePerWindow
=============================================================================
