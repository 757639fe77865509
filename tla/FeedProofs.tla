----------------------------- MODULE FeedProofs -----------------------------
(***************************************************************************)
(* The pages that read the backend's lists and hear of its changes, each   *)
(* by itself and for every value of its constants: what keeps the          *)
(* dashboard and the album of Spotlight up to date (StreamInv, DashInv,    *)
(* AlbumInv), and the tokens page true to its own work (TokensInv).        *)
(* PagesProofs draws the conclusions for the pages together.               *)
(***************************************************************************)
EXTENDS Dashboard, Album, TokensPage, FiniteSetTheorems, SequenceTheorems, WellFoundedInduction, TLAPS

(***************************************************************************)
(* What the dashboard and the album have in common.                        *)
(***************************************************************************)
(* The stream begins when the page is ready.                                *)
Heard ==
    /\ stream = "off" => ~tried
    /\ status # "ready" => stream = "off"
    /\ NeverBlind

(* What there is has been counted, and the first request is alone.          *)
Counted ==
    /\ attn <= events
    /\ \A m \in Machines : rev[m] <= events /\ pane[m] <= events + 1
    /\ IsFiniteSet(fetches)
    /\ \A f \in fetches : f.kind = "me" <=> status = "me"
    /\ status = "me" => 0..N \subseteq excused

StreamInv == StreamTypeOK /\ Heard /\ Counted

Kind == {"me", "list", "detail", "attn", "roster"}
Announcement == [event : {"machine.update", "attention.update"}, m : Machines]

LEMMA FreeNumber ==
    ASSUME StreamTypeOK, IsFiniteSet(fetches), NEW kind, NEW m, CanSend(kind, m)
    PROVE  \E n \in 1..MaxFetches : \A f \in fetches : f.kind = kind /\ f.m = m => f.n # n
<1>0. MaxFetches \in Nat /\ MaxFetches > 0
  BY StreamAssumption
<1> DEFINE S == {f \in fetches : f.kind = kind /\ f.m = m}
<1>1. S \in SUBSET fetches
  OBVIOUS
<1>2. IsFiniteSet(S)
  BY <1>1, FS_Subset
<1>3. Cardinality(S) \in Nat /\ Cardinality(S) < MaxFetches
  BY <1>2, FS_CardinalityType DEF CanSend
<1> SUFFICES ASSUME \A n \in 1..MaxFetches : \E f \in S : f.n = n PROVE FALSE
  OBVIOUS
<1> DEFINE g == [n \in 1..MaxFetches |-> CHOOSE f \in S : f.n = n]
<1>4. \A n \in 1..MaxFetches : g[n] \in S /\ g[n].n = n
  OBVIOUS
<1> HIDE DEF S
<1>5. g \in [1..MaxFetches -> S]
  BY <1>4
<1> HIDE DEF g
<1>6. \A n, k \in 1..MaxFetches : g[n] = g[k] => n = k
  BY <1>4
<1>7. IsFiniteSet(1..MaxFetches) /\ Cardinality(1..MaxFetches) = MaxFetches
  BY <1>0, FS_Interval
<1>8. g \in Injection(1..MaxFetches, S)
  <2>1. DOMAIN g = 1..MaxFetches
    BY <1>5
  <2>2. IsInjective(g)
    BY <1>6, <2>1 DEF IsInjective
  <2> QED BY <1>5, <2>2 DEF Injection
<1>9. Cardinality(1..MaxFetches) <= Cardinality(S)
  BY <1>2, <1>8, FS_Injection
<1> QED BY <1>0, <1>3, <1>7, <1>9

LEMMA NewTyped ==
    ASSUME StreamTypeOK, IsFiniteSet(fetches), NEW kind \in Kind, NEW m \in 0..N, CanSend(kind, m)
    PROVE  /\ New(kind, m) \in Fetch
           /\ New(kind, m).kind = kind /\ New(kind, m).m = m /\ ~New(kind, m).done
           /\ New(kind, m).answer = NoAnswer /\ New(kind, m).at = 0
<1>0. N \in Nat /\ MaxEvents \in Nat
  BY StreamAssumption
<1>1. PICK n \in 1..MaxFetches : n = CHOOSE k \in 1..MaxFetches : \A f \in fetches : f.kind = kind /\ f.m = m => f.n # k
  BY FreeNumber
<1>2. New(kind, m) = [kind |-> kind, m |-> m, n |-> n, done |-> FALSE, at |-> 0, answer |-> NoAnswer]
  BY <1>1 DEF New, Sent
<1>3. NoAnswer \in Snapshots
  BY <1>0 DEF NoAnswer, Snapshots
<1>4. 0 \in 0..MaxEvents
  BY <1>0
<1>5. [kind |-> kind, m |-> m, n |-> n, done |-> FALSE, at |-> 0, answer |-> NoAnswer] \in Fetch
  BY <1>3, <1>4 DEF Fetch, Kind
<1> QED BY <1>2, <1>5

(* What is requested is finite, and every request says what it is for.       *)
LEMMA SendsTyped ==
    ASSUME StreamTypeOK, IsFiniteSet(fetches), NEW rest, rest \subseteq fetches,
           NEW whats, whats \subseteq Kind \X (0..N), IsFiniteSet(whats), MaySend(whats)
    PROVE  /\ SendAll(rest, whats) \subseteq Fetch /\ IsFiniteSet(SendAll(rest, whats))
           /\ rest \subseteq SendAll(rest, whats)
           /\ \A f \in SendAll(rest, whats) : f \in rest \/
                (\E w \in whats : f.kind = w[1] /\ f.m = w[2] /\ ~f.done /\ f.answer = NoAnswer /\ f.at = 0)
           /\ \A w \in whats : \E f \in SendAll(rest, whats) : f.kind = w[1] /\ f.m = w[2] /\ ~f.done
<1> DEFINE new(w) == New(w[1], w[2])
           news == {new(w) : w \in whats}
           g == [w \in whats |-> new(w)]
<1>1. \A w \in whats : /\ new(w) \in Fetch /\ new(w).kind = w[1] /\ new(w).m = w[2]
                       /\ ~new(w).done /\ new(w).answer = NoAnswer /\ new(w).at = 0
  <2> TAKE w \in whats
  <2>1. w[1] \in Kind /\ w[2] \in 0..N /\ CanSend(w[1], w[2])
    BY DEF MaySend
  <2> QED BY <2>1, NewTyped
<1>2. SendAll(rest, whats) = rest \cup news
  BY DEF SendAll
<1>3. IsFiniteSet(news)
  <2>1. g \in Surjection(whats, news)
    <3>1. g \in [whats -> news]
      OBVIOUS
    <3>2. \A t \in news : \E w \in whats : g[w] = t
      OBVIOUS
    <3> QED BY <3>1, <3>2 DEF Surjection
  <2> QED BY <2>1, FS_Surjection
<1>4. IsFiniteSet(rest)
  BY FS_Subset
<1>5. IsFiniteSet(rest \cup news)
  BY <1>3, <1>4, FS_Union
<1>6. rest \subseteq Fetch
  BY DEF StreamTypeOK
<1> QED BY <1>1, <1>2, <1>5, <1>6

(* The events that have not been handled yet.                               *)
Told(m) == \E i \in DOMAIN wire : wire[i].event = "machine.update" /\ wire[i].m = m
Alerted == \E i \in DOMAIN wire : wire[i].event = "attention.update"

LEMMA Announced ==
    ASSUME StreamInv, NEW e \in Announcement, NEW what, what \subseteq 0..N, Room, Announce(e, what)
    PROVE  /\ wire' \in Seq(Announcement) /\ Len(wire') <= MaxWire /\ excused' \subseteq 0..N
           /\ \A m : Told(m) => Told(m)'
           /\ Alerted => Alerted'
           /\ Subscribed => /\ excused' = excused \ what
                            /\ \E i \in DOMAIN wire' : wire'[i] = e
           /\ ~Subscribed => excused' = excused \cup what
<1>1. wire \in Seq(Announcement) /\ Len(wire) < MaxWire /\ excused \subseteq 0..N /\ MaxWire \in Nat
  BY StreamAssumption DEF StreamInv, StreamTypeOK, Announcement, Room
<1>2. CASE Subscribed
  <2>0. Append(wire, e) \in Seq(Announcement)
    BY <1>1
  <2>1. PICK r \in Seq(Announcement) : r = Append(wire, e)
    BY <2>0
  <2>2. wire' = r /\ excused' = excused \ what
    BY <1>2, <2>1 DEF Announce, Publish
  <2>3. /\ Len(r) = Len(wire) + 1 /\ Len(wire) \in Nat /\ DOMAIN r = 1..Len(wire) + 1 /\ DOMAIN wire = 1..Len(wire)
        /\ r[Len(wire) + 1] = e /\ \A i \in DOMAIN wire : i \in DOMAIN r /\ r[i] = wire[i]
    BY <1>1, <2>1
  <2>4. Len(wire') <= MaxWire
    BY <1>1, <2>2, <2>3
  <2>5. \E i \in DOMAIN wire' : wire'[i] = e
    BY <2>2, <2>3
  <2>6. \A m : Told(m) => Told(m)'
    BY <2>2, <2>3 DEF Told
  <2>7. Alerted => Alerted'
    BY <2>2, <2>3 DEF Alerted
  <2> QED BY <1>1, <1>2, <2>2, <2>4, <2>5, <2>6, <2>7
<1>3. CASE ~Subscribed
  <2>1. UNCHANGED wire /\ excused' = excused \cup what
    BY <1>3 DEF Announce, Publish
  <2> QED BY <1>1, <1>3, <2>1 DEF Told, Alerted
<1> QED BY <1>2, <1>3

(* What the backend and the network do: a change is announced, or the page   *)
(* cannot know of it.                                                       *)
Spread ==
    /\ UNCHANGED <<status, fetches>>
    /\ events' \in Nat /\ (events' = events \/ events' = events + 1)
    /\ stream = "off" => excused \subseteq excused'
    /\ attn' >= attn /\ (0 \notin excused' => Alerted' \/ (0 \notin excused /\ ~Alerted /\ attn' = attn))
    /\ \A m \in Machines :
         /\ rev'[m] >= rev[m]
         /\ pane'[m] # pane[m] => events' = events + 1
         /\ m \notin excused' => Told(m)' \/ ( /\ m \notin excused /\ ~Told(m)
                                              /\ rev'[m] = rev[m] /\ pane'[m] = pane[m] /\ (m \in there' <=> m \in there))

LEMMA Typed ==
    ASSUME StreamInv
    PROVE  /\ rev \in Snapshots /\ there \subseteq Machines /\ attn \in Nat /\ attn <= MaxEvents
           /\ pane \in [Machines -> 0..2]
           /\ others \in 0..MaxStreams /\ events \in Nat /\ events <= MaxEvents
           /\ stream \in {"off", "connecting", "subscribed", "open", "closed"}
           /\ wire \in Seq(Announcement) /\ Len(wire) <= MaxWire
           /\ fallback \in BOOLEAN /\ tried \in BOOLEAN
           /\ fetches \subseteq Fetch
           /\ status \in {"me", "loading", "anon", "not-pro", "ready"} /\ excused \subseteq 0..N
           /\ N \in Nat /\ N > 0 /\ MaxEvents \in Nat /\ MaxStreams \in Nat /\ MaxStreams > 0 /\ MaxWire \in Nat
           /\ attn <= events /\ \A m \in Machines : rev[m] \in Nat /\ rev[m] <= events
<1>1. StreamTypeOK /\ Counted
  BY DEF StreamInv
<1>2. /\ N \in Nat /\ N > 0 /\ MaxEvents \in Nat /\ MaxStreams \in Nat /\ MaxStreams > 0 /\ MaxWire \in Nat
  BY StreamAssumption
<1>3. \A m \in Machines : rev[m] \in Nat
  BY <1>1, <1>2 DEF StreamTypeOK, Snapshots
<1>4. {Off, Active, Thinking} = 0..2
  BY DEF Off, Active, Thinking
<1>5. attn \in Nat /\ attn <= MaxEvents /\ events \in Nat /\ events <= MaxEvents
  BY <1>1, <1>2 DEF StreamTypeOK
<1>6. wire \in Seq(Announcement) /\ pane \in [Machines -> 0..2]
  BY <1>1, <1>4 DEF StreamTypeOK, Announcement
<1>7. attn <= events /\ \A m \in Machines : rev[m] \in Nat /\ rev[m] <= events
  BY <1>1, <1>3 DEF Counted
<1> QED BY <1>1, <1>2, <1>5, <1>6, <1>7 DEF StreamTypeOK

LEMMA ServerStep ==
    ASSUME StreamInv, NEW kinds, kinds \subseteq 0..2, ServerNext(kinds), UNCHANGED page
    PROVE  StreamInv' /\ Spread
<1>0. /\ rev \in Snapshots /\ there \subseteq Machines /\ attn \in Nat /\ attn <= MaxEvents
      /\ pane \in [Machines -> 0..2]
      /\ others \in 0..MaxStreams /\ events \in Nat /\ events <= MaxEvents
      /\ stream \in {"off", "connecting", "subscribed", "open", "closed"}
      /\ wire \in Seq(Announcement) /\ Len(wire) <= MaxWire
      /\ fallback \in BOOLEAN /\ tried \in BOOLEAN
      /\ fetches \subseteq Fetch
      /\ status \in {"me", "loading", "anon", "not-pro", "ready"} /\ excused \subseteq 0..N
      /\ N \in Nat /\ N > 0 /\ MaxEvents \in Nat /\ MaxStreams \in Nat /\ MaxStreams > 0 /\ MaxWire \in Nat
      /\ attn <= events /\ \A m \in Machines : rev[m] \in Nat /\ rev[m] <= events
  BY Typed
<1>1. ASSUME NEW m \in Machines, NEW p \in kinds, Ingest(m, p) PROVE StreamInv' /\ Spread
  <2> DEFINE e == [event |-> "machine.update", m |-> m]
  <2>1. /\ Room /\ events' = events + 1 /\ events < MaxEvents
        /\ rev' = [rev EXCEPT ![m] = @ + 1] /\ there' = there \cup {m} /\ pane' = [pane EXCEPT ![m] = p]
        /\ Announce(e, {m}) /\ UNCHANGED <<attn, others, stream, fallback, tried, status, fetches>>
    BY <1>1 DEF Ingest, Event
  <2>2. e \in Announcement /\ {m} \subseteq 0..N
    BY <1>0 DEF Announcement, Machines
  <2>3. /\ wire' \in Seq(Announcement) /\ Len(wire') <= MaxWire /\ excused' \subseteq 0..N
        /\ \A k : Told(k) => Told(k)'
        /\ Alerted => Alerted'
        /\ Subscribed => excused' = excused \ {m} /\ \E i \in DOMAIN wire' : wire'[i] = e
        /\ ~Subscribed => excused' = excused \cup {m}
    BY <2>1, <2>2, Announced
  <2>4. \A k \in Machines : /\ rev'[k] \in Nat /\ rev'[k] <= events' /\ rev'[k] >= rev[k] /\ pane'[k] \in 0..2
                            /\ (k # m => rev'[k] = rev[k] /\ pane'[k] = pane[k])
    BY <1>0, <2>1 DEF Snapshots
  <2>5. rev' \in Snapshots
    BY <1>0, <2>1, <2>4 DEF Snapshots
  <2>6. StreamTypeOK'
    <3>1. pane' \in [Machines -> {Off, Active, Thinking}]
      BY <1>0, <2>1 DEF Off, Active, Thinking
    <3>2. page' \in {"dashboard", "album"}
      BY DEF StreamInv, StreamTypeOK
    <3> QED BY <1>0, <2>1, <2>3, <2>5, <3>1, <3>2 DEF StreamTypeOK, Announcement
  <2>7. status = "me" => ~Subscribed
    BY DEF StreamInv, Heard, Subscribed
  <2>8. Counted'
    <3>1. \A k \in Machines : pane'[k] <= events' + 1
      BY <1>0, <2>1, <2>4
    <3>2. status' = "me" => 0..N \subseteq excused'
      BY <2>1, <2>3, <2>7 DEF StreamInv, Counted
    <3>3. IsFiniteSet(fetches') /\ \A f \in fetches' : f.kind = "me" <=> status' = "me"
      BY <2>1 DEF StreamInv, Counted
    <3> QED BY <1>0, <2>1, <2>4, <3>1, <3>2, <3>3 DEF Counted
  <2>9. Heard'
    BY <2>1 DEF StreamInv, Heard, NeverBlind
  <2>10. Subscribed => Told(m)'
    BY <2>3 DEF Told
  <2>11. Spread
    <3>1. 0 \notin excused' => 0 \notin excused
      BY <2>3, <1>0 DEF Machines
    <3>2. 0 \notin excused' => Alerted' \/ (0 \notin excused /\ ~Alerted /\ attn' = attn)
      BY <2>1, <2>3, <3>1
    <3>3. ASSUME NEW k \in Machines, k \notin excused'
          PROVE  Told(k)' \/ ( /\ k \notin excused /\ ~Told(k)
                               /\ rev'[k] = rev[k] /\ pane'[k] = pane[k] /\ (k \in there' <=> k \in there))
      <4>1. CASE k = m
        BY <2>3, <2>10, <3>3, <4>1
      <4>2. CASE k # m
        BY <2>1, <2>3, <2>4, <3>3, <4>2
      <4> QED BY <4>1, <4>2
    <3>4. stream = "off" => excused \subseteq excused'
      BY <2>3 DEF Subscribed
    <3> QED BY <1>0, <2>1, <2>4, <3>2, <3>3, <3>4 DEF Spread
  <2> QED BY <2>6, <2>8, <2>9, <2>11 DEF StreamInv
<1>2. ASSUME NEW m \in Machines, AttentionChanges(m) PROVE StreamInv' /\ Spread
  <2> DEFINE e == [event |-> "attention.update", m |-> m]
  <2>1. /\ Room /\ events' = events + 1 /\ events < MaxEvents /\ attn' = attn + 1
        /\ Announce(e, {0}) /\ UNCHANGED <<rev, there, pane, others, stream, fallback, tried, status, fetches>>
    BY <1>2 DEF AttentionChanges, Event
  <2>2. e \in Announcement /\ {0} \subseteq 0..N
    BY <1>0 DEF Announcement, Machines
  <2>3. /\ wire' \in Seq(Announcement) /\ Len(wire') <= MaxWire /\ excused' \subseteq 0..N
        /\ \A k : Told(k) => Told(k)'
        /\ Alerted => Alerted'
        /\ Subscribed => excused' = excused \ {0} /\ \E i \in DOMAIN wire' : wire'[i] = e
        /\ ~Subscribed => excused' = excused \cup {0}
    BY <2>1, <2>2, Announced
  <2>6. StreamTypeOK'
    <3>1. pane' \in [Machines -> {Off, Active, Thinking}] /\ page' \in {"dashboard", "album"}
      BY <2>1 DEF StreamInv, StreamTypeOK
    <3> QED BY <1>0, <2>1, <2>3, <3>1 DEF StreamTypeOK, Announcement
  <2>7. status = "me" => ~Subscribed
    BY DEF StreamInv, Heard, Subscribed
  <2>8. Counted'
    <3>1. \A k \in Machines : pane'[k] <= events' + 1 /\ rev'[k] <= events'
      BY <1>0, <2>1
    <3>2. status' = "me" => 0..N \subseteq excused'
      BY <2>1, <2>3, <2>7 DEF StreamInv, Counted
    <3>3. IsFiniteSet(fetches') /\ \A f \in fetches' : f.kind = "me" <=> status' = "me"
      BY <2>1 DEF StreamInv, Counted
    <3> QED BY <1>0, <2>1, <3>1, <3>2, <3>3 DEF Counted
  <2>9. Heard'
    BY <2>1 DEF StreamInv, Heard, NeverBlind
  <2>10. Subscribed => Alerted'
    BY <2>3 DEF Alerted
  <2>11. Spread
    <3>2. 0 \notin excused' => Alerted'
      BY <2>3, <2>10
    <3>3. ASSUME NEW k \in Machines, k \notin excused' PROVE k \notin excused
      BY <1>0, <2>3, <3>3 DEF Machines
    <3>4. \A k \in Machines : rev'[k] >= rev[k]
      BY <1>0, <2>1
    <3>5. stream = "off" => excused \subseteq excused'
      BY <2>3 DEF Subscribed
    <3> QED BY <1>0, <2>1, <2>3, <3>2, <3>3, <3>4, <3>5 DEF Spread
  <2> QED BY <2>6, <2>8, <2>9, <2>11 DEF StreamInv
<1>3. ASSUME NEW m \in Machines, Forget(m) PROVE StreamInv' /\ Spread
  <2>1. /\ events' = events + 1 /\ events < MaxEvents
        /\ there' = there \ {m} /\ pane' = [pane EXCEPT ![m] = 0] /\ excused' = excused \cup {m}
        /\ UNCHANGED <<rev, attn, others, stream, wire, fallback, tried, status, fetches>>
    BY <1>3 DEF Forget, Event, Off, streamVars
  <2>4. \A k \in Machines : pane'[k] \in 0..2 /\ (k # m => pane'[k] = pane[k])
    BY <1>0, <2>1
  <2>6. StreamTypeOK'
    <3>1. pane' \in [Machines -> {Off, Active, Thinking}]
      BY <1>0, <2>1 DEF Off, Active, Thinking
    <3>2. page' \in {"dashboard", "album"}
      BY DEF StreamInv, StreamTypeOK
    <3>3. excused' \subseteq 0..N
      BY <1>0, <2>1 DEF Machines
    <3> QED BY <1>0, <2>1, <3>1, <3>2, <3>3 DEF StreamTypeOK, Announcement
  <2>8. Counted'
    <3>1. \A k \in Machines : pane'[k] <= events' + 1 /\ rev'[k] <= events'
      BY <1>0, <2>1, <2>4
    <3>2. status' = "me" => 0..N \subseteq excused'
      BY <2>1 DEF StreamInv, Counted
    <3>3. IsFiniteSet(fetches') /\ \A f \in fetches' : f.kind = "me" <=> status' = "me"
      BY <2>1 DEF StreamInv, Counted
    <3> QED BY <1>0, <2>1, <3>1, <3>2, <3>3 DEF Counted
  <2>9. Heard'
    BY <2>1 DEF StreamInv, Heard, NeverBlind
  <2>11. Spread
    <3>1. \A k \in Machines : rev'[k] >= rev[k]
      BY <1>0, <2>1
    <3>2. 0 \notin excused' => Alerted' \/ (0 \notin excused /\ ~Alerted /\ attn' = attn)
      BY <2>1 DEF Alerted
    <3>3. ASSUME NEW k \in Machines, k \notin excused'
          PROVE  Told(k)' \/ ( /\ k \notin excused /\ ~Told(k)
                               /\ rev'[k] = rev[k] /\ pane'[k] = pane[k] /\ (k \in there' <=> k \in there))
      BY <2>1, <2>4, <3>3 DEF Told
    <3> QED BY <1>0, <2>1, <3>1, <3>2, <3>3 DEF Spread
  <2> QED BY <2>6, <2>8, <2>9, <2>11 DEF StreamInv
<1>4. CASE OtherCloses \/ Connect \/ Open
  <2>1. UNCHANGED <<rev, there, pane, attn, wire, excused, status, fetches>>
    BY <1>4 DEF OtherCloses, Connect, Open, streamVars, serverVars, pageVars
  <2>2. events' \in Nat /\ events' <= MaxEvents /\ (events' = events \/ events' = events + 1)
    BY <1>0, <1>4 DEF OtherCloses, Connect, Open, Event
  <2>3. others' \in 0..MaxStreams
    BY <1>0, <1>4 DEF OtherCloses, Connect, Open, serverVars
  <2>4. /\ stream' \in {"off", "connecting", "subscribed", "open", "closed"}
        /\ fallback' \in BOOLEAN /\ tried' \in BOOLEAN
    BY <1>0, <1>4 DEF OtherCloses, Connect, Open, streamVars, Error, Opened
  <2>6. StreamTypeOK'
    <3>1. pane' \in [Machines -> {Off, Active, Thinking}] /\ page' \in {"dashboard", "album"}
      BY <2>1 DEF StreamInv, StreamTypeOK
    <3> QED BY <1>0, <2>1, <2>2, <2>3, <2>4, <3>1 DEF StreamTypeOK, Announcement
  <2>8. Counted'
    <3>1. \A k \in Machines : pane'[k] <= events' + 1 /\ rev'[k] <= events'
      BY <1>0, <2>1, <2>2 DEF StreamInv, Counted
    <3>2. status' = "me" => 0..N \subseteq excused'
      BY <2>1 DEF StreamInv, Counted
    <3>3. IsFiniteSet(fetches') /\ \A f \in fetches' : f.kind = "me" <=> status' = "me"
      BY <2>1 DEF StreamInv, Counted
    <3> QED BY <1>0, <2>1, <2>2, <3>1, <3>2, <3>3 DEF Counted
  <2>9. Heard'
    BY <1>4, <2>1 DEF StreamInv, Heard, NeverBlind, OtherCloses, Connect, Open, streamVars, Error, Opened
  <2>11. Spread
    <3>1. \A k \in Machines : rev'[k] >= rev[k]
      BY <1>0, <2>1
    <3>2. 0 \notin excused' => Alerted' \/ (0 \notin excused /\ ~Alerted /\ attn' = attn)
      BY <2>1 DEF Alerted
    <3>3. ASSUME NEW k \in Machines, k \notin excused'
          PROVE  Told(k)' \/ ( /\ k \notin excused /\ ~Told(k)
                               /\ rev'[k] = rev[k] /\ pane'[k] = pane[k] /\ (k \in there' <=> k \in there))
      BY <2>1, <3>3 DEF Told
    <3> QED BY <1>0, <2>1, <2>2, <3>1, <3>2, <3>3 DEF Spread
  <2> QED BY <2>6, <2>8, <2>9, <2>11 DEF StreamInv
<1>5. ASSUME NEW lingers \in BOOLEAN, Lose(lingers) PROVE StreamInv' /\ Spread
  <2> DEFINE gone == {wire[i].m : i \in 1..Len(wire)} \cup {0 : i \in {j \in 1..Len(wire) : wire[j].event = "attention.update"}}
  <2>1. /\ events' = events + 1 /\ events < MaxEvents /\ stream \in {"connecting", "subscribed", "open"}
        /\ stream' = "connecting" /\ wire' = <<>> /\ fallback' = TRUE /\ tried' = TRUE
        /\ excused' = excused \cup gone
        /\ UNCHANGED <<rev, there, pane, attn, status, fetches>>
    BY <1>5 DEF Lose, Event, Error
  <2>2. DOMAIN wire = 1..Len(wire) /\ Len(wire) \in Nat /\ \A i \in 1..Len(wire) : wire[i].m \in Machines
    <3>1. DOMAIN wire = 1..Len(wire) /\ Len(wire) \in Nat /\ \A i \in 1..Len(wire) : wire[i] \in Announcement
      BY <1>0
    <3> QED BY <3>1 DEF Announcement
  <2>3. others' \in 0..MaxStreams
    BY <1>0, <1>5 DEF Lose
  <2>4. gone \subseteq 0..N
    BY <1>0, <2>2 DEF Machines
  <2>5. wire' \in Seq(Announcement) /\ Len(wire') <= MaxWire
    BY <1>0, <2>1
  <2>6. StreamTypeOK'
    <3>1. pane' \in [Machines -> {Off, Active, Thinking}] /\ page' \in {"dashboard", "album"}
      BY <2>1 DEF StreamInv, StreamTypeOK
    <3>2. excused' \subseteq 0..N
      BY <1>0, <2>1, <2>4
    <3>3. events' \in 0..MaxEvents /\ stream' = "connecting" /\ fallback' \in BOOLEAN /\ tried' \in BOOLEAN
      BY <1>0, <2>1
    <3>4. UNCHANGED <<rev, there, pane, attn, status, fetches>>
      BY <2>1
    <3>5. attn' \in 0..MaxEvents
      BY <1>0, <3>4
    <3> QED BY <1>0, <2>3, <2>5, <3>1, <3>2, <3>3, <3>4, <3>5 DEF StreamTypeOK, Announcement
  <2>8. Counted'
    <3>1. \A k \in Machines : pane'[k] <= events' + 1 /\ rev'[k] <= events'
      BY <1>0, <2>1
    <3>2. status' = "me" => 0..N \subseteq excused'
      BY <2>1 DEF StreamInv, Counted
    <3>3. IsFiniteSet(fetches') /\ \A f \in fetches' : f.kind = "me" <=> status' = "me"
      BY <2>1 DEF StreamInv, Counted
    <3> QED BY <1>0, <2>1, <3>1, <3>2, <3>3 DEF Counted
  <2>9. Heard'
    BY <2>1 DEF StreamInv, Heard, NeverBlind
  <2>11. Spread
    <3>1. \A k \in Machines : rev'[k] >= rev[k]
      BY <1>0, <2>1
    <3>2. 0 \notin excused' => (0 \notin excused /\ ~Alerted /\ attn' = attn)
      BY <2>1, <2>2 DEF Alerted
    <3>3. ASSUME NEW k \in Machines, k \notin excused'
          PROVE  /\ k \notin excused /\ ~Told(k)
                 /\ rev'[k] = rev[k] /\ pane'[k] = pane[k] /\ (k \in there' <=> k \in there)
      BY <2>1, <2>2, <3>3 DEF Told
    <3> QED BY <1>0, <2>1, <3>1, <3>2, <3>3 DEF Spread
  <2> QED BY <2>6, <2>8, <2>9, <2>11 DEF StreamInv
<1> QED BY <1>1, <1>2, <1>3, <1>4, <1>5 DEF ServerNext

(***************************************************************************)
(* The dashboard.                                                          *)
(***************************************************************************)
(* An answer is never newer than what there is.                             *)
Past ==
    /\ \A f \in fetches, m \in Machines : f.kind \in {"list", "detail"} => f.answer[m] <= rev[m] + 1
    /\ \A f \in fetches : f.kind = "attn" => f.answer[1] <= attn
    /\ \A m \in Machines : details[m] <= rev[m] + 1
    /\ feed <= attn
    /\ \A f \in fetches : f.kind = "detail" => f.m \in Machines

(* For what the page can be up to date with: it is, or what it takes is on   *)
(* the wire, in a request or in an answer.                                  *)
ListComes(m) == \E f \in fetches : f.kind = "list" /\ (~f.done \/ f.answer[m] # 0)
DetailComes(m) == \E f \in fetches : f.kind = "detail" /\ f.m = m /\ (~f.done \/ f.answer[m] = Of(m))
AttentionsCome == \E f \in fetches : f.kind = "attn" /\ (~f.done \/ f.answer[1] = attn)
Listed(m) == m \in Known \/ Told(m) \/ ListComes(m)
Detailed(m) == details[m] = Of(m) \/ Told(m) \/ ListComes(m) \/ DetailComes(m)
Heeded == feed = attn \/ Alerted \/ AttentionsCome

DashInv ==
    /\ StreamInv /\ cards \in Snapshots /\ details \in Snapshots /\ feed \in Nat
    /\ Past
    /\ \A m \in there \ excused : Listed(m) /\ Detailed(m)
    /\ 0 \notin excused => Heeded

LEMMA Answers ==
    ASSUME StreamInv, NEW f \in fetches, Handle(f), UNCHANGED page
    PROVE  /\ StreamInv'
           /\ UNCHANGED <<rev, there, pane, attn, others, stream, wire, fallback, tried, status, excused, events>>
           /\ \E g \in Fetch :
                /\ fetches' = (fetches \ {f}) \cup {g}
                /\ g.kind = f.kind /\ g.m = f.m /\ g.done
                /\ f.kind = "roster" => g.at = events
                /\ f.kind = "attn" => g.answer[1] = attn
                /\ \A m \in Machines : /\ f.kind = "list" => g.answer[m] = Of(m)
                                       /\ f.kind = "detail" => g.answer[m] = IF m = f.m THEN Of(m) ELSE 0
                                       /\ f.kind = "roster" => g.answer[m] = pane[m]
<1>0. /\ rev \in Snapshots /\ attn \in Nat /\ attn <= MaxEvents /\ pane \in [Machines -> 0..2]
      /\ events \in Nat /\ events <= MaxEvents /\ fetches \subseteq Fetch
      /\ N \in Nat /\ N > 0 /\ MaxEvents \in Nat /\ \A m \in Machines : rev[m] \in Nat /\ rev[m] <= events
  BY Typed
<1> DEFINE tells(m) == CASE f.kind = "list" -> Of(m)
                       [] f.kind = "detail" -> IF m = f.m THEN Of(m) ELSE 0
                       [] f.kind = "attn" -> attn
                       [] f.kind = "roster" -> pane[m]
                       [] OTHER -> 0
           answer == [m \in Machines |-> tells(m)]
           g == [f EXCEPT !.done = TRUE, !.at = IF f.kind = "roster" THEN events ELSE 0, !.answer = answer]
<1>1. fetches' = (fetches \ {f}) \cup {g}
  BY DEF Handle
<1>2. UNCHANGED <<rev, there, pane, attn, others, stream, wire, fallback, tried, status, excused, events>>
  BY DEF Handle, serverVars, streamVars, pageVars
<1>3. \A m \in Machines : Of(m) \in 0..(MaxEvents + 1)
  BY <1>0 DEF Of
<1>4. \A m \in Machines : pane[m] \in 0..(MaxEvents + 1)
  <2> TAKE m \in Machines
  <2>1. pane[m] <= events + 1 /\ pane[m] \in 0..2
    BY <1>0 DEF StreamInv, Counted
  <2> QED BY <1>0, <2>1
<1>5. \A m \in Machines : tells(m) \in 0..(MaxEvents + 1)
  BY <1>0, <1>3, <1>4
<1>6. PICK a \in Snapshots : a = answer
  <2>1. answer \in Snapshots
    BY <1>5 DEF Snapshots
  <2> QED BY <2>1
<1>7. \A m \in Machines : a[m] = tells(m)
  BY <1>6
<1>8. PICK t \in 0..MaxEvents : t = (IF f.kind = "roster" THEN events ELSE 0)
  BY <1>0
<1>9. PICK h : h = [f EXCEPT !.done = TRUE, !.at = t, !.answer = a]
  OBVIOUS
<1>10. /\ h \in Fetch /\ h.kind = f.kind /\ h.m = f.m /\ h.done = TRUE /\ h.at = t /\ h.answer = a
  <2>1. f \in Fetch
    BY <1>0
  <2> QED BY <1>9, <2>1 DEF Fetch
<1>11. g = h
  BY <1>6, <1>8, <1>9
<1>12. fetches' = (fetches \ {f}) \cup {h} /\ h.kind = f.kind /\ h.m = f.m /\ h.done
  BY <1>1, <1>10, <1>11
<1>13. 1 \in Machines
  BY <1>0 DEF Machines
<1>14. /\ f.kind = "roster" => h.at = events
       /\ f.kind = "attn" => h.answer[1] = attn
       /\ \A m \in Machines : /\ f.kind = "list" => h.answer[m] = Of(m)
                              /\ f.kind = "detail" => h.answer[m] = IF m = f.m THEN Of(m) ELSE 0
                              /\ f.kind = "roster" => h.answer[m] = pane[m]
  BY <1>7, <1>8, <1>10, <1>13
<1>15. StreamInv'
  <2>1. fetches' \subseteq Fetch
    BY <1>0, <1>10, <1>12
  <2>2. IsFiniteSet(fetches')
    BY <1>12, FS_RemoveElement, FS_AddElement DEF StreamInv, Counted
  <2>3. \A k \in fetches' : k.kind = "me" <=> status' = "me"
    BY <1>2, <1>12 DEF StreamInv, Counted
  <2>4. StreamTypeOK'
    BY <1>2, <2>1 DEF StreamInv, StreamTypeOK
  <2>5. Counted'
    BY <1>2, <2>2, <2>3 DEF StreamInv, Counted
  <2>6. Heard'
    BY <1>2 DEF StreamInv, Heard, NeverBlind
  <2> QED BY <2>4, <2>5, <2>6 DEF StreamInv
<1> QED BY <1>2, <1>10, <1>12, <1>14, <1>15

(* What a page does changes nothing in the backend.                         *)
LEMMA PageStep ==
    ASSUME StreamInv, UNCHANGED <<page, rev, there, pane, attn, others>>,
           events' \in Nat, events' <= MaxEvents, events' >= events,
           fetches' \subseteq Fetch, IsFiniteSet(fetches'), \A f \in fetches' : f.kind = "me" <=> status' = "me",
           wire' \in Seq(Announcement), Len(wire') <= MaxWire, excused' \subseteq 0..N,
           status' \in {"loading", "anon", "not-pro", "ready"}, stream' \in {"off", "connecting", "subscribed", "open", "closed"},
           UNCHANGED <<fallback, tried>>, Heard'
    PROVE  StreamInv'
<1>0. /\ pane \in [Machines -> 0..2] /\ events \in Nat /\ \A m \in Machines : rev[m] \in Nat /\ rev[m] <= events
      /\ attn \in Nat /\ attn <= events /\ MaxEvents \in Nat
  BY Typed
<1>1. StreamTypeOK'
  <2>1. events' \in 0..MaxEvents
    BY <1>0
  <2> QED BY <2>1 DEF StreamInv, StreamTypeOK, Announcement
<1>2. Counted'
  <2>1. \A m \in Machines : rev'[m] <= events' /\ pane'[m] <= events' + 1
    BY <1>0 DEF StreamInv, Counted
  <2> QED BY <1>0, <2>1 DEF Counted
<1> QED BY <1>1, <1>2 DEF StreamInv

LEMMA SettleStep ==
    ASSUME StreamInv, status # "me", NEW rest, Settle(rest)
    PROVE  /\ Heard' /\ status' \in {"loading", "anon", "not-pro", "ready"}
           /\ stream' \in {"off", "connecting", "subscribed", "open", "closed"}
           /\ UNCHANGED <<wire, fallback, tried>>
BY DEF StreamInv, StreamTypeOK, Heard, NeverBlind, Settle, Settled

(* The first event is handled.                                              *)
LEMMA Popped ==
    ASSUME StreamInv, wire # <<>>, wire' = Tail(wire)
    PROVE  /\ wire[1] \in Announcement /\ wire' \in Seq(Announcement) /\ Len(wire') <= MaxWire
           /\ \A m : Told(m) => Told(m)' \/ (wire[1].event = "machine.update" /\ wire[1].m = m)
           /\ Alerted => Alerted' \/ wire[1].event = "attention.update"
<1>1. wire \in Seq(Announcement) /\ Len(wire) <= MaxWire /\ MaxWire \in Nat
  BY Typed
<1>2. PICK r \in Seq(Announcement) : r = Tail(wire)
  <2>1. Tail(wire) \in Seq(Announcement)
    BY <1>1
  <2> QED BY <2>1
<1>3. /\ Len(wire) \in Nat /\ Len(wire) >= 1 /\ Len(r) = Len(wire) - 1
      /\ DOMAIN wire = 1..Len(wire) /\ DOMAIN r = 1..(Len(wire) - 1)
      /\ \A i \in 1..(Len(wire) - 1) : r[i] = wire[i + 1]
  BY <1>1, <1>2
<1>4. \A i \in DOMAIN wire : i = 1 \/ (i - 1 \in DOMAIN r /\ r[i - 1] = wire[i])
  <2> TAKE i \in DOMAIN wire
  <2>1. CASE i # 1
    <3>1. PICK k \in 1..(Len(wire) - 1) : k = i - 1 /\ k + 1 = i
      BY <1>3, <2>1
    <3> QED BY <1>3, <3>1
  <2> QED BY <2>1
<1>5. wire[1] \in Announcement
  BY <1>1, <1>3
<1>6. \A m : Told(m) => Told(m)' \/ (wire[1].event = "machine.update" /\ wire[1].m = m)
  BY <1>2, <1>4 DEF Told
<1>7. Alerted => Alerted' \/ wire[1].event = "attention.update"
  BY <1>2, <1>4 DEF Alerted
<1> QED BY <1>1, <1>2, <1>3, <1>5, <1>6, <1>7

(* A request more, and an event less at most: nothing that is to come is lost. *)
LEMMA StillComes ==
    ASSUME DashInv, StreamInv',
           UNCHANGED <<rev, there, attn, cards, details, feed>>, excused \subseteq excused',
           NEW whats, fetches \subseteq fetches',
           \A f \in fetches' : f \in fetches \/ (f.answer = NoAnswer /\ (f.kind = "detail" => f.m \in Machines)),
           \A w \in whats : \E f \in fetches' : f.kind = w[1] /\ f.m = w[2] /\ ~f.done,
           \A m \in Machines : Told(m) => Told(m)' \/ <<"list", 0>> \in whats \/ (m \in Known /\ <<"detail", m>> \in whats),
           Alerted => Alerted' \/ <<"attn", 0>> \in whats
    PROVE  DashInv'
<1>1. Past'
  <2>1. \A f \in fetches', m \in Machines : f.kind \in {"list", "detail"} => f.answer[m] <= rev'[m] + 1
    <3> TAKE f \in fetches', m \in Machines
    <3>1. rev[m] \in Nat
      BY Typed DEF DashInv
    <3>2. CASE f \in fetches
      BY <3>2 DEF DashInv, Past
    <3>3. CASE f.answer = NoAnswer
      BY <3>1, <3>3 DEF NoAnswer
    <3> QED BY <3>2, <3>3
  <2>2. \A f \in fetches' : f.kind = "attn" => f.answer[1] <= attn'
    <3> TAKE f \in fetches'
    <3>1. attn \in Nat /\ 1 \in Machines
      BY Typed DEF DashInv, Machines
    <3>2. CASE f \in fetches
      BY <3>2 DEF DashInv, Past
    <3>3. CASE f.answer = NoAnswer
      BY <3>1, <3>3 DEF NoAnswer
    <3> QED BY <3>2, <3>3
  <2> QED BY <2>1, <2>2 DEF DashInv, Past
<1>2. \A m : m \in Known' <=> m \in Known
  BY DEF Known
<1>3. \A m : Of(m)' = Of(m)
  BY DEF Of
<1>4. ASSUME NEW m \in there' \ excused' PROVE Listed(m)' /\ Detailed(m)'
  <2>1. m \in Machines /\ m \in there \ excused
    BY <1>4, Typed DEF DashInv
  <2>2. Listed(m) /\ Detailed(m)
    BY <2>1 DEF DashInv
  <2>3. ListComes(m) => ListComes(m)'
    BY DEF ListComes
  <2>4. DetailComes(m) => DetailComes(m)'
    BY <1>3 DEF DetailComes
  <2>5. <<"list", 0>> \in whats => ListComes(m)'
    BY DEF ListComes
  <2>6. <<"detail", m>> \in whats => DetailComes(m)'
    BY DEF DetailComes
  <2>7. Told(m) => Told(m)' \/ ListComes(m)' \/ (m \in Known /\ DetailComes(m)')
    BY <2>1, <2>5, <2>6
  <2>8. Listed(m)'
    BY <1>2, <2>2, <2>3, <2>7 DEF Listed
  <2>9. Detailed(m)'
    BY <1>3, <2>2, <2>3, <2>4, <2>7 DEF Detailed
  <2> QED BY <2>8, <2>9
<1>5. 0 \notin excused' => Heeded'
  <2>1. AttentionsCome => AttentionsCome'
    BY DEF AttentionsCome
  <2>2. <<"attn", 0>> \in whats => AttentionsCome'
    BY DEF AttentionsCome
  <2> QED BY <2>1, <2>2 DEF DashInv, Heeded
<1> QED BY <1>1, <1>4, <1>5 DEF DashInv

LEMMA DashStep ==
    ASSUME DashInv, DashNext, UNCHANGED page
    PROVE  DashInv'
<1>0. /\ StreamInv /\ rev \in Snapshots /\ there \subseteq Machines /\ attn \in Nat
      /\ events \in Nat /\ events <= MaxEvents
      /\ stream \in {"off", "connecting", "subscribed", "open", "closed"}
      /\ wire \in Seq(Announcement) /\ Len(wire) <= MaxWire /\ fetches \subseteq Fetch
      /\ status \in {"me", "loading", "anon", "not-pro", "ready"} /\ excused \subseteq 0..N
      /\ N \in Nat /\ N > 0 /\ MaxEvents \in Nat /\ \A m \in Machines : rev[m] \in Nat
  BY Typed DEF DashInv
<1>00. IsFiniteSet(fetches)
  BY <1>0 DEF StreamInv, Counted
<1>01. \A f \in fetches : f.kind = "me" <=> status = "me"
  BY <1>0 DEF StreamInv, Counted
<1>1. CASE ServerNext({Active}) /\ UNCHANGED dashVars
  <2>1. {Active} \subseteq 0..2
    BY DEF Active
  <2>2. StreamInv' /\ Spread
    BY <1>0, <1>1, <2>1, ServerStep
  <2>3. UNCHANGED <<cards, details, feed, fetches>>
    BY <1>1, <2>2 DEF dashVars, Spread
  <2>4. attn' \in Nat /\ attn' >= attn
    <3>1. attn' \in 0..MaxEvents
      BY <2>2 DEF StreamInv, StreamTypeOK
    <3> QED BY <1>0, <2>2, <3>1 DEF Spread
  <2>5. rev' \in Snapshots /\ \A m \in Machines : rev'[m] \in Nat /\ rev'[m] >= rev[m]
    <3>1. rev' \in Snapshots
      BY <2>2 DEF StreamInv, StreamTypeOK
    <3> QED BY <1>0, <2>2, <3>1 DEF Spread, Snapshots
  <2>6. Past'
    <3>1. \A f \in fetches, m \in Machines : f.kind \in {"list", "detail"} => f.answer[m] <= rev'[m] + 1
      <4> TAKE f \in fetches, m \in Machines
      <4>1. f.answer[m] \in Nat
        BY <1>0 DEF Fetch, Snapshots
      <4>2. f.kind \in {"list", "detail"} => f.answer[m] <= rev[m] + 1
        BY DEF DashInv, Past
      <4> QED BY <1>0, <2>5, <4>1, <4>2
    <3>2. \A f \in fetches : f.kind = "attn" => f.answer[1] <= attn'
      <4> TAKE f \in fetches
      <4>1. f.answer[1] \in Nat
        BY <1>0 DEF Fetch, Snapshots, Machines
      <4>2. f.kind = "attn" => f.answer[1] <= attn
        BY DEF DashInv, Past
      <4> QED BY <1>0, <2>4, <4>1, <4>2
    <3>3. \A m \in Machines : details[m] <= rev'[m] + 1
      <4> TAKE m \in Machines
      <4>1. details[m] \in Nat /\ details[m] <= rev[m] + 1
        BY <1>0 DEF DashInv, Past, Snapshots
      <4> QED BY <1>0, <2>5, <4>1
    <3>4. feed <= attn'
      BY <1>0, <2>4 DEF DashInv, Past
    <3>5. \A f \in fetches : f.kind = "detail" => f.m \in Machines
      BY DEF DashInv, Past
    <3> QED BY <2>3, <3>1, <3>2, <3>3, <3>4, <3>5 DEF Past
  <2>7. ASSUME NEW m \in there' \ excused' PROVE Listed(m)' /\ Detailed(m)'
    <3>1. m \in Machines
      BY <2>2, <2>7 DEF StreamInv, StreamTypeOK
    <3>2. CASE Told(m)'
      BY <3>2 DEF Listed, Detailed
    <3>3. CASE /\ m \notin excused /\ ~Told(m) /\ rev'[m] = rev[m] /\ (m \in there' <=> m \in there)
      <4>1. Listed(m) /\ Detailed(m) /\ Of(m)' = Of(m)
        BY <2>7, <3>3 DEF DashInv, Of
      <4>2. /\ m \in Known => m \in Known'
            /\ ListComes(m) => ListComes(m)'
            /\ DetailComes(m) => DetailComes(m)'
        BY <2>3, <4>1 DEF Known, ListComes, DetailComes
      <4> QED BY <2>3, <3>3, <4>1, <4>2 DEF Listed, Detailed
    <3> QED BY <2>2, <2>7, <3>1, <3>2, <3>3 DEF Spread
  <2>8. ASSUME 0 \notin excused' PROVE Heeded'
    <3>1. CASE Alerted'
      BY <3>1 DEF Heeded
    <3>2. CASE 0 \notin excused /\ ~Alerted /\ attn' = attn
      BY <2>3, <3>2 DEF DashInv, Heeded, AttentionsCome
    <3> QED BY <2>2, <2>8, <3>1, <3>2 DEF Spread
  <2> QED BY <2>2, <2>3, <2>6, <2>7, <2>8 DEF DashInv
<1>2. ASSUME NEW f \in fetches, Handle(f), UNCHANGED dashVars PROVE DashInv'
  <2>1. /\ StreamInv'
        /\ UNCHANGED <<rev, there, pane, attn, others, stream, wire, fallback, tried, status, excused, events>>
    BY <1>0, <1>2, Answers
  <2>2. PICK g \in Fetch :
           /\ fetches' = (fetches \ {f}) \cup {g}
           /\ g.kind = f.kind /\ g.m = f.m /\ g.done
           /\ f.kind = "attn" => g.answer[1] = attn
           /\ \A m \in Machines : /\ f.kind = "list" => g.answer[m] = Of(m)
                                  /\ f.kind = "detail" => g.answer[m] = IF m = f.m THEN Of(m) ELSE 0
    BY <1>0, <1>2, Answers
  <2>3. UNCHANGED <<cards, details, feed>>
    BY <1>2 DEF dashVars
  <2>4. \A m \in Machines : Of(m) \in Nat /\ Of(m) <= rev[m] + 1 /\ (m \in there => Of(m) # 0) /\ Of(m)' = Of(m)
    BY <1>0, <2>1 DEF Of
  <2>5. Past'
    <3>1. \A m \in Machines : g.kind \in {"list", "detail"} => g.answer[m] <= rev[m] + 1
      BY <1>0, <2>2, <2>4
    <3>2. g.kind = "attn" => g.answer[1] <= attn
      BY <1>0, <2>2
    <3>3. \A k \in fetches' : k \in fetches \/ k = g
      BY <2>2
    <3>4. \A k \in fetches', m \in Machines : k.kind \in {"list", "detail"} => k.answer[m] <= rev'[m] + 1
      BY <2>1, <3>1, <3>3 DEF DashInv, Past
    <3>5. \A k \in fetches' : k.kind = "attn" => k.answer[1] <= attn'
      BY <2>1, <3>2, <3>3 DEF DashInv, Past
    <3>6. \A k \in fetches' : k.kind = "detail" => k.m \in Machines
      BY <2>2, <3>3 DEF DashInv, Past
    <3> QED BY <2>1, <2>3, <3>4, <3>5, <3>6 DEF DashInv, Past
  <2>6. \A k \in fetches : k.done => k \in fetches'
    BY <1>2, <2>2 DEF Handle
  <2>7. \A k \in fetches : k \in fetches' \/ k = f
    BY <2>2
  <2>8. ASSUME NEW m \in there' \ excused' PROVE Listed(m)' /\ Detailed(m)'
    <3>1. m \in Machines /\ m \in there /\ m \notin excused
      BY <1>0, <2>1, <2>8
    <3>2. Listed(m) /\ Detailed(m)
      BY <3>1 DEF DashInv
    <3>3. ListComes(m) => ListComes(m)'
      BY <2>2, <2>4, <2>7, <3>1 DEF ListComes
    <3>4. DetailComes(m) => DetailComes(m)'
      BY <2>2, <2>4, <2>7, <3>1 DEF DetailComes
    <3>5. (m \in Known => m \in Known') /\ (Told(m) => Told(m)')
      BY <2>1, <2>3 DEF Known, Told
    <3> QED BY <2>3, <2>4, <3>1, <3>2, <3>3, <3>4, <3>5 DEF Listed, Detailed
  <2>9. 0 \notin excused' => Heeded'
    <3>1. AttentionsCome => AttentionsCome'
      BY <2>1, <2>2, <2>7 DEF AttentionsCome
    <3> QED BY <2>1, <2>3, <3>1 DEF DashInv, Heeded, Alerted
  <2> QED BY <2>1, <2>3, <2>5, <2>8, <2>9 DEF DashInv
<1>3. ASSUME NEW f \in fetches, NEW ok \in BOOLEAN, MeArrives(f, ok) PROVE DashInv'
  <2>1. status = "me" /\ 0..N \subseteq excused /\ stream = "off" /\ tried = FALSE
    BY <1>0, <1>01, <1>3 DEF MeArrives, StreamInv, Counted, Heard, StreamTypeOK
  <2>2. UNCHANGED <<rev, there, pane, attn, others, wire, fallback, tried, cards, details, feed, excused, events>>
    BY <1>3 DEF MeArrives, serverVars
  <2>3. CanSend("list", 0)
    <3>1. {f2 \in fetches : f2.kind = "list" /\ f2.m = 0} = {}
      BY <1>01, <2>1
    <3>2. MaxFetches \in Nat /\ MaxFetches > 0
      BY StreamAssumption
    <3> QED BY <3>1, <3>2, FS_EmptySet DEF CanSend
  <2>4. "list" \in Kind /\ 0 \in 0..N
    BY <1>0 DEF Kind
  <2>5. PICK k \in Fetch : k = New("list", 0) /\ k.kind = "list" /\ ~k.done /\ k.answer = NoAnswer
    BY <1>0, <1>00, <2>3, <2>4, NewTyped DEF StreamInv
  <2>6. fetches' = {k} \/ fetches' = {}
    BY <1>3, <2>5 DEF MeArrives
  <2>7. status' \in {"loading", "anon", "not-pro", "ready"} /\ (status' = "ready" => stream' = "connecting")
        /\ (status' # "ready" => stream' = "off")
    BY <1>3, <2>1 DEF MeArrives
  <2>8. Heard'
    BY <2>1, <2>2, <2>7 DEF Heard, NeverBlind
  <2>9. StreamInv'
    <3>1. IsFiniteSet(fetches') /\ fetches' \subseteq Fetch /\ \A f2 \in fetches' : f2.kind = "list"
      <4>1. CASE fetches' = {k}
        BY <2>5, <4>1, FS_Singleton
      <4>2. CASE fetches' = {}
        BY <4>2, FS_EmptySet
      <4> QED BY <2>6, <4>1, <4>2
    <3>2. \A f2 \in fetches' : f2.kind = "me" <=> status' = "me"
      BY <2>7, <3>1
    <3> QED BY <1>0, <2>2, <2>7, <2>8, <3>1, <3>2, PageStep
  <2>10. Past'
    <3>1. \A m \in Machines : k.answer[m] = 0
      BY <2>5 DEF NoAnswer
    <3>2. \A f2 \in fetches' : f2 = k
      BY <2>6
    <3> QED BY <1>0, <2>2, <2>5, <3>1, <3>2 DEF DashInv, Past
  <2>11. 0 \in excused' /\ \A m \in there' : m \in excused'
    BY <1>0, <2>1, <2>2 DEF Machines
  <2> QED BY <2>2, <2>9, <2>10, <2>11 DEF DashInv
<1>4. ASSUME NEW f \in fetches, ListArrives(f) PROVE DashInv'
  <2> DEFINE shown == {k \in Machines : f.answer[k] # 0}
             whats == {<<"detail", m>> : m \in shown} \cup {<<"attn", 0>>}
             rest == fetches \ {f}
  <2>1. /\ f.kind = "list" /\ f.done /\ MaySend(whats) /\ cards' = f.answer
        /\ excused' = excused \cup {m \in Machines : f.answer[m] = 0 /\ (cards[m] # 0 \/ details[m] # 0)}
        /\ fetches' = SendAll(rest, whats)
        /\ UNCHANGED <<rev, there, pane, attn, others, stream, wire, fallback, tried, status, details, feed, events>>
    BY <1>4 DEF ListArrives, serverVars, streamVars
  <2>2. whats \subseteq Kind \X (0..N)
    BY <1>0 DEF Kind, Machines
  <2>3. IsFiniteSet(whats)
    <3> DEFINE ws == {<<"detail", m>> : m \in shown}
               h == [m \in shown |-> <<"detail", m>>]
    <3>1. IsFiniteSet(Machines)
      BY <1>0, FS_Interval DEF Machines
    <3>2. IsFiniteSet(shown)
      BY <3>1, FS_Subset
    <3>3. h \in Surjection(shown, ws)
      <4>1. h \in [shown -> ws]
        OBVIOUS
      <4>2. \A t \in ws : \E m \in shown : h[m] = t
        OBVIOUS
      <4> QED BY <4>1, <4>2 DEF Surjection
    <3>4. IsFiniteSet(ws)
      BY <3>2, <3>3, FS_Surjection
    <3>5. whats = ws \cup {<<"attn", 0>>}
      OBVIOUS
    <3> HIDE DEF ws
    <3> QED BY <3>4, <3>5, FS_AddElement
  <2>4. rest \subseteq fetches
    OBVIOUS
  <2>5. \A m \in shown : <<"detail", m>> \in whats
    OBVIOUS
  <2>6. <<"attn", 0>> \in whats
    OBVIOUS
  <2>60. \A w \in whats : w[1] # "me" /\ w[1] # "list" /\ (w[1] = "detail" => w[2] \in Machines)
    OBVIOUS
  <2> HIDE DEF whats, rest
  <2>7. /\ SendAll(rest, whats) \subseteq Fetch /\ IsFiniteSet(SendAll(rest, whats))
        /\ rest \subseteq SendAll(rest, whats)
        /\ \A k \in SendAll(rest, whats) : k \in rest \/
             (\E w \in whats : k.kind = w[1] /\ k.m = w[2] /\ ~k.done /\ k.answer = NoAnswer /\ k.at = 0)
        /\ \A w \in whats : \E k \in SendAll(rest, whats) : k.kind = w[1] /\ k.m = w[2] /\ ~k.done
    BY <1>0, <1>00, <2>1, <2>2, <2>3, <2>4, SendsTyped DEF StreamInv
  <2>8. /\ fetches' \subseteq Fetch /\ IsFiniteSet(fetches') /\ rest \subseteq fetches'
        /\ \A k \in fetches' : k \in fetches \/
             (k.kind # "me" /\ k.answer = NoAnswer /\ (k.kind = "detail" => k.m \in Machines))
        /\ \A m \in shown : \E k \in fetches' : k.kind = "detail" /\ k.m = m /\ ~k.done
    <3>1. \A k \in fetches' : k \in fetches \/
             (k.kind # "me" /\ k.answer = NoAnswer /\ (k.kind = "detail" => k.m \in Machines))
      <4> TAKE k \in fetches'
      <4>1. CASE k \in rest
        BY <2>4, <4>1
      <4>2. ASSUME NEW w \in whats, k.kind = w[1], k.m = w[2], k.answer = NoAnswer
            PROVE  k.kind # "me" /\ k.answer = NoAnswer /\ (k.kind = "detail" => k.m \in Machines)
        BY <2>60, <4>2
      <4> QED BY <2>1, <2>7, <4>1, <4>2
    <3>2. \A m \in shown : \E k \in fetches' : k.kind = "detail" /\ k.m = m /\ ~k.done
      <4> TAKE m \in shown
      <4>1. PICK w \in whats : w = <<"detail", m>>
        BY <2>5
      <4> QED BY <2>1, <2>7, <4>1
    <3> QED BY <2>1, <2>7, <3>1, <3>2
  <2>9. status # "me"
    BY <1>01, <2>1
  <2>10. StreamInv'
    <3>1. Heard'
      BY <1>0, <2>1 DEF StreamInv, Heard, NeverBlind
    <3>2. excused' \subseteq 0..N
      <4>1. {m \in Machines : f.answer[m] = 0 /\ (cards[m] # 0 \/ details[m] # 0)} \subseteq 0..N
        BY <1>0 DEF Machines
      <4> QED BY <1>0, <2>1, <4>1
    <3>3. \A k \in fetches' : k.kind = "me" <=> status' = "me"
      BY <1>01, <2>1, <2>8, <2>9
    <3> QED BY <1>0, <2>1, <2>8, <2>9, <3>1, <3>2, <3>3, PageStep
  <2>11. Past'
    <3>1. \A m \in Machines : NoAnswer[m] = 0
      BY DEF NoAnswer
    <3>2. 1 \in Machines
      BY <1>0 DEF Machines
    <3>3. \A k \in fetches', m \in Machines : k.kind \in {"list", "detail"} => k.answer[m] <= rev'[m] + 1
      BY <1>0, <2>1, <2>8, <3>1 DEF DashInv, Past
    <3>4. \A k \in fetches' : k.kind = "attn" => k.answer[1] <= attn'
      BY <1>0, <2>1, <2>8, <3>1, <3>2 DEF DashInv, Past
    <3>5. \A k \in fetches' : k.kind = "detail" => k.m \in Machines
      BY <2>8 DEF DashInv, Past
    <3> QED BY <2>1, <3>3, <3>4, <3>5 DEF DashInv, Past
  <2>12. \A k \in fetches : k \in fetches' \/ k = f
    BY <2>8 DEF rest
  <2>13. f.answer \in Snapshots
    BY <1>0 DEF Fetch
  <2>14. ASSUME NEW m \in there' \ excused' PROVE Listed(m)' /\ Detailed(m)'
    <3>1. m \in Machines /\ m \in there /\ m \notin excused
      BY <1>0, <2>1, <2>14
    <3>2. Listed(m) /\ Detailed(m)
      BY <3>1 DEF DashInv
    <3>3. f.answer[m] # 0 => m \in Known' /\ DetailComes(m)'
      BY <2>1, <2>8, <3>1 DEF Known, DetailComes
    <3>4. m \in Known => m \in Known'
      BY <2>1, <2>14, <3>1 DEF Known
    <3>5. ListComes(m) => ListComes(m)' \/ f.answer[m] # 0
      BY <2>1, <2>12 DEF ListComes
    <3>6. DetailComes(m) => DetailComes(m)'
      <4>1. Of(m)' = Of(m)
        BY <2>1 DEF Of
      <4> QED BY <2>1, <2>12, <4>1 DEF DetailComes
    <3>7. Told(m) => Told(m)'
      BY <2>1 DEF Told
    <3>8. details[m] = Of(m) => details'[m] = Of(m)'
      BY <2>1 DEF Of
    <3> QED BY <3>2, <3>3, <3>4, <3>5, <3>6, <3>7, <3>8 DEF Listed, Detailed
  <2>15. 0 \notin excused' => Heeded'
    <3>1. AttentionsCome => AttentionsCome'
      BY <2>1, <2>12 DEF AttentionsCome
    <3> QED BY <2>1, <3>1 DEF DashInv, Heeded, Alerted
  <2> QED BY <2>1, <2>10, <2>11, <2>13, <2>14, <2>15 DEF DashInv
<1>5. ASSUME NEW f \in fetches, DetailArrives(f) PROVE DashInv'
  <2>1. /\ f.kind = "detail" /\ f.done /\ fetches' = fetches \ {f} /\ Settle(fetches \ {f})
        /\ details' = IF f.answer[f.m] = 0 THEN details ELSE [details EXCEPT ![f.m] = f.answer[f.m]]
        /\ excused' = IF f.answer[f.m] < details[f.m] \/ f.answer[f.m] = 0 THEN excused \cup {f.m}
                      ELSE IF f.answer[f.m] = Of(f.m) /\ f.m \in Known THEN excused \ {f.m} ELSE excused
        /\ UNCHANGED <<rev, there, pane, attn, others, cards, feed, events>>
    BY <1>5 DEF DetailArrives, serverVars
  <2>2. status # "me" /\ f.m \in Machines /\ f.answer \in Snapshots /\ f.answer[f.m] \in Nat /\ f.answer[f.m] <= rev[f.m] + 1
    <3>1. f.m \in Machines
      BY <2>1 DEF DashInv, Past
    <3>2. f.answer \in Snapshots
      BY <1>0 DEF Fetch
    <3>3. f.answer[f.m] \in Nat
      BY <3>1, <3>2 DEF Snapshots
    <3> QED BY <1>01, <2>1, <3>1, <3>2, <3>3 DEF DashInv, Past
  <2>3. /\ Heard' /\ status' \in {"loading", "anon", "not-pro", "ready"}
        /\ stream' \in {"off", "connecting", "subscribed", "open", "closed"}
        /\ UNCHANGED <<wire, fallback, tried>>
    BY <1>0, <2>1, <2>2, SettleStep
  <2>4. StreamInv'
    <3>1. excused' \subseteq 0..N
      <4>1. f.m \in 0..N /\ excused \subseteq 0..N
        BY <1>0, <2>2 DEF Machines
      <4>2. excused' = excused \cup {f.m} \/ excused' = excused \ {f.m} \/ excused' = excused
        BY <2>1
      <4> QED BY <4>1, <4>2
    <3>2. IsFiniteSet(fetches') /\ fetches' \subseteq Fetch
      BY <1>0, <1>00, <2>1, FS_RemoveElement
    <3>3. \A k \in fetches' : k.kind = "me" <=> status' = "me"
      BY <1>01, <2>1, <2>2, <2>3
    <3> QED BY <1>0, <2>1, <2>3, <3>1, <3>2, <3>3, PageStep
  <2>5. details \in Snapshots /\ details' \in Snapshots /\ \A m \in Machines : m # f.m => details'[m] = details[m]
    BY <2>1, <2>2 DEF DashInv, Snapshots
  <2>6. details'[f.m] = IF f.answer[f.m] = 0 THEN details[f.m] ELSE f.answer[f.m]
    BY <2>1, <2>2, <2>5 DEF Snapshots
  <2>7. Past'
    <3>1. \A m \in Machines : details'[m] <= rev'[m] + 1
      BY <2>1, <2>2, <2>5, <2>6 DEF DashInv, Past
    <3> QED BY <2>1, <3>1 DEF DashInv, Past
  <2>8. \A k \in fetches : k \in fetches' \/ k = f
    BY <2>1
  <2>9. \A m \in Machines : Of(m) = rev[m] + 1 \/ m \notin there
    BY DEF Of
  <2>10. \A m : Of(m)' = Of(m)
    BY <2>1 DEF Of
  <2>11. ASSUME NEW m \in there' \ excused' PROVE Listed(m)' /\ Detailed(m)'
    <3>1. m \in Machines /\ m \in there
      BY <1>0, <2>1, <2>11
    <3>2. ListComes(m) => ListComes(m)'
      BY <2>1, <2>8 DEF ListComes
    <3>3. DetailComes(m) => DetailComes(m)' \/ (f.m = m /\ f.answer[m] = Of(m))
      BY <2>1, <2>8, <2>10 DEF DetailComes
    <3>4. (Told(m) => Told(m)') /\ (m \in Known => m \in Known')
      BY <2>1, <2>3 DEF Told, Known
    <3>5. CASE f.m # m
      <4>1. m \notin excused
        BY <2>1, <2>11, <3>5
      <4>2. Listed(m) /\ Detailed(m)
        BY <3>1, <4>1 DEF DashInv
      <4> QED BY <2>5, <2>10, <3>1, <3>2, <3>3, <3>4, <3>5, <4>2 DEF Listed, Detailed
    <3>6. CASE f.m = m
      <4>1. details[m] \in Nat /\ ~(f.answer[m] < details[m]) /\ f.answer[m] # 0 /\ details'[m] = f.answer[m]
        BY <2>1, <2>5, <2>6, <2>11, <3>1, <3>6 DEF Snapshots
      <4>2. CASE f.answer[m] = Of(m) /\ m \in Known
        BY <2>10, <3>4, <4>1, <4>2 DEF Listed, Detailed
      <4>3. CASE ~(f.answer[m] = Of(m) /\ m \in Known)
        <5>1. m \notin excused
          BY <2>1, <2>11, <3>6, <4>1, <4>3
        <5>2. Listed(m) /\ Detailed(m)
          BY <3>1, <5>1 DEF DashInv
        <5>3. details[m] = Of(m) => f.answer[m] = Of(m)
          BY <1>0, <2>2, <2>9, <3>1, <3>6, <4>1
        <5> QED BY <2>10, <3>2, <3>3, <3>4, <4>1, <5>2, <5>3 DEF Listed, Detailed
      <4> QED BY <4>2, <4>3
    <3> QED BY <3>5, <3>6
  <2>12. 0 \notin excused' => Heeded'
    <3>1. 0 \notin excused' => 0 \notin excused
      BY <1>0, <2>1, <2>2 DEF Machines
    <3>2. AttentionsCome => AttentionsCome'
      BY <2>1, <2>8 DEF AttentionsCome
    <3> QED BY <2>1, <2>3, <3>1, <3>2 DEF DashInv, Heeded, Alerted
  <2> QED BY <2>1, <2>4, <2>5, <2>7, <2>11, <2>12 DEF DashInv
<1>6. ASSUME NEW f \in fetches, AttentionsArrive(f) PROVE DashInv'
  <2>1. /\ f.kind = "attn" /\ f.done /\ fetches' = fetches \ {f} /\ Settle(fetches \ {f})
        /\ feed' = f.answer[1]
        /\ excused' = IF f.answer[1] < feed THEN excused \cup {0}
                      ELSE IF f.answer[1] = attn THEN excused \ {0} ELSE excused
        /\ UNCHANGED <<rev, there, pane, attn, others, cards, details, events>>
    BY <1>6 DEF AttentionsArrive, serverVars
  <2>2. status # "me" /\ f.answer[1] \in Nat /\ f.answer[1] <= attn /\ feed \in Nat /\ feed <= attn
    <3>1. f.answer \in Snapshots /\ 1 \in Machines
      BY <1>0 DEF Fetch, Machines
    <3> QED BY <1>01, <2>1, <3>1 DEF DashInv, Past, Snapshots
  <2>3. /\ Heard' /\ status' \in {"loading", "anon", "not-pro", "ready"}
        /\ stream' \in {"off", "connecting", "subscribed", "open", "closed"}
        /\ UNCHANGED <<wire, fallback, tried>>
    BY <1>0, <2>1, <2>2, SettleStep
  <2>4. StreamInv'
    <3>1. excused' \subseteq 0..N
      BY <1>0, <2>1
    <3>2. IsFiniteSet(fetches') /\ fetches' \subseteq Fetch
      BY <1>0, <1>00, <2>1, FS_RemoveElement
    <3>3. \A k \in fetches' : k.kind = "me" <=> status' = "me"
      BY <1>01, <2>1, <2>2, <2>3
    <3> QED BY <1>0, <2>1, <2>3, <3>1, <3>2, <3>3, PageStep
  <2>7. Past'
    BY <2>1, <2>2 DEF DashInv, Past
  <2>8. \A k \in fetches : k \in fetches' \/ k = f
    BY <2>1
  <2>10. \A m : Of(m)' = Of(m)
    BY <2>1 DEF Of
  <2>11. ASSUME NEW m \in there' \ excused' PROVE Listed(m)' /\ Detailed(m)'
    <3>1. m \in Machines /\ m \in there /\ m \notin excused
      BY <1>0, <2>1, <2>11 DEF Machines
    <3>2. (ListComes(m) => ListComes(m)') /\ (DetailComes(m) => DetailComes(m)')
      BY <2>1, <2>8, <2>10 DEF ListComes, DetailComes
    <3>4. (Told(m) => Told(m)') /\ (m \in Known => m \in Known')
      BY <2>1, <2>3 DEF Told, Known
    <3>5. Listed(m) /\ Detailed(m)
      BY <3>1 DEF DashInv
    <3> QED BY <2>1, <2>10, <3>2, <3>4, <3>5 DEF Listed, Detailed
  <2>12. ASSUME 0 \notin excused' PROVE Heeded'
    <3>1. ~(f.answer[1] < feed)
      BY <2>1, <2>12
    <3>2. CASE f.answer[1] = attn
      BY <2>1, <3>2 DEF Heeded
    <3>3. CASE f.answer[1] # attn
      <4>1. Heeded /\ feed # attn
        BY <1>0, <2>1, <2>2, <2>12, <3>1, <3>3 DEF DashInv
      <4>2. AttentionsCome => AttentionsCome'
        BY <2>1, <2>8, <3>3 DEF AttentionsCome
      <4> QED BY <2>3, <4>1, <4>2 DEF Heeded, Alerted
    <3> QED BY <3>2, <3>3
  <2> QED BY <2>1, <2>2, <2>4, <2>7, <2>11, <2>12 DEF DashInv
<1>7. ASSUME NEW f \in fetches, FetchFails(f) PROVE DashInv'
  <2> DEFINE lost == CASE f.kind = "detail" -> {f.m} [] f.kind = "attn" -> {0} [] OTHER -> 0..N
  <2>1. /\ f.kind # "me" /\ events' = events + 1 /\ events < MaxEvents /\ fetches' = fetches \ {f}
        /\ excused' = excused \cup lost
        /\ UNCHANGED <<rev, there, pane, attn, others, cards, details, feed>>
    BY <1>7 DEF FetchFails, Event, serverVars
  <2>2. status # "me"
    BY <1>01, <2>1
  <2>3. /\ Heard' /\ status' \in {"loading", "anon", "not-pro", "ready"}
        /\ stream' \in {"off", "connecting", "subscribed", "open", "closed"}
        /\ UNCHANGED <<wire, fallback, tried>>
    <3>1. CASE status = "loading" /\ f.kind = "list"
      <4>1. status' = "ready" /\ stream' = "connecting" /\ UNCHANGED <<wire, fallback, tried>>
        BY <1>7, <3>1 DEF FetchFails
      <4>2. Heard'
        BY <1>0, <3>1, <4>1 DEF StreamInv, Heard, NeverBlind
      <4> QED BY <4>1, <4>2
    <3>2. CASE ~(status = "loading" /\ f.kind = "list")
      <4>1. Settle(fetches \ {f})
        BY <1>7, <3>2 DEF FetchFails
      <4> QED BY <1>0, <2>2, <4>1, SettleStep
    <3> QED BY <3>1, <3>2
  <2>4. StreamInv'
    <3>0. f.m \in 0..N
      BY <1>0 DEF Fetch
    <3>1. excused' \subseteq 0..N
      BY <1>0, <2>1, <3>0
    <3>2. IsFiniteSet(fetches') /\ fetches' \subseteq Fetch
      BY <1>0, <1>00, <2>1, FS_RemoveElement
    <3>3. \A k \in fetches' : k.kind = "me" <=> status' = "me"
      BY <1>01, <2>1, <2>2, <2>3
    <3>4. events' \in Nat /\ events' <= MaxEvents /\ events' >= events
      BY <1>0, <2>1
    <3>5. wire' \in Seq(Announcement) /\ Len(wire') <= MaxWire
      BY <1>0, <2>3
    <3>6. UNCHANGED <<page, rev, there, pane, attn, others, fallback, tried>>
      BY <2>1, <2>3
    <3> QED BY <1>0, <2>3, <3>1, <3>2, <3>3, <3>4, <3>5, <3>6, PageStep
  <2>7. Past'
    BY <2>1 DEF DashInv, Past
  <2>8. \A k \in fetches : k \in fetches' \/ k = f
    BY <2>1
  <2>10. \A m : Of(m)' = Of(m)
    BY <2>1 DEF Of
  <2>11. ASSUME NEW m \in there' \ excused' PROVE Listed(m)' /\ Detailed(m)'
    <3>1. m \in Machines /\ m \in there /\ m \notin excused /\ m \in 0..N
      BY <1>0, <2>1, <2>11 DEF Machines
    <3>2. f.kind = "attn" \/ (f.kind = "detail" /\ f.m # m)
      BY <2>1, <2>11, <3>1
    <3>3. (ListComes(m) => ListComes(m)') /\ (DetailComes(m) => DetailComes(m)')
      BY <2>1, <2>8, <2>10, <3>2 DEF ListComes, DetailComes
    <3>4. (Told(m) => Told(m)') /\ (m \in Known => m \in Known')
      BY <2>1, <2>3 DEF Told, Known
    <3>5. Listed(m) /\ Detailed(m)
      BY <3>1 DEF DashInv
    <3> QED BY <2>1, <2>10, <3>3, <3>4, <3>5 DEF Listed, Detailed
  <2>12. ASSUME 0 \notin excused' PROVE Heeded'
    <3>1. 0 \notin excused /\ f.kind # "attn"
      BY <1>0, <2>1, <2>12
    <3>2. AttentionsCome => AttentionsCome'
      BY <2>1, <2>8, <3>1 DEF AttentionsCome
    <3> QED BY <2>1, <2>3, <3>1, <3>2 DEF DashInv, Heeded, Alerted
  <2> QED BY <2>1, <2>4, <2>7, <2>11, <2>12 DEF DashInv
<1>8. CASE Receive
  <2> DEFINE e == wire[1]
  <2>1. /\ status = "ready" /\ stream = "open" /\ wire # <<>> /\ MaySend(Wants(e))
        /\ fetches' = SendAll(fetches, Wants(e)) /\ wire' = Tail(wire)
        /\ UNCHANGED <<rev, there, pane, attn, others, stream, fallback, tried, status, excused, cards, details, feed, events>>
    BY <1>8 DEF Receive, serverVars, pageVars, dashVars
  <2>2. /\ e \in Announcement /\ wire' \in Seq(Announcement) /\ Len(wire') <= MaxWire
        /\ \A m : Told(m) => Told(m)' \/ (e.event = "machine.update" /\ e.m = m)
        /\ Alerted => Alerted' \/ e.event = "attention.update"
    BY <1>0, <2>1, Popped
  <2>3. PICK whats : whats = Wants(e)
    OBVIOUS
  <2>4. e.m \in Machines /\ e.m \in 0..N /\ e.event \in {"machine.update", "attention.update"}
    BY <1>0, <2>2 DEF Announcement, Machines
  <2>5. \/ e.event = "attention.update" /\ whats = {<<"attn", 0>>, <<"detail", e.m>>}
        \/ e.event = "machine.update" /\ e.m \in Known /\ whats = {<<"detail", e.m>>}
        \/ e.event = "machine.update" /\ e.m \notin Known /\ whats = {<<"list", 0>>}
    BY <2>3, <2>4 DEF Wants
  <2>6. whats \subseteq Kind \X (0..N) /\ IsFiniteSet(whats)
        /\ \A w \in whats : w[1] # "me" /\ (w[1] = "detail" => w[2] \in Machines)
    <3>1. \A a, b : IsFiniteSet({a, b}) /\ IsFiniteSet({a})
      <4> TAKE a, b
      <4>1. IsFiniteSet({a}) /\ {a, b} = {a} \cup {b}
        BY FS_Singleton
      <4> QED BY <4>1, FS_AddElement
    <3>2. IsFiniteSet(whats)
      BY <2>5, <3>1
    <3>3. 0 \in 0..N
      BY <1>0
    <3> QED BY <2>4, <2>5, <3>2, <3>3 DEF Kind
  <2>7. /\ fetches' \subseteq Fetch /\ IsFiniteSet(fetches') /\ fetches \subseteq fetches'
        /\ \A k \in fetches' : k \in fetches \/
             (\E w \in whats : k.kind = w[1] /\ k.m = w[2] /\ ~k.done /\ k.answer = NoAnswer /\ k.at = 0)
        /\ \A w \in whats : \E k \in fetches' : k.kind = w[1] /\ k.m = w[2] /\ ~k.done
    BY <1>0, <1>00, <2>1, <2>3, <2>6, SendsTyped DEF StreamInv
  <2>8. \A k \in fetches' : k \in fetches \/ (k.kind # "me" /\ k.answer = NoAnswer /\ (k.kind = "detail" => k.m \in Machines))
    BY <2>6, <2>7
  <2>9. StreamInv'
    <3>1. Heard'
      BY <1>0, <2>1 DEF StreamInv, Heard, NeverBlind
    <3>2. \A k \in fetches' : k.kind = "me" <=> status' = "me"
      BY <1>01, <2>1, <2>8
    <3> QED BY <1>0, <2>1, <2>2, <2>7, <3>1, <3>2, PageStep
  <2>10. \A m \in Machines : Told(m) => Told(m)' \/ <<"list", 0>> \in whats \/ (m \in Known /\ <<"detail", m>> \in whats)
    BY <2>2, <2>5
  <2>11. Alerted => Alerted' \/ <<"attn", 0>> \in whats
    BY <2>2, <2>5
  <2>12. excused \subseteq excused' /\ UNCHANGED <<rev, there, attn, cards, details, feed>>
    BY <2>1
  <2>13. \A k \in fetches' : k \in fetches \/ (k.answer = NoAnswer /\ (k.kind = "detail" => k.m \in Machines))
    BY <2>8
  <2> QED BY <2>7, <2>9, <2>10, <2>11, <2>12, <2>13, StillComes
<1>9. CASE Poll
  <2>0. PICK whats : whats = {<<"list", 0>>}
    OBVIOUS
  <2>1. /\ status = "ready" /\ CanSend("list", 0) /\ events' = events + 1 /\ events < MaxEvents
        /\ fetches' = SendAll(fetches, whats)
        /\ UNCHANGED <<rev, there, pane, attn, others, stream, wire, fallback, tried, status, excused, cards, details, feed>>
    BY <1>9, <2>0 DEF Poll, Event, serverVars, streamVars, pageVars, dashVars
  <2>2. whats \subseteq Kind \X (0..N) /\ IsFiniteSet(whats) /\ MaySend(whats)
    <3>1. 0 \in 0..N
      BY <1>0
    <3>2. IsFiniteSet(whats)
      BY <2>0, FS_Singleton
    <3>3. whats \subseteq Kind \X (0..N)
      BY <2>0, <3>1 DEF Kind
    <3>4. \A w \in whats : w[1] = "list" /\ w[2] = 0
      BY <2>0
    <3> QED BY <2>1, <3>2, <3>3, <3>4 DEF MaySend
  <2>7. /\ fetches' \subseteq Fetch /\ IsFiniteSet(fetches') /\ fetches \subseteq fetches'
        /\ \A k \in fetches' : k \in fetches \/
             (\E w \in whats : k.kind = w[1] /\ k.m = w[2] /\ ~k.done /\ k.answer = NoAnswer /\ k.at = 0)
        /\ \A w \in whats : \E k \in fetches' : k.kind = w[1] /\ k.m = w[2] /\ ~k.done
    BY <1>0, <1>00, <2>1, <2>2, SendsTyped DEF StreamInv
  <2>8. \A k \in fetches' : k \in fetches \/ (k.kind = "list" /\ k.answer = NoAnswer)
    BY <2>0, <2>7
  <2>9. StreamInv'
    <3>1. Heard'
      BY <1>0, <2>1 DEF StreamInv, Heard, NeverBlind
    <3>2. \A k \in fetches' : k.kind = "me" <=> status' = "me"
      BY <1>01, <2>1, <2>8
    <3>3. events' \in Nat /\ events' <= MaxEvents /\ events' >= events
      BY <1>0, <2>1
    <3> QED BY <1>0, <2>1, <2>7, <3>1, <3>2, <3>3, PageStep
  <2>10. (Alerted => Alerted') /\ \A m : Told(m) => Told(m)'
    BY <2>1 DEF Told, Alerted
  <2>12. excused \subseteq excused' /\ UNCHANGED <<rev, there, attn, cards, details, feed>>
    BY <2>1
  <2>13. \A k \in fetches' : k \in fetches \/ (k.answer = NoAnswer /\ (k.kind = "detail" => k.m \in Machines))
    BY <2>8
  <2> QED BY <2>7, <2>9, <2>10, <2>12, <2>13, StillComes
<1> QED BY <1>1, <1>2, <1>3, <1>4, <1>5, <1>6, <1>7, <1>8, <1>9 DEF DashNext

LEMMA DashHonest == DashInv => DashTypeOK /\ NeverBlind /\ CaughtUp
<1> SUFFICES ASSUME DashInv PROVE DashTypeOK /\ NeverBlind /\ CaughtUp
  OBVIOUS
<1>1. DashTypeOK
  <2>1. attn \in Nat /\ attn <= MaxEvents /\ MaxEvents \in Nat /\ feed \in Nat /\ feed <= attn
    BY Typed DEF DashInv, Past
  <2>2. feed \in 0..MaxEvents
    BY <2>1
  <2> QED BY <2>2 DEF DashInv, StreamInv, DashTypeOK
<1>2. NeverBlind
  BY DEF DashInv, StreamInv, Heard
<1>3. ASSUME wire = <<>>, fetches = {} PROVE \A m : ~Told(m) /\ ~Alerted
  BY <1>3 DEF Told, Alerted
<1>4. CaughtUp
  BY <1>3 DEF CaughtUp, DashInv, Listed, Detailed, Heeded, ListComes, DetailComes, AttentionsCome
<1> QED BY <1>1, <1>2, <1>4

LEMMA StreamStart == StreamInit => StreamInv
<1> SUFFICES ASSUME StreamInit PROVE StreamInv
  OBVIOUS
<1>0. N \in Nat /\ N > 0 /\ MaxStreams \in Nat /\ MaxWire \in Nat /\ MaxFetches \in Nat /\ MaxFetches > 0 /\ MaxEvents \in Nat
  BY StreamAssumption
<1>1. StreamInit
  OBVIOUS
<1>2. PICK f : f = Sent("me", 0, 1)
  OBVIOUS
<1>3. f \in Fetch /\ f.kind = "me" /\ fetches = {f}
  <2>1. NoAnswer \in Snapshots
    BY <1>0 DEF NoAnswer, Snapshots
  <2>2. 0 \in 0..N /\ 1 \in 1..MaxFetches /\ 0 \in 0..MaxEvents
    BY <1>0
  <2> QED BY <1>1, <1>2, <2>1, <2>2 DEF StreamInit, Sent, Fetch
<1>4. StreamTypeOK
  <2>1. rev \in Snapshots /\ there \subseteq Machines /\ attn \in 0..MaxEvents /\ events \in 0..MaxEvents
    BY <1>0, <1>1 DEF StreamInit, Snapshots, Machines
  <2>2. pane \in [Machines -> {Off, Active, Thinking}] /\ others \in 0..MaxStreams
    BY <1>0, <1>1 DEF StreamInit
  <2>3. wire \in Seq([event : {"machine.update", "attention.update"}, m : Machines]) /\ Len(wire) <= MaxWire
    BY <1>0, <1>1 DEF StreamInit
  <2> QED BY <1>0, <1>1, <1>3, <2>1, <2>2, <2>3 DEF StreamInit, StreamTypeOK
<1>5. Heard
  BY <1>1 DEF StreamInit, Heard, NeverBlind
<1>6. Counted
  <2>1. \A m \in Machines : rev[m] = 0 /\ pane[m] \in 0..1
    BY <1>1 DEF StreamInit, Off, Active
  <2>2. IsFiniteSet(fetches)
    BY <1>3, FS_Singleton
  <2> QED BY <1>0, <1>1, <1>3, <2>1, <2>2 DEF StreamInit, Counted
<1> QED BY <1>4, <1>5, <1>6 DEF StreamInv

LEMMA DashStart == StreamInit /\ DashInit => DashInv
<1> SUFFICES ASSUME StreamInit, DashInit PROVE DashInv
  OBVIOUS
<1>0. N \in Nat /\ N > 0 /\ MaxEvents \in Nat
  BY StreamAssumption
<1>1. StreamInit /\ DashInit /\ StreamInv
  BY StreamStart
<1>2. cards \in Snapshots /\ details \in Snapshots
  BY <1>0, <1>1 DEF DashInit, NoAnswer, Snapshots
<1>3. \A f \in fetches : f.kind = "me"
  BY <1>1 DEF StreamInit, Sent
<1>4. Past
  <2>1. \A m \in Machines : details[m] = 0 /\ rev[m] = 0
    BY <1>1 DEF DashInit, StreamInit, NoAnswer
  <2>2. feed = 0 /\ attn = 0
    BY <1>1 DEF DashInit, StreamInit
  <2> QED BY <1>3, <2>1, <2>2 DEF Past
<1>5. 0 \in excused /\ \A m \in there : m \in excused
  BY <1>0, <1>1 DEF StreamInit
<1> QED BY <1>1, <1>2, <1>4, <1>5 DEF DashInit, DashInv

(***************************************************************************)
(* The album.                                                              *)
(***************************************************************************)
LEMMA Interval == ASSUME NEW n \in Nat PROVE IsFiniteSet(1..n) /\ Cardinality(1..n) = n
BY FS_Interval

(* Of some numbers one is the least.                                        *)
LEMMA Earliest ==
    ASSUME NEW P, P \subseteq Nat, P # {}
    PROVE  \E l \in P : \A j \in P : l <= j
<1>1. PICK l \in P : \A j \in P : <<j, l>> \notin OpToRel(<, Nat)
  BY NatLessThanWellFounded, WFMin, Zenon
<1>2. \A j \in P : ~(j < l)
  BY <1>1 DEF OpToRel
<1>3. \A j \in P : j \in Nat
  OBVIOUS
<1> QED BY <1>2, <1>3

(* h lays the elements of S out in the order R.                              *)
LaysOut(h, S, R) ==
    h \in [1..Cardinality(S) -> S] /\ \A i, j \in 1..Cardinality(S) : i < j => <<h[i], h[j]>> \in R

(* A finite set whose elements are told apart by an order can be laid out in  *)
(* it, the rank of each says where, and such a layout leaves none out.        *)
LEMMA Sorted ==
    ASSUME NEW S, IsFiniteSet(S), NEW R,
           \A x \in S : <<x, x>> \notin R,
           \A x, y \in S : x = y \/ <<x, y>> \in R \/ <<y, x>> \in R,
           \A x, y, z \in S : <<x, y>> \in R /\ <<y, z>> \in R => <<x, z>> \in R
    PROVE  /\ Cardinality(S) \in Nat
           /\ \E f : LaysOut(f, S, R)
           /\ \A h : LaysOut(h, S, R) => \A p \in S : \E k \in 1..Cardinality(S) : h[k] = p
<1>1. PICK n \in Nat : n = Cardinality(S)
  BY FS_CardinalityType
<1> DEFINE upto(i) == {j \in S : j = i \/ <<j, i>> \in R}
           g == [i \in S |-> Cardinality(upto(i))]
<1>2. \A i \in S : IsFiniteSet(upto(i)) /\ Cardinality(upto(i)) \in 1..n
  <2> TAKE i \in S
  <2>1. upto(i) \in SUBSET S /\ i \in upto(i)
    OBVIOUS
  <2>2. IsFiniteSet(upto(i)) /\ Cardinality(upto(i)) <= n
    BY <1>1, <2>1, FS_Subset
  <2> HIDE DEF upto
  <2>3. Cardinality(upto(i)) \in Nat /\ Cardinality(upto(i)) # 0
    BY <2>1, <2>2, FS_CardinalityType, FS_EmptySet
  <2> QED BY <2>2, <2>3
<1>3. \A i, j \in S : <<i, j>> \in R => Cardinality(upto(i)) < Cardinality(upto(j))
  <2> SUFFICES ASSUME NEW i \in S, NEW j \in S, <<i, j>> \in R PROVE Cardinality(upto(i)) < Cardinality(upto(j))
    OBVIOUS
  <2>1. upto(i) \in SUBSET upto(j) /\ j \in upto(j)
    OBVIOUS
  <2>2. j \notin upto(i)
    <3>1. j # i
      OBVIOUS
    <3>2. <<j, i>> \notin R
      OBVIOUS
    <3> QED BY <3>1, <3>2
  <2>3. IsFiniteSet(upto(j)) /\ Cardinality(upto(i)) \in Nat /\ Cardinality(upto(j)) \in Nat
    BY <1>1, <1>2
  <2> HIDE DEF upto
  <2>4. Cardinality(upto(i)) <= Cardinality(upto(j)) /\ (Cardinality(upto(j)) = Cardinality(upto(i)) => upto(j) = upto(i))
    BY <2>1, <2>3, FS_Subset
  <2> QED BY <2>1, <2>2, <2>3, <2>4
<1> HIDE DEF upto
<1>4. g \in [S -> 1..n] /\ \A i, j \in S : <<i, j>> \in R => g[i] < g[j]
  BY <1>2, <1>3
<1> HIDE DEF g
<1>5. \A i, j \in S : g[i] = g[j] => i = j
  <2> SUFFICES ASSUME NEW i \in S, NEW j \in S, g[i] = g[j], i # j PROVE FALSE
    OBVIOUS
  <2>1. g[i] \in Nat /\ g[j] \in Nat
    BY <1>4
  <2>2. g[i] < g[j] \/ g[j] < g[i]
    BY <1>4
  <2> QED BY <2>1, <2>2
<1>6. IsFiniteSet(1..n) /\ Cardinality(1..n) = n
  BY <1>1, Interval
<1>7. g \in Injection(S, 1..n)
  <2>1. IsInjective(g)
    BY <1>4, <1>5 DEF IsInjective
  <2> QED BY <1>4, <2>1 DEF Injection
<1>8. g \in Surjection(S, 1..n)
  BY <1>1, <1>6, <1>7, FS_Injection
<1>9. \A k \in 1..n : \E i \in S : g[i] = k
  BY <1>8 DEF Surjection
<1> DEFINE f == [k \in 1..n |-> CHOOSE i \in S : g[i] = k]
<1>10. \A k \in 1..n : f[k] \in S /\ g[f[k]] = k
  BY <1>9
<1>11. f \in [1..n -> S]
  BY <1>9
<1> HIDE DEF f
<1>12. \A i, j \in 1..n : i < j => <<f[i], f[j]>> \in R
  <2> SUFFICES ASSUME NEW i \in 1..n, NEW j \in 1..n, i < j, <<f[i], f[j]>> \notin R PROVE FALSE
    OBVIOUS
  <2>1. f[i] \in S /\ f[j] \in S /\ g[f[i]] = i /\ g[f[j]] = j
    BY <1>10
  <2>2. f[i] = f[j] \/ <<f[j], f[i]>> \in R
    BY <2>1
  <2>3. <<f[j], f[i]>> \in R => j < i
    BY <1>4, <2>1
  <2>4. i \in Nat /\ j \in Nat
    BY <1>1
  <2> QED BY <2>1, <2>2, <2>3, <2>4
<1>13. ASSUME NEW h \in [1..n -> S], \A i, j \in 1..n : i < j => <<h[i], h[j]>> \in R
       PROVE  \A p \in S : \E k \in 1..n : h[k] = p
  <2>1. \A i, j \in 1..n : h[i] = h[j] => i = j
    <3> SUFFICES ASSUME NEW i \in 1..n, NEW j \in 1..n, h[i] = h[j], i # j PROVE FALSE
      OBVIOUS
    <3>1. h[i] \in S /\ h[j] \in S
      BY <1>13
    <3>2. i < j \/ j < i
      BY <1>1
    <3>3. <<h[i], h[j]>> \in R \/ <<h[j], h[i]>> \in R
      BY <1>13, <3>2
    <3> QED BY <3>1, <3>3
  <2>2. h \in Injection(1..n, S)
    BY <1>13, <2>1 DEF IsInjective, Injection
  <2>3. h \in Surjection(1..n, S)
    BY <1>1, <1>6, <2>2, FS_Injection
  <2> QED BY <2>3 DEF Surjection
<1>14. \A h : LaysOut(h, S, R) <=> h \in [1..n -> S] /\ \A i, j \in 1..n : i < j => <<h[i], h[j]>> \in R
  BY <1>1 DEF LaysOut
<1>15. \E e : LaysOut(e, S, R)
  BY <1>11, <1>12, <1>14
<1>16. \A h : LaysOut(h, S, R) => \A p \in S : \E k \in 1..n : h[k] = p
  BY <1>13, <1>14
<1> QED BY <1>1, <1>15, <1>16

(* So can the positions of a finite set.                                    *)
LEMMA Ranked ==
    ASSUME NEW P, P \subseteq Nat, IsFiniteSet(P)
    PROVE  /\ Cardinality(P) \in Nat
           /\ InOrder(P) \in [1..Cardinality(P) -> P]
           /\ \A i, j \in 1..Cardinality(P) : i < j => InOrder(P)[i] < InOrder(P)[j]
           /\ \A p \in P : \E k \in 1..Cardinality(P) : InOrder(P)[k] = p
<1>1. PICK R : R = {z \in P \X P : z[1] < z[2]}
  OBVIOUS
<1>2. \A i, j \in P : <<i, j>> \in R <=> i < j
  BY <1>1
<1>3. \A i \in P : i \in Nat
  OBVIOUS
<1>4. /\ \A i \in P : <<i, i>> \notin R
      /\ \A i, j \in P : i = j \/ <<i, j>> \in R \/ <<j, i>> \in R
      /\ \A i, j, k \in P : <<i, j>> \in R /\ <<j, k>> \in R => <<i, k>> \in R
  BY <1>2, <1>3
<1>5. PICK n \in Nat : n = Cardinality(P)
  BY FS_CardinalityType
<1>6. (\E e : LaysOut(e, P, R)) /\ \A h : LaysOut(h, P, R) => \A p \in P : \E k \in 1..Cardinality(P) : h[k] = p
  BY <1>4, Sorted, Zenon
<1>7. \E e \in [1..n -> P] : \A i, j \in 1..n : i < j => e[i] < e[j]
  <2>1. PICK e : LaysOut(e, P, R)
    BY <1>6
  <2>2. e \in [1..n -> P] /\ \A i, j \in 1..n : i < j => <<e[i], e[j]>> \in R
    BY <1>5, <2>1 DEF LaysOut
  <2>3. \A i, j \in 1..n : i < j => e[i] < e[j]
    BY <1>2, <2>2
  <2> QED BY <2>2, <2>3
<1>8. PICK h : h = InOrder(P)
  OBVIOUS
<1>9. h \in [1..n -> P] /\ \A i, j \in 1..n : i < j => h[i] < h[j]
  BY <1>5, <1>7, <1>8 DEF InOrder
<1>10. LaysOut(h, P, R)
  <2>1. \A i, j \in 1..n : i < j => <<h[i], h[j]>> \in R
    BY <1>2, <1>9
  <2> QED BY <1>5, <1>9, <2>1 DEF LaysOut
<1>11. \A p \in P : \E k \in 1..n : h[k] = p
  BY <1>5, <1>6, <1>10
<1> QED BY <1>5, <1>8, <1>9, <1>11

(* All positions, in order, are where they are.                             *)
LEMMA Whole == ASSUME NEW n \in Nat PROVE Cardinality(1..n) = n /\ \A k \in 1..n : InOrder(1..n)[k] = k
<1>1. IsFiniteSet(1..n) /\ Cardinality(1..n) = n /\ 1..n \subseteq Nat
  BY Interval
<1>2. PICK h \in [1..n -> 1..n] : h = InOrder(1..n)
  BY <1>1, Ranked
<1>3. (\A i, j \in 1..n : i < j => h[i] < h[j]) /\ \A p \in 1..n : \E k \in 1..n : h[k] = p
  BY <1>1, <1>2, Ranked
<1>4. PICK off \in SUBSET (1..n) : off = {k \in 1..n : h[k] # k}
  OBVIOUS
<1>5. off = {}
  <2> SUFFICES ASSUME off # {} PROVE FALSE
    OBVIOUS
  <2>1. off \subseteq Nat
    OBVIOUS
  <2>2. PICK least \in off : \A j \in off : ~(j < least)
    <3>1. PICK least \in off : \A j \in off : least <= j
      BY <2>1, Earliest
    <3> QED BY <2>1, <3>1
  <2>3. least \in 1..n /\ h[least] \in 1..n /\ h[least] # least
    BY <1>4
  <2>4. \A j \in 1..n : j < least => h[j] = j
    BY <1>4, <2>2
  <2>5. CASE h[least] < least
    <3>1. h[h[least]] = h[least]
      BY <2>3, <2>4, <2>5
    <3>2. h[h[least]] < h[least]
      BY <1>3, <2>3, <2>5
    <3> QED BY <2>3, <3>1, <3>2
  <2>6. CASE least < h[least]
    <3>1. PICK k \in 1..n : h[k] = least
      BY <1>3, <2>3
    <3>2. k < least => h[k] = k
      BY <2>4
    <3>3. least < k => h[least] < h[k]
      BY <1>3, <2>3
    <3>4. k \in Nat /\ least \in Nat /\ h[least] \in Nat /\ h[k] \in Nat
      BY <2>3, <3>1
    <3> QED BY <2>3, <2>6, <3>1, <3>2, <3>3, <3>4
  <2> QED BY <2>3, <2>5, <2>6
<1> QED BY <1>1, <1>2, <1>4, <1>5

(* What a filter keeps: the elements at these positions, in their order.     *)
Keeps(r, s, P) ==
    /\ Len(r) = Cardinality(P) /\ Cardinality(P) \in Nat
    /\ \A k \in 1..Len(r) : \E p \in P : r[k] = s[p]
    /\ \A p \in P : \E k \in 1..Len(r) : r[k] = s[p]
    /\ \A k, l \in 1..Len(r) : k < l => \E p, q \in P : p < q /\ r[k] = s[p] /\ r[l] = s[q]

LEMMA Filtered ==
    ASSUME NEW s, Len(s) \in Nat, NEW P, P \subseteq 1..Len(s)
    PROVE  Keeps(At(s, P), s, P) /\ \A S : (\A i \in 1..Len(s) : s[i] \in S) => At(s, P) \in Seq(S)
<1>1. IsFiniteSet(1..Len(s))
  BY FS_Interval
<1>2. P \subseteq Nat /\ IsFiniteSet(P)
  <2>1. P \in SUBSET (1..Len(s))
    OBVIOUS
  <2>2. IsFiniteSet(P)
    BY <1>1, <2>1, FS_Subset
  <2> QED BY <1>1, <2>2
<1>3. PICK n \in Nat : n = Cardinality(P)
  BY <1>2, Ranked
<1>4. PICK h \in [1..n -> P] : h = InOrder(P)
  BY <1>2, <1>3, Ranked
<1>5. (\A i, j \in 1..n : i < j => h[i] < h[j]) /\ \A p \in P : \E k \in 1..n : h[k] = p
  BY <1>2, <1>3, <1>4, Ranked
<1>6. \A k \in 1..n : h[k] \in P
  OBVIOUS
<1>7. PICK r : r = [k \in 1..n |-> s[h[k]]]
  OBVIOUS
<1>8. r = At(s, P)
  BY <1>3, <1>4, <1>7 DEF At
<1>9. \A k \in 1..n : r[k] = s[h[k]]
  BY <1>7
<1>10. \A S : (\A i \in 1..Len(s) : s[i] \in S) => r \in Seq(S) /\ Len(r) = n
  <2> SUFFICES ASSUME NEW S, \A i \in 1..Len(s) : s[i] \in S PROVE r \in Seq(S) /\ Len(r) = n
    OBVIOUS
  <2>1. r \in [1..n -> S]
    BY <1>6, <1>7
  <2> QED BY <1>3, <2>1
<1>11. Len(r) = n
  <2>1. PICK U : U = {s[i] : i \in 1..Len(s)}
    OBVIOUS
  <2>2. \A i \in 1..Len(s) : s[i] \in U
    BY <2>1
  <2> QED BY <1>10, <2>2
<1>12. Keeps(r, s, P)
  <2>1. \A k \in 1..n : \E p \in P : r[k] = s[p]
    BY <1>6, <1>9
  <2>2. \A p \in P : \E k \in 1..n : r[k] = s[p]
    BY <1>5, <1>9
  <2>3. \A k, l \in 1..n : k < l => h[k] < h[l] /\ h[k] \in P /\ h[l] \in P /\ r[k] = s[h[k]] /\ r[l] = s[h[l]]
    BY <1>5, <1>6, <1>9
  <2>4. \A k \in 1..Len(r) : \E p \in P : r[k] = s[p]
    BY <1>11, <2>1
  <2>5. \A p \in P : \E k \in 1..Len(r) : r[k] = s[p]
    BY <1>11, <2>2
  <2>6. \A k, l \in 1..Len(r) : k < l => \E p, q \in P : p < q /\ r[k] = s[p] /\ r[l] = s[q]
    BY ZenonT(40), <1>11, <2>3
  <2> QED BY <1>3, <1>11, <2>4, <2>5, <2>6 DEF Keeps
<1> QED BY <1>8, <1>10, <1>12

Distinct(s) == \A i, j \in 1..Len(s) : s[i].m = s[j].m => i = j

LEMMA FilteredDistinct ==
    ASSUME NEW s \in Seq(Entry), Distinct(s), NEW P, P \subseteq 1..Len(s)
    PROVE  Distinct(At(s, P))
<1>0. PICK r : r = At(s, P)
  OBVIOUS
<1>1. r \in Seq(Entry) /\ Keeps(r, s, P)
  <2>1. Len(s) \in Nat /\ \A i \in 1..Len(s) : s[i] \in Entry
    OBVIOUS
  <2>2. Keeps(At(s, P), s, P) /\ \A S : (\A i \in 1..Len(s) : s[i] \in S) => At(s, P) \in Seq(S)
    BY <2>1, Filtered, Zenon
  <2> QED BY <1>0, <2>1, <2>2
<1>2. \A k, l \in 1..Len(r) : k < l => \E p, q \in P : p < q /\ r[k] = s[p] /\ r[l] = s[q]
  BY <1>1 DEF Keeps
<1>20. \A p, q \in P : p < q => s[p].m # s[q].m
  <2>1. \A p \in P : p \in 1..Len(s) /\ p \in Nat
    OBVIOUS
  <2> QED BY <2>1 DEF Distinct
<1>3. \A k, l \in 1..Len(r) : k < l => r[k].m # r[l].m
  BY <1>2, <1>20
<1>4. Len(r) \in Nat
  BY <1>1
<1>5. \A k, l \in 1..Len(r) : k = l \/ k < l \/ l < k
  BY <1>4
<1> QED BY <1>0, <1>3, <1>5 DEF Distinct

LEMMA VisibleLength ==
    ASSUME NEW s \in Seq(Entry), NEW only
    PROVE  /\ Len(Visible(s, only)) \in Nat
           /\ Len(Visible(s, only)) = IF only THEN Cardinality(Running(s)) ELSE Len(s)
<1>1. Running(s) \subseteq 1..Len(s)
  BY DEF Running
<1>2. Len(filterRunning(s)) = Cardinality(Running(s)) /\ Cardinality(Running(s)) \in Nat
  BY <1>1, Filtered DEF filterRunning, Keeps
<1> QED BY <1>2 DEF Visible

LEMMA ShowStep ==
    ASSUME NEW entries \in Seq(Entry), NEW only \in BOOLEAN, index \in Nat, Show(entries, only)
    PROVE  album' \in Seq(Entry) /\ runningOnly' \in BOOLEAN /\ index' \in Nat /\ OnView'
<1>1. PICK n \in Nat : n = Len(Visible(entries, only))
  BY VisibleLength
<1>2. album' = entries /\ runningOnly' = only /\ index' = Clamped(index, n)
  BY <1>1 DEF Show
<1>3. Clamped(index, n) \in Nat /\ (n > 0 => Clamped(index, n) < n)
  BY <1>1 DEF Clamped
<1>4. Len(Visible(album', runningOnly')) = n
  BY <1>1, <1>2
<1>5. OnView'
  BY <1>2, <1>3, <1>4 DEF OnView
<1> QED BY <1>2, <1>3, <1>5

(* The entry of a machine, if there is one, says what its pane does; there is *)
(* one if it runs.                                                          *)
Says(e, v) == (e.completed <=> v = Off) /\ (v # Off => (e.thinking <=> v = Thinking))
Matches(s, m, v) ==
    /\ v # Off => \E i \in 1..Len(s) : s[i].m = m
    /\ \A i \in 1..Len(s) : s[i].m = m => Says(s[i], v)

(* s begins with the photos of r, which keep the frames they have shown.      *)
Prolongs(s, r) ==
    /\ Len(s) \in Nat /\ Len(r) <= Len(s)
    /\ \A i \in 1..Len(r) : s[i].m = r[i].m /\ s[i].lastFrame = r[i].lastFrame

LEMMA Reconciled ==
    ASSUME NEW prev \in Seq(Entry), Distinct(prev), NEW roster, \A m \in Machines : roster[m] \in 0..2,
           NEW ranks \in Orders, NEW next, next = reconcileAlbum(prev, roster, ranks)
    PROVE  /\ next \in Seq(Entry) /\ Distinct(next) /\ Prolongs(next, prev)
           /\ \A m \in Machines : Matches(next, m, roster[m])
<1>0. N \in Nat /\ N > 0
  BY StreamAssumption
<1>1. ranks \in [Machines -> Machines] /\ (\A m \in Machines : \E i \in Machines : ranks[i] = m)
      /\ \A i, j \in Machines : ranks[i] = ranks[j] => i = j
  <2>1. ranks \in [Machines -> Machines] /\ \A m \in Machines : \E i \in Machines : ranks[i] = m
    BY DEF Orders
  <2>2. ranks \in Surjection(Machines, Machines)
    BY <2>1 DEF Surjection
  <2>3. IsFiniteSet(Machines)
    BY <1>0, FS_Interval DEF Machines
  <2>4. ranks \in Injection(Machines, Machines)
    BY <2>2, <2>3, FS_SurjSameCardinalityImpliesInj
  <2>5. \A i, j \in Machines : ranks[i] = ranks[j] => i = j
    BY <2>1, <2>4 DEF Injection, IsInjective
  <2> QED BY <2>1, <2>5
<1>2. ranks \in Seq(Machines) /\ Len(ranks) = N
  <2>1. ranks \in [1..N -> Machines]
    BY <1>1 DEF Machines
  <2> QED BY <1>0, <2>1
<1> DEFINE lacks(m) == roster[m] # Off /\ \A i \in 1..Len(prev) : prev[i].m # m
<1>3. PICK Q : Q = {i \in Machines : lacks(ranks[i])}
  OBVIOUS
<1>4. Q \subseteq 1..Len(ranks) /\ Q \subseteq Machines
  BY <1>2, <1>3 DEF Machines
<1>50. PICK new : new = At(ranks, Q)
  OBVIOUS
<1>51. \A i \in 1..Len(ranks) : ranks[i] \in Machines
  BY <1>2
<1>52. new \in Seq(Machines) /\ Keeps(new, ranks, Q)
  <2>1. Len(ranks) \in Nat
    BY <1>0, <1>2
  <2>2. Keeps(At(ranks, Q), ranks, Q) /\ \A S : (\A i \in 1..Len(ranks) : ranks[i] \in S) => At(ranks, Q) \in Seq(S)
    BY <1>4, <2>1, Filtered, Zenon
  <2> QED BY <1>50, <1>51, <2>2
<1>5. /\ new \in Seq(Machines)
      /\ \A k \in 1..Len(new) : \E p \in Q : new[k] = ranks[p]
      /\ \A p \in Q : \E k \in 1..Len(new) : new[k] = ranks[p]
      /\ \A k, l \in 1..Len(new) : k < l => \E p, q \in Q : p < q /\ new[k] = ranks[p] /\ new[l] = ranks[q]
  BY <1>52 DEF Keeps
<1>7. PICK old : old = [i \in 1..Len(prev) |-> Refreshed(prev[i], roster)]
  OBVIOUS
<1>8. PICK more : more = [i \in 1..Len(new) |-> Fresh(new[i], roster)]
  OBVIOUS
<1>9. next = old \o more
  BY <1>3, <1>50, <1>7, <1>8 DEF reconcileAlbum, Appended
<1>10. Len(prev) \in Nat /\ Len(new) \in Nat /\ \A i \in 1..Len(prev) : prev[i] \in Entry
  BY <1>5
<1>11. \A e \in Entry : Refreshed(e, roster) \in Entry /\ Refreshed(e, roster).m = e.m /\ Says(Refreshed(e, roster), roster[e.m])
  <2> TAKE e \in Entry
  <2>1. e.m \in Machines /\ roster[e.m] \in 0..2
    BY DEF Entry
  <2>2. CASE roster[e.m] = Off
    <3>1. Refreshed(e, roster) = [e EXCEPT !.completed = TRUE]
      BY <2>2 DEF Refreshed
    <3>2. [e EXCEPT !.completed = TRUE] \in Entry /\ [e EXCEPT !.completed = TRUE].m = e.m /\ [e EXCEPT !.completed = TRUE].completed = TRUE
      BY DEF Entry
    <3> QED BY <2>2, <3>1, <3>2 DEF Says
  <2>3. CASE roster[e.m] # Off
    <3>1. PICK t \in BOOLEAN : t = (roster[e.m] = Thinking)
      OBVIOUS
    <3>2. Refreshed(e, roster) = [e EXCEPT !.completed = FALSE, !.thinking = t]
      BY <2>3, <3>1 DEF Refreshed
    <3>3. PICK x : x = [e EXCEPT !.completed = FALSE, !.thinking = t]
      OBVIOUS
    <3>4. x \in Entry /\ x.m = e.m /\ x.completed = FALSE /\ x.thinking = t
      BY <3>3 DEF Entry
    <3> QED BY <2>3, <3>1, <3>2, <3>3, <3>4 DEF Says
  <2> QED BY <2>2, <2>3
<1>12. \A m \in Machines : roster[m] # Off =>
         Fresh(m, roster) \in Entry /\ Fresh(m, roster).m = m /\ Says(Fresh(m, roster), roster[m])
  <2> SUFFICES ASSUME NEW m \in Machines, roster[m] # Off
               PROVE  Fresh(m, roster) \in Entry /\ Fresh(m, roster).m = m /\ Says(Fresh(m, roster), roster[m])
    OBVIOUS
  <2>1. PICK t \in BOOLEAN : t = (roster[m] = Thinking)
    OBVIOUS
  <2>2. Fresh(m, roster) = [m |-> m, completed |-> FALSE, thinking |-> t, lastFrame |-> FALSE]
    BY <2>1 DEF Fresh
  <2>3. PICK x : x = [m |-> m, completed |-> FALSE, thinking |-> t, lastFrame |-> FALSE]
    OBVIOUS
  <2>4. x \in Entry /\ x.m = m /\ x.completed = FALSE /\ x.thinking = t
    BY <2>3 DEF Entry
  <2> QED BY <2>1, <2>2, <2>3, <2>4 DEF Says
<1>13. old \in Seq(Entry) /\ Len(old) = Len(prev) /\ \A i \in 1..Len(prev) : old[i].m = prev[i].m /\ Says(old[i], roster[prev[i].m])
  <2>1. old \in [1..Len(prev) -> Entry] /\ \A i \in 1..Len(prev) : old[i] = Refreshed(prev[i], roster)
    BY <1>7, <1>10, <1>11
  <2>2. old \in Seq(Entry) /\ Len(old) = Len(prev)
    BY <1>10, <2>1
  <2> QED BY <1>10, <1>11, <2>1, <2>2
<1>14. \A k \in 1..Len(new) : new[k] \in Machines /\ lacks(new[k])
  <2> TAKE k \in 1..Len(new)
  <2>1. PICK p \in Q : new[k] = ranks[p]
    BY <1>5
  <2>2. ranks[p] \in Machines /\ lacks(ranks[p])
    BY <1>1, <1>3, <1>4
  <2> HIDE DEF lacks
  <2> QED BY <2>1, <2>2
<1>15. more \in Seq(Entry) /\ Len(more) = Len(new) /\ \A k \in 1..Len(new) : more[k].m = new[k] /\ Says(more[k], roster[new[k]])
  <2>1. \A k \in 1..Len(new) : more[k] = Fresh(new[k], roster) /\ new[k] \in Machines /\ roster[new[k]] # Off
    BY <1>8, <1>14
  <2>2. more \in [1..Len(new) -> Entry]
    BY <1>8, <1>12, <2>1
  <2>3. more \in Seq(Entry) /\ Len(more) = Len(new)
    BY <1>10, <2>2
  <2> QED BY <1>12, <2>1, <2>3
<1>16. next \in Seq(Entry) /\ Len(next) = Len(prev) + Len(new)
  <2>1. old \in Seq(Entry) /\ more \in Seq(Entry)
    BY <1>13, <1>15
  <2>2. old \o more \in Seq(Entry) /\ Len(old \o more) = Len(old) + Len(more)
    BY <2>1
  <2> QED BY <1>9, <1>13, <1>15, <2>2
<1>17. /\ \A i \in 1..Len(prev) : i \in 1..Len(next) /\ next[i] = old[i]
       /\ \A k \in 1..Len(new) : Len(prev) + k \in 1..Len(next) /\ next[Len(prev) + k] = more[k]
  <2>1. \A i \in 1..Len(prev) : i \in 1..Len(next) /\ next[i] = old[i]
    BY <1>9, <1>10, <1>13, <1>15, <1>16
  <2>2. ASSUME NEW k \in 1..Len(new) PROVE Len(prev) + k \in 1..Len(next) /\ next[Len(prev) + k] = more[k]
    <3>0. k \in Nat /\ k >= 1 /\ k <= Len(new)
      BY <1>10
    <3>00. PICK n \in Nat : n = Len(prev) /\ n = Len(old) /\ Len(next) = n + Len(new)
      BY <1>10, <1>13, <1>16
    <3>1. PICK i \in Nat : i = Len(prev) + k /\ i \in 1..Len(next) /\ i > Len(old) /\ i - Len(old) = k
      <4>1. n + k \in Nat /\ n + k \in 1..(n + Len(new)) /\ n + k > n /\ (n + k) - n = k
        BY <1>10, <3>0
      <4> QED BY <3>00, <4>1
    <3>2. next[i] = more[i - Len(old)]
      BY <1>9, <1>10, <1>13, <1>15, <1>16, <3>1
    <3> QED BY <3>1, <3>2
  <2> QED BY <2>1, <2>2
<1>18. \A i \in 1..Len(next) : i \in 1..Len(prev) \/ \E k \in 1..Len(new) : i = Len(prev) + k
  <2> TAKE i \in 1..Len(next)
  <2>1. CASE i > Len(prev)
    <3>1. i - Len(prev) \in 1..Len(new) /\ i = Len(prev) + (i - Len(prev))
      BY <1>10, <1>16, <2>1
    <3> QED BY <3>1
  <2> QED BY <1>10, <1>16, <2>1
<1>19. \A i \in 1..Len(next) : next[i].m \in Machines /\ Says(next[i], roster[next[i].m])
  <2> TAKE i \in 1..Len(next)
  <2>1. CASE i \in 1..Len(prev)
    BY <1>10, <1>13, <1>17, <2>1 DEF Entry
  <2>2. ASSUME NEW k \in 1..Len(new), i = Len(prev) + k PROVE next[i].m \in Machines /\ Says(next[i], roster[next[i].m])
    BY <1>14, <1>15, <1>17, <2>2
  <2> QED BY <1>18, <2>1, <2>2
<1>20. \A k, l \in 1..Len(new) : new[k] = new[l] => k = l
  <2>1. \A k, l \in 1..Len(new) : k < l => new[k] # new[l]
    BY <1>1, <1>4, <1>5
  <2> QED BY <1>10, <2>1
<1>21. Distinct(next)
  <2> SUFFICES ASSUME NEW i \in 1..Len(next), NEW j \in 1..Len(next), next[i].m = next[j].m PROVE i = j
    BY DEF Distinct
  <2>1. CASE i \in 1..Len(prev) /\ j \in 1..Len(prev)
    BY <1>13, <1>17, <2>1 DEF Distinct
  <2>2. ASSUME NEW k \in 1..Len(new), i = Len(prev) + k, j \in 1..Len(prev) PROVE FALSE
    BY <1>13, <1>14, <1>15, <1>17, <2>2
  <2>3. ASSUME NEW k \in 1..Len(new), j = Len(prev) + k, i \in 1..Len(prev) PROVE FALSE
    <3>1. next[i].m = prev[i].m /\ next[j].m = new[k]
      BY <1>13, <1>15, <1>17, <2>3
    <3>2. prev[i].m # new[k]
      BY <1>14, <2>3
    <3> QED BY <3>1, <3>2
  <2>4. ASSUME NEW k \in 1..Len(new), NEW l \in 1..Len(new), i = Len(prev) + k, j = Len(prev) + l PROVE i = j
    <3>1. next[i].m = new[k] /\ next[j].m = new[l]
      BY <1>15, <1>17, <2>4
    <3>2. k = l
      BY <1>20, <3>1
    <3> QED BY <2>4, <3>2
  <2> QED BY <1>18, <2>1, <2>2, <2>3, <2>4
<1>22. ASSUME NEW m \in Machines, roster[m] # Off PROVE \E i \in 1..Len(next) : next[i].m = m
  <2>1. CASE \E i \in 1..Len(prev) : prev[i].m = m
    BY <1>13, <1>17, <2>1
  <2>2. CASE \A i \in 1..Len(prev) : prev[i].m # m
    <3>1. PICK p \in Machines : ranks[p] = m
      BY <1>1
    <3>2. p \in Q
      BY <1>3, <1>22, <2>2, <3>1
    <3>3. PICK k \in 1..Len(new) : new[k] = m
      BY <1>5, <3>1, <3>2
    <3> QED BY <1>15, <1>17, <3>3
  <2> QED BY <2>1, <2>2
<1>23. \A m \in Machines : Matches(next, m, roster[m])
  BY <1>19, <1>22 DEF Matches
<1>24. Prolongs(next, prev)
  <2>1. \A e \in Entry : Refreshed(e, roster).lastFrame = e.lastFrame
    BY DEF Refreshed, Entry
  <2>2. \A i \in 1..Len(prev) : old[i] = Refreshed(prev[i], roster)
    BY <1>7
  <2> QED BY <1>10, <1>13, <1>16, <1>17, <2>1, <2>2 DEF Prolongs
<1> QED BY <1>16, <1>21, <1>23, <1>24

Laid == album \in Seq(Entry) /\ Distinct(album) /\ index \in Nat /\ runningOnly \in BOOLEAN /\ OnView

(* An answer is what there was at its time.                                 *)
Arrived == {f \in fetches : f.kind = "roster" /\ f.done}
Dated ==
    /\ shownAt \in Nat /\ shownAt <= events
    /\ \A f \in Arrived : /\ f.at <= events
                          /\ \A m \in Machines : f.answer[m] \in 0..2 /\ (f.at = events => f.answer[m] = pane[m])
Phased ==
    /\ status # "ready" => Machines \subseteq excused /\ ~queued
    /\ status \in {"anon", "not-pro"} => fetches = {}
    /\ status = "loading" => \A f, g \in fetches : f = g
    /\ \A f \in fetches : f.kind \in {"me", "roster"}

(* For what the album can be up to date with: it shows it, and no answer that *)
(* is still to come and is not older says otherwise; or what it takes is on   *)
(* the wire, behind the throttle, in a request, or in an answer after which   *)
(* none says otherwise.                                                     *)
Pictured(m) == Matches(album, m, pane[m])
UpFrom(t, m) == \A f \in Arrived : f.at >= t => f.answer[m] = pane[m]
RosterComes == \E f \in fetches : f.kind = "roster" /\ ~f.done
Knows(m) ==
    \/ Told(m) \/ queued \/ RosterComes
    \/ Pictured(m) /\ UpFrom(shownAt, m)
    \/ \E f \in Arrived : UpFrom(f.at, m)

AlbumInv ==
    /\ StreamInv /\ Laid /\ throttle \in BOOLEAN /\ queued \in BOOLEAN
    /\ Dated /\ Phased /\ \A m \in Machines \ excused : Knows(m)

LEMMA AlbumQuiet ==
    ASSUME AlbumInv, UNCHANGED sharedVars, UNCHANGED <<throttle, queued, shownAt>>, Laid',
           \A m \in Machines : Pictured(m) => Pictured(m)'
    PROVE  AlbumInv'
<1>1. UNCHANGED <<page, rev, there, pane, attn, others, stream, wire, fallback, tried, status, excused, fetches, events>>
  BY DEF sharedVars, serverVars, streamVars, pageVars
<1>2. StreamInv'
  BY <1>1 DEF AlbumInv, StreamInv, StreamTypeOK, Heard, NeverBlind, Counted
<1>3. Arrived' = Arrived
  BY <1>1 DEF Arrived
<1>4. Dated' /\ Phased'
  BY <1>1, <1>3 DEF AlbumInv, Dated, Phased
<1>5. ASSUME NEW m \in Machines \ excused PROVE Knows(m)'
  <2>1. Knows(m)
    BY DEF AlbumInv
  <2>2. (Told(m) => Told(m)') /\ (RosterComes => RosterComes') /\ \A t : UpFrom(t, m) => UpFrom(t, m)'
    BY <1>1, <1>3 DEF Told, RosterComes, UpFrom
  <2>3. (\E f \in Arrived : UpFrom(f.at, m)) => (\E f \in Arrived : UpFrom(f.at, m))'
    BY <1>3, <2>2
  <2>4. UpFrom(shownAt, m) => UpFrom(shownAt, m)'
    BY <1>1, <1>3 DEF UpFrom
  <2> QED BY <2>1, <2>2, <2>3, <2>4 DEF Knows
<1> QED BY <1>1, <1>2, <1>4, <1>5 DEF AlbumInv

(* A roster that is asked for, now or when the throttle ends, is news enough. *)
LEMMA AlbumAsks ==
    ASSUME AlbumInv, StreamInv', status = "ready", events' >= events,
           UNCHANGED <<pane, status, album, index, runningOnly, shownAt, excused>>,
           throttle' \in BOOLEAN, queued' \in BOOLEAN,
           \A f \in fetches' : f \in fetches \/ (f.kind = "roster" /\ ~f.done),
           queued' \/ RosterComes'
    PROVE  AlbumInv'
<1>1. Laid'
  BY DEF AlbumInv, Laid, OnView
<1>2. Arrived' \subseteq Arrived
  BY DEF Arrived
<1>3. events \in Nat /\ events' \in Nat /\ \A f \in Arrived : f.at \in Nat
  <2>1. events' \in 0..MaxEvents
    BY DEF StreamInv, StreamTypeOK
  <2>2. events \in Nat /\ fetches \subseteq Fetch /\ MaxEvents \in Nat
    BY Typed DEF AlbumInv
  <2> QED BY <2>1, <2>2 DEF Arrived, Fetch
<1>4. Dated'
  BY <1>2, <1>3 DEF AlbumInv, Dated
<1>5. Phased'
  BY DEF AlbumInv, Phased
<1>6. \A m : Knows(m)'
  BY DEF Knows
<1> QED BY <1>1, <1>4, <1>5, <1>6 DEF AlbumInv

LEMMA RosterAsked ==
    ASSUME StreamInv, CanSend("roster", 0), fetches' = SendAll(fetches, {<<"roster", 0>>})
    PROVE  /\ fetches' \subseteq Fetch /\ IsFiniteSet(fetches') /\ fetches \subseteq fetches'
           /\ \A f \in fetches' : f \in fetches \/ (f.kind = "roster" /\ ~f.done)
           /\ RosterComes'
<1>1. PICK whats : whats = {<<"roster", 0>>}
  OBVIOUS
<1>2. whats \subseteq Kind \X (0..N) /\ IsFiniteSet(whats) /\ MaySend(whats)
  <2>1. 0 \in 0..N
    BY Typed
  <2>2. IsFiniteSet(whats)
    BY <1>1, FS_Singleton
  <2>3. whats \subseteq Kind \X (0..N)
    BY <1>1, <2>1 DEF Kind
  <2>4. \A w \in whats : w[1] = "roster" /\ w[2] = 0
    BY <1>1
  <2> QED BY <2>2, <2>3, <2>4 DEF MaySend
<1>3. /\ fetches' \subseteq Fetch /\ IsFiniteSet(fetches') /\ fetches \subseteq fetches'
      /\ \A f \in fetches' : f \in fetches \/
           (\E w \in whats : f.kind = w[1] /\ f.m = w[2] /\ ~f.done /\ f.answer = NoAnswer /\ f.at = 0)
      /\ \A w \in whats : \E f \in fetches' : f.kind = w[1] /\ f.m = w[2] /\ ~f.done
  BY <1>1, <1>2, SendsTyped DEF StreamInv, Counted
<1>4. \A w \in whats : w[1] = "roster"
  BY <1>1
<1>5. <<"roster", 0>> \in whats
  BY <1>1
<1>6. RosterComes'
  BY <1>3, <1>4, <1>5 DEF RosterComes
<1> QED BY <1>3, <1>4, <1>6

LEMMA AlbumStep ==
    ASSUME AlbumInv, AlbumNext, UNCHANGED page
    PROVE  AlbumInv'
<1>0. /\ StreamInv /\ pane \in [Machines -> 0..2] /\ events \in Nat /\ events <= MaxEvents
      /\ stream \in {"off", "connecting", "subscribed", "open", "closed"}
      /\ wire \in Seq(Announcement) /\ Len(wire) <= MaxWire /\ fetches \subseteq Fetch
      /\ status \in {"me", "loading", "anon", "not-pro", "ready"} /\ excused \subseteq 0..N
      /\ N \in Nat /\ N > 0 /\ MaxEvents \in Nat
  BY Typed DEF AlbumInv
<1>00. IsFiniteSet(fetches) /\ (\A f \in fetches : f.kind = "me" <=> status = "me") /\ \A f \in fetches : f.at \in Nat
  BY <1>0 DEF StreamInv, Counted, Fetch
<1>01. Machines \subseteq 0..N
  BY <1>0 DEF Machines
<1>1. CASE ServerNext({Off, Active, Thinking}) /\ UNCHANGED albumVars
  <2>1. {Off, Active, Thinking} \subseteq 0..2
    BY DEF Off, Active, Thinking
  <2>2. StreamInv' /\ Spread
    BY <1>0, <1>1, <2>1, ServerStep
  <2>3. UNCHANGED <<album, index, runningOnly, throttle, queued, shownAt, fetches, status>>
    BY <1>1, <2>2 DEF albumVars, Spread
  <2>4. Laid'
    BY <2>3 DEF AlbumInv, Laid, OnView
  <2>5. Arrived' = Arrived
    BY <2>3 DEF Arrived
  <2>6. Dated'
    <3>1. events' \in Nat /\ (events' = events \/ events' = events + 1) /\ \A m \in Machines : pane'[m] # pane[m] => events' = events + 1
      BY <2>2 DEF Spread
    <3>2. ASSUME NEW f \in Arrived, NEW m \in Machines
          PROVE  f.at <= events' /\ f.answer[m] \in 0..2 /\ (f.at = events' => f.answer[m] = pane'[m])
      <4>1. f.at \in Nat /\ f.at <= events /\ f.answer[m] \in 0..2 /\ (f.at = events => f.answer[m] = pane[m])
        BY <1>00 DEF AlbumInv, Dated, Arrived
      <4> QED BY <1>0, <3>1, <4>1
    <3>3. 1 \in Machines
      BY <1>0 DEF Machines
    <3>4. shownAt' \in Nat /\ shownAt' <= events'
      BY <1>0, <2>3, <3>1 DEF AlbumInv, Dated
    <3> QED BY <2>5, <3>2, <3>3, <3>4 DEF Dated
  <2>7. Phased'
    <3>1. status # "ready" => Machines \subseteq excused'
      BY <1>0, <2>2 DEF AlbumInv, Phased, StreamInv, Heard, Spread
    <3> QED BY <2>3, <3>1 DEF AlbumInv, Phased
  <2>8. ASSUME NEW m \in Machines \ excused' PROVE Knows(m)'
    <3>1. CASE Told(m)'
      BY <3>1 DEF Knows
    <3>2. CASE m \notin excused /\ ~Told(m) /\ pane'[m] = pane[m]
      <4>1. Knows(m)
        BY <3>2 DEF AlbumInv
      <4>2. (Pictured(m) => Pictured(m)') /\ (RosterComes => RosterComes')
        BY <2>3, <3>2 DEF Pictured, RosterComes
      <4>3. \A t : UpFrom(t, m) => UpFrom(t, m)'
        BY <2>5, <3>2 DEF UpFrom
      <4>4. UpFrom(shownAt, m) => UpFrom(shownAt, m)'
        BY <2>3, <2>5, <3>2 DEF UpFrom
      <4>5. (\E f \in Arrived : UpFrom(f.at, m)) => (\E f \in Arrived : UpFrom(f.at, m))'
        BY <2>5, <4>3
      <4> QED BY <2>3, <3>2, <4>1, <4>2, <4>4, <4>5 DEF Knows
    <3> QED BY <2>2, <2>8, <3>1, <3>2 DEF Spread
  <2> QED BY <2>2, <2>3, <2>4, <2>6, <2>7, <2>8 DEF AlbumInv
<1>2. ASSUME NEW f \in fetches, Handle(f), UNCHANGED albumVars PROVE AlbumInv'
  <2>1. /\ StreamInv'
        /\ UNCHANGED <<rev, there, pane, attn, others, stream, wire, fallback, tried, status, excused, events>>
    BY <1>0, <1>2, Answers
  <2>2. PICK g \in Fetch :
           /\ fetches' = (fetches \ {f}) \cup {g}
           /\ g.kind = f.kind /\ g.m = f.m /\ g.done
           /\ f.kind = "roster" => g.at = events
           /\ \A m \in Machines : f.kind = "roster" => g.answer[m] = pane[m]
    BY <1>0, <1>2, Answers
  <2>3. UNCHANGED <<album, index, runningOnly, throttle, queued, shownAt>>
    BY <1>2 DEF albumVars
  <2>4. Laid'
    BY <2>3 DEF AlbumInv, Laid, OnView
  <2>5. /\ \A k \in Arrived : k \in Arrived'
        /\ \A k \in Arrived' : k \in Arrived \/ (k = g /\ f.kind = "roster")
    <3>1. ~f.done
      BY <1>2 DEF Handle
    <3> QED BY <2>2, <3>1 DEF Arrived
  <2>6. Dated'
    BY <1>0, <2>1, <2>2, <2>3, <2>5 DEF AlbumInv, Dated
  <2>7. Phased'
    <3>1. status # "ready" => Machines \subseteq excused /\ ~queued'
      BY <2>1, <2>3 DEF AlbumInv, Phased
    <3>2. status \in {"anon", "not-pro"} => FALSE
      BY <1>2 DEF AlbumInv, Phased
    <3>3. status = "loading" => \A h, k \in fetches' : h = k
      BY <1>2, <2>2 DEF AlbumInv, Phased
    <3>4. \A h \in fetches' : h.kind \in {"me", "roster"}
      BY <1>2, <2>2 DEF AlbumInv, Phased
    <3> QED BY <2>1, <3>1, <3>2, <3>3, <3>4 DEF Phased
  <2>8. \A t : \A m \in Machines : UpFrom(t, m) => UpFrom(t, m)'
    BY <2>1, <2>2, <2>5 DEF UpFrom
  <2>9. ASSUME NEW m \in Machines \ excused' PROVE Knows(m)'
    <3>1. Knows(m)
      BY <2>1, <2>9 DEF AlbumInv
    <3>2. CASE RosterComes
      <4>1. CASE RosterComes'
        BY <4>1 DEF Knows
      <4>2. CASE ~RosterComes'
        <5>1. f.kind = "roster"
          BY <2>2, <3>2, <4>2 DEF RosterComes
        <5>2. g \in Arrived'
          BY <2>2, <5>1 DEF Arrived
        <5>3. UpFrom(g.at, m)'
          <6> SUFFICES ASSUME NEW k \in Arrived', k.at >= events PROVE k.answer[m] = pane[m]
            BY <2>1, <2>2, <5>1 DEF UpFrom
          <6>1. CASE k = g
            BY <2>2, <5>1, <6>1
          <6>2. CASE k \in Arrived
            <7>1. k.at \in Nat /\ k.at <= events
              BY <1>00, <6>2 DEF AlbumInv, Dated, Arrived
            <7>2. k.at = events
              BY <1>0, <7>1
            <7> QED BY <6>2, <7>2 DEF AlbumInv, Dated
          <6> QED BY <2>5, <6>1, <6>2
        <5> QED BY <5>2, <5>3 DEF Knows
      <4> QED BY <4>1, <4>2
    <3>3. CASE Told(m) \/ queued
      BY <2>1, <2>3, <3>3 DEF Knows, Told
    <3>4. CASE Pictured(m) /\ UpFrom(shownAt, m)
      <4>1. Pictured(m)'
        BY <2>1, <2>3, <3>4 DEF Pictured
      <4>2. UpFrom(shownAt, m)'
        BY <2>1, <2>2, <2>3, <2>5, <3>4 DEF UpFrom
      <4> QED BY <4>1, <4>2 DEF Knows
    <3>5. CASE \E k \in Arrived : UpFrom(k.at, m)
      BY <2>5, <2>8, <3>5 DEF Knows
    <3> QED BY <3>1, <3>2, <3>3, <3>4, <3>5 DEF Knows
  <2> QED BY <2>1, <2>3, <2>4, <2>6, <2>7, <2>9 DEF AlbumInv
<1>3. ASSUME NEW f \in fetches, NEW ok \in BOOLEAN, AlbumMe(f, ok) PROVE AlbumInv'
  <2>1. status = "me" /\ 0..N \subseteq excused /\ stream = "off" /\ tried = FALSE
    BY <1>0, <1>00, <1>3 DEF AlbumMe, StreamInv, Counted, Heard, StreamTypeOK
  <2>2. UNCHANGED <<rev, there, pane, attn, others, wire, fallback, tried, excused, events, album, index, runningOnly, throttle, queued, shownAt>>
    BY <1>3 DEF AlbumMe, serverVars, albumVars
  <2>3. CanSend("roster", 0)
    <3>1. {f2 \in fetches : f2.kind = "roster" /\ f2.m = 0} = {}
      BY <1>00, <2>1
    <3>2. MaxFetches \in Nat /\ MaxFetches > 0
      BY StreamAssumption
    <3> QED BY <3>1, <3>2, FS_EmptySet DEF CanSend
  <2>4. "roster" \in Kind /\ 0 \in 0..N
    BY <1>0 DEF Kind
  <2>5. PICK k \in Fetch : k = New("roster", 0) /\ k.kind = "roster" /\ ~k.done
    BY <1>0, <1>00, <2>3, <2>4, NewTyped DEF StreamInv
  <2>6. \/ status' = "loading" /\ fetches' = {k}
        \/ status' \in {"anon", "ready"} /\ fetches' = {}
    BY <1>3, <2>5 DEF AlbumMe
  <2>7. (status' = "ready" => stream' = "connecting") /\ (status' # "ready" => stream' = "off")
    BY <1>3, <2>1 DEF AlbumMe
  <2>8. Heard'
    BY <2>1, <2>2, <2>7 DEF Heard, NeverBlind
  <2>9. StreamInv'
    <3>1. IsFiniteSet(fetches') /\ fetches' \subseteq Fetch /\ \A f2 \in fetches' : f2.kind = "roster" /\ ~f2.done
      <4>1. CASE fetches' = {k}
        BY <2>5, <4>1, FS_Singleton
      <4>2. CASE fetches' = {}
        BY <4>2, FS_EmptySet
      <4> QED BY <2>6, <4>1, <4>2
    <3>2. \A f2 \in fetches' : f2.kind = "me" <=> status' = "me"
      BY <2>6, <3>1
    <3>3. status' \in {"loading", "anon", "not-pro", "ready"} /\ stream' \in {"off", "connecting", "subscribed", "open", "closed"}
      BY <2>6, <2>7
    <3> QED BY <1>0, <2>2, <2>8, <3>1, <3>2, <3>3, PageStep
  <2>10. Laid'
    BY <2>2 DEF AlbumInv, Laid, OnView
  <2>11. Dated'
    BY <2>2, <2>5, <2>6 DEF AlbumInv, Dated, Arrived
  <2>12. Phased'
    <3>1. ~queued'
      BY <2>1, <2>2 DEF AlbumInv, Phased
    <3> QED BY <1>01, <2>1, <2>2, <2>5, <2>6, <3>1 DEF Phased
  <2>13. \A m \in Machines : m \in excused'
    BY <1>01, <2>1, <2>2
  <2> QED BY <2>2, <2>9, <2>10, <2>11, <2>12, <2>13 DEF AlbumInv
<1>4. ASSUME NEW f \in fetches, f.kind = "roster", fetches' = fetches \ {f}
      PROVE  /\ status \in {"loading", "ready"} /\ fetches' \subseteq Fetch /\ IsFiniteSet(fetches')
             /\ (\A k \in fetches' : k.kind = "me" <=> status = "me") /\ (\A k \in fetches' : k.kind = "roster")
             /\ (status = "loading" => fetches' = {})
             /\ \A k \in fetches : k \in fetches' \/ k = f
  <2>1. IsFiniteSet(fetches')
    BY <1>00, <1>4, FS_RemoveElement
  <2>2. status # "me" /\ status \notin {"anon", "not-pro"}
    BY <1>00, <1>4 DEF AlbumInv, Phased
  <2>3. \A k \in fetches : k.kind = "roster"
    BY <1>00, <2>2 DEF AlbumInv, Phased
  <2>4. status = "loading" => fetches' = {}
    BY <1>4 DEF AlbumInv, Phased
  <2> QED BY <1>0, <1>00, <1>4, <2>1, <2>2, <2>3, <2>4
<1>5. ASSUME NEW f \in fetches, NEW pro \in BOOLEAN, RosterArrives(f, pro) PROVE AlbumInv'
  <2>1. /\ f.kind = "roster" /\ f.done /\ fetches' = fetches \ {f}
        /\ UNCHANGED <<rev, there, pane, attn, others, events>>
    BY <1>5 DEF RosterArrives, serverVars
  <2>2. /\ status \in {"loading", "ready"} /\ fetches' \subseteq Fetch /\ IsFiniteSet(fetches')
        /\ (\A k \in fetches' : k.kind = "me" <=> status = "me") /\ (\A k \in fetches' : k.kind = "roster")
        /\ (status = "loading" => fetches' = {})
        /\ \A k \in fetches : k \in fetches' \/ k = f
    BY <1>4, <2>1
  <2>3. CASE status = "loading" /\ ~pro
    <3>1. /\ status' = "not-pro" /\ fetches' = {}
          /\ UNCHANGED <<stream, wire, fallback, tried, excused, album, index, runningOnly, throttle, queued, shownAt>>
      BY <1>5, <2>2, <2>3 DEF RosterArrives, streamVars, albumVars
    <3>2. Heard'
      BY <1>0, <2>3, <3>1 DEF StreamInv, Heard, NeverBlind
    <3>3. StreamInv'
      BY <1>0, <2>1, <2>2, <3>1, <3>2, PageStep
    <3>4. Laid' /\ Dated'
      BY <2>1, <3>1 DEF AlbumInv, Laid, OnView, Dated, Arrived
    <3>5. Phased' /\ Machines \subseteq excused'
      BY <2>3, <3>1 DEF AlbumInv, Phased
    <3> QED BY <3>1, <3>3, <3>4, <3>5 DEF AlbumInv
  <2>4. CASE ~(status = "loading" /\ ~pro)
    <3>1. PICK ranks \in Orders : Show(reconcileAlbum(album, f.answer, ranks), runningOnly)
      BY <1>5, <2>4 DEF RosterArrives
    <3>2. /\ shownAt' = f.at /\ status' = "ready"
          /\ excused' = CASE f.at < shownAt -> excused \cup Machines
                          [] f.at = events -> excused \ Machines
                          [] OTHER -> excused
          /\ stream' = IF status = "loading" THEN "connecting" ELSE stream
          /\ UNCHANGED <<wire, fallback, tried, throttle, queued>>
      BY <1>5, <2>4 DEF RosterArrives
    <3>3. f \in Arrived /\ f.at \in Nat /\ shownAt \in Nat /\ f.at <= events /\ \A m \in Machines : f.answer[m] \in 0..2
      BY <1>00, <2>1 DEF AlbumInv, Dated, Arrived
    <3>4. PICK next : next = reconcileAlbum(album, f.answer, ranks)
      OBVIOUS
    <3>5. next \in Seq(Entry) /\ Distinct(next) /\ \A m \in Machines : Matches(next, m, f.answer[m])
      BY <3>3, <3>4, Reconciled DEF AlbumInv, Laid
    <3>6. Show(next, runningOnly)
      BY <3>1, <3>4
    <3>7. album' = next /\ Laid'
      <4>1. album' = next
        BY <3>6 DEF Show
      <4>2. runningOnly' \in BOOLEAN /\ index' \in Nat /\ OnView'
        BY <3>5, <3>6, ShowStep DEF AlbumInv, Laid
      <4> QED BY <3>5, <4>1, <4>2 DEF Laid
    <3>8. Heard'
      BY <1>0, <2>2, <3>2 DEF StreamInv, Heard, NeverBlind
    <3>9. StreamInv'
      <4>1. excused' \subseteq 0..N
        BY <1>0, <1>01, <3>2
      <4>2. \A k \in fetches' : k.kind = "me" <=> status' = "me"
        BY <2>2, <3>2
      <4>3. stream' \in {"off", "connecting", "subscribed", "open", "closed"}
        BY <1>0, <3>2
      <4> QED BY <1>0, <2>1, <2>2, <3>2, <3>8, <4>1, <4>2, <4>3, PageStep
    <3>10. Arrived' \subseteq Arrived /\ \A k \in Arrived : k \in Arrived' \/ k = f
      BY <2>1 DEF Arrived
    <3>11. Dated'
      BY <2>1, <3>2, <3>3, <3>10 DEF AlbumInv, Dated
    <3>12. Phased'
      BY <2>2, <3>2 DEF Phased
    <3>13. \A t : \A m \in Machines : UpFrom(t, m) => UpFrom(t, m)'
      BY <2>1, <3>10 DEF UpFrom
    <3>14. \A m \in Machines : f.answer[m] = pane[m] => Pictured(m)'
      BY <2>1, <3>5, <3>7 DEF Pictured
    <3>15. ASSUME NEW m \in Machines \ excused' PROVE Knows(m)'
      <4>1. ~(f.at < shownAt)
        <5>1. f.at < shownAt => excused' = excused \cup Machines
          <6>1. f.at < shownAt => f.at # events
            BY <1>0, <3>3 DEF AlbumInv, Dated
          <6> QED BY <3>2, <6>1
        <5>2. m \in Machines /\ m \notin excused'
          BY <3>15
        <5>3. m \in excused \cup Machines
          BY <5>2
        <5> QED BY <5>1, <5>2, <5>3
      <4>2. ASSUME f.answer[m] = pane[m], UpFrom(f.at, m) PROVE Knows(m)'
        BY <3>2, <3>13, <3>14, <4>2 DEF Knows
      <4>3. CASE f.at = events
        <5>1. f.answer[m] = pane[m]
          BY <3>3, <4>3 DEF AlbumInv, Dated
        <5>2. UpFrom(f.at, m)
          <6> SUFFICES ASSUME NEW k \in Arrived, k.at >= events PROVE k.answer[m] = pane[m]
            BY <4>3 DEF UpFrom
          <6>1. k.at \in Nat /\ k.at <= events
            BY <1>00 DEF AlbumInv, Dated, Arrived
          <6>2. k.at = events
            BY <1>0, <6>1
          <6> QED BY <6>2 DEF AlbumInv, Dated
        <5> QED BY <4>2, <5>1, <5>2
      <4>4. CASE f.at # events
        <5>1. m \notin excused
          BY <3>2, <3>15, <4>1, <4>4
        <5>2. Knows(m)
          BY <5>1 DEF AlbumInv
        <5>3. CASE Told(m) \/ queued
          BY <3>2, <5>3 DEF Knows, Told
        <5>4. CASE RosterComes
          <6>1. RosterComes'
            BY <2>1, <5>4 DEF RosterComes
          <6> QED BY <6>1 DEF Knows
        <5>5. CASE Pictured(m) /\ UpFrom(shownAt, m)
          <6>1. f.answer[m] = pane[m]
            BY <3>3, <4>1, <5>5 DEF UpFrom
          <6>2. UpFrom(f.at, m)
            <7> SUFFICES ASSUME NEW k \in Arrived, k.at >= f.at PROVE k.answer[m] = pane[m]
              BY DEF UpFrom
            <7>1. k.at \in Nat
              BY <1>00 DEF Arrived
            <7>2. k.at >= shownAt
              BY <3>3, <4>1, <7>1
            <7> QED BY <5>5, <7>2 DEF UpFrom
          <6> QED BY <4>2, <6>1, <6>2
        <5>6. ASSUME NEW k \in Arrived, UpFrom(k.at, m) PROVE Knows(m)'
          <6>0. k.at \in Nat
            BY <1>00 DEF Arrived
          <6>1. CASE f.at >= k.at
            <7>1. f.answer[m] = pane[m]
              BY <3>3, <5>6, <6>1 DEF UpFrom
            <7>2. UpFrom(f.at, m)
              <8> SUFFICES ASSUME NEW j \in Arrived, j.at >= f.at PROVE j.answer[m] = pane[m]
                BY DEF UpFrom
              <8>1. j.at \in Nat
                BY <1>00 DEF Arrived
              <8>2. j.at >= k.at
                BY <3>3, <6>0, <6>1, <8>1
              <8> QED BY <5>6, <8>2 DEF UpFrom
            <7> QED BY <4>2, <7>1, <7>2
          <6>2. CASE ~(f.at >= k.at)
            <7>1. k # f
              BY <3>3, <6>2
            <7>2. k \in Arrived' /\ UpFrom(k.at, m)'
              BY <3>10, <3>13, <5>6, <7>1
            <7> QED BY <7>2 DEF Knows
          <6> QED BY <6>1, <6>2
        <5> QED BY <5>2, <5>3, <5>4, <5>5, <5>6 DEF Knows
      <4> QED BY <4>3, <4>4
    <3> QED BY <3>2, <3>7, <3>9, <3>11, <3>12, <3>15 DEF AlbumInv
  <2> QED BY <2>3, <2>4
<1>6. ASSUME NEW f \in fetches, RosterFails(f) PROVE AlbumInv'
  <2>1. /\ f.kind = "roster" /\ fetches' = fetches \ {f} /\ events' = events + 1 /\ events < MaxEvents
        /\ excused' = excused \cup Machines /\ status' = "ready"
        /\ stream' = IF status = "loading" THEN "connecting" ELSE stream
        /\ UNCHANGED <<rev, there, pane, attn, others, wire, fallback, tried, album, index, runningOnly, throttle, queued, shownAt>>
    BY <1>6 DEF RosterFails, Event, serverVars, albumVars
  <2>2. /\ status \in {"loading", "ready"} /\ fetches' \subseteq Fetch /\ IsFiniteSet(fetches')
        /\ (\A k \in fetches' : k.kind = "me" <=> status = "me") /\ (\A k \in fetches' : k.kind = "roster")
    BY <1>4, <2>1
  <2>3. Heard'
    BY <1>0, <2>1, <2>2 DEF StreamInv, Heard, NeverBlind
  <2>4. StreamInv'
    <3>1. excused' \subseteq 0..N /\ events' \in Nat /\ events' <= MaxEvents /\ events' >= events
      BY <1>0, <1>01, <2>1
    <3>2. \A k \in fetches' : k.kind = "me" <=> status' = "me"
      BY <2>1, <2>2
    <3>3. stream' \in {"off", "connecting", "subscribed", "open", "closed"}
      BY <1>0, <2>1
    <3> QED BY <1>0, <2>1, <2>2, <2>3, <3>1, <3>2, <3>3, PageStep
  <2>5. Laid'
    BY <2>1 DEF AlbumInv, Laid, OnView
  <2>6. Dated'
    <3>1. Arrived' \subseteq Arrived
      BY <2>1 DEF Arrived
    <3>2. \A k \in Arrived : k.at \in Nat
      BY <1>00 DEF Arrived
    <3> QED BY <1>0, <2>1, <3>1, <3>2 DEF AlbumInv, Dated
  <2>7. Phased'
    BY <2>1, <2>2 DEF Phased
  <2> QED BY <2>1, <2>4, <2>5, <2>6, <2>7 DEF AlbumInv
<1>7. CASE Ping
  <2>1. /\ status = "ready" /\ stream = "open" /\ wire # <<>> /\ wire' = Tail(wire) /\ Fire
        /\ UNCHANGED <<rev, there, pane, attn, others, stream, fallback, tried, status, excused, album, index, runningOnly, shownAt, events>>
    BY <1>7 DEF Ping, serverVars, pageVars
  <2>2. wire' \in Seq(Announcement) /\ Len(wire') <= MaxWire
    BY <1>0, <2>1, Popped
  <2>3. /\ fetches' \subseteq Fetch /\ IsFiniteSet(fetches') /\ throttle' \in BOOLEAN /\ queued' \in BOOLEAN
        /\ (\A f \in fetches' : f \in fetches \/ (f.kind = "roster" /\ ~f.done))
        /\ (queued' \/ RosterComes')
    <3>1. CASE throttle
      BY <1>0, <1>00, <2>1, <3>1 DEF Fire, Queues, AlbumInv
    <3>2. CASE ~throttle
      BY <1>0, <2>1, <3>2, RosterAsked DEF Fire, AlbumInv
    <3> QED BY <3>1, <3>2
  <2>4. StreamInv'
    <3>1. Heard'
      BY <1>0, <2>1 DEF StreamInv, Heard, NeverBlind
    <3>2. \A k \in fetches' : k.kind = "me" <=> status' = "me"
      BY <1>00, <2>1, <2>3
    <3> QED BY <1>0, <2>1, <2>2, <2>3, <3>1, <3>2, PageStep
  <2>5. events' >= events
    BY <1>0, <2>1
  <2> QED BY <2>1, <2>3, <2>4, <2>5, AlbumAsks
<1>8. CASE ThrottleEnds
  <2>1. /\ throttle
        /\ UNCHANGED <<rev, there, pane, attn, others, stream, wire, fallback, tried, status, excused, album, index, runningOnly, shownAt, events>>
    BY <1>8 DEF ThrottleEnds, serverVars, streamVars, pageVars
  <2>2. CASE queued /\ status = "ready"
    <3>1. /\ CanSend("roster", 0) /\ fetches' = SendAll(fetches, {<<"roster", 0>>}) /\ queued' = FALSE /\ UNCHANGED throttle
      BY <1>8, <2>2 DEF ThrottleEnds
    <3>2. /\ fetches' \subseteq Fetch /\ IsFiniteSet(fetches')
          /\ (\A f \in fetches' : f \in fetches \/ (f.kind = "roster" /\ ~f.done)) /\ RosterComes'
      BY <1>0, <3>1, RosterAsked
    <3>3. StreamInv'
      <4>1. Heard'
        BY <1>0, <2>1 DEF StreamInv, Heard, NeverBlind
      <4>2. \A k \in fetches' : k.kind = "me" <=> status' = "me"
        BY <1>00, <2>1, <2>2, <3>2
      <4> QED BY <1>0, <2>1, <2>2, <3>2, <4>1, <4>2, PageStep
    <3>4. events' >= events
      BY <1>0, <2>1
    <3>5. throttle' \in BOOLEAN /\ queued' \in BOOLEAN
      BY <3>1, Zenon DEF AlbumInv
    <3> QED BY <2>1, <2>2, <3>2, <3>3, <3>4, <3>5, AlbumAsks
  <2>3. CASE ~queued
    <3>1. throttle' = FALSE /\ UNCHANGED <<queued, fetches>>
      BY <1>8, <2>3 DEF ThrottleEnds
    <3>2. StreamInv'
      BY <2>1, <3>1 DEF AlbumInv, StreamInv, StreamTypeOK, Heard, NeverBlind, Counted
    <3>3. Laid' /\ Dated' /\ Phased'
      BY <2>1, <3>1 DEF AlbumInv, Laid, OnView, Dated, Phased, Arrived
    <3>4. ASSUME NEW m \in Machines \ excused' PROVE Knows(m)'
      <4>1. Knows(m)
        BY <2>1, <3>4 DEF AlbumInv
      <4> QED BY <2>1, <3>1, <4>1 DEF Knows, Told, RosterComes, Pictured, UpFrom, Arrived
    <3> QED BY <2>1, <3>1, <3>2, <3>3, <3>4 DEF AlbumInv
  <2>4. queued => status = "ready"
    BY DEF AlbumInv, Phased
  <2> QED BY <2>2, <2>3, <2>4
<1>9. CASE AlbumPoll
  <2>1. /\ status = "ready" /\ CanSend("roster", 0) /\ events' = events + 1 /\ events < MaxEvents
        /\ fetches' = SendAll(fetches, {<<"roster", 0>>})
        /\ UNCHANGED <<rev, there, pane, attn, others, stream, wire, fallback, tried, status, excused, album, index, runningOnly, throttle, queued, shownAt>>
    BY <1>9 DEF AlbumPoll, Event, serverVars, streamVars, pageVars, albumVars
  <2>2. /\ fetches' \subseteq Fetch /\ IsFiniteSet(fetches')
        /\ (\A f \in fetches' : f \in fetches \/ (f.kind = "roster" /\ ~f.done)) /\ RosterComes'
    BY <1>0, <2>1, RosterAsked
  <2>3. events' \in Nat /\ events' <= MaxEvents /\ events' >= events
    BY <1>0, <2>1
  <2>4. StreamInv'
    <3>1. Heard'
      BY <1>0, <2>1 DEF StreamInv, Heard, NeverBlind
    <3>2. \A k \in fetches' : k.kind = "me" <=> status' = "me"
      BY <1>00, <2>1, <2>2
    <3> QED BY <1>0, <2>1, <2>2, <2>3, <3>1, <3>2, PageStep
  <2>5. throttle' \in BOOLEAN /\ queued' \in BOOLEAN
    BY <2>1 DEF AlbumInv
  <2> QED BY <2>1, <2>2, <2>3, <2>4, <2>5, AlbumAsks
<1>10. CASE Flip
  <2>1. PICK n \in Nat : n = Len(Visible(album, runningOnly))
    BY VisibleLength DEF AlbumInv, Laid
  <2>2. index' \in 0..(n - 1) /\ UNCHANGED sharedVars /\ UNCHANGED <<album, runningOnly, throttle, queued, shownAt>>
    BY <1>10, <2>1 DEF Flip
  <2>3. index' \in Nat /\ index' < n
    BY <2>2
  <2>4. Len(Visible(album', runningOnly')) = n
    BY <2>1, <2>2
  <2>5. OnView'
    BY <2>3, <2>4 DEF OnView
  <2>6. Laid'
    BY <2>2, <2>3, <2>5 DEF AlbumInv, Laid
  <2>7. UNCHANGED pane
    BY <2>2 DEF sharedVars, serverVars
  <2>8. \A m \in Machines : Pictured(m) => Pictured(m)'
    BY <2>2, <2>7 DEF Pictured
  <2> QED BY <2>2, <2>6, <2>8, AlbumQuiet
<1>11. CASE ToggleRunning
  <2>1. Show(album, ~runningOnly) /\ UNCHANGED sharedVars /\ UNCHANGED <<throttle, queued, shownAt>>
    BY <1>11 DEF ToggleRunning
  <2>2. (~runningOnly) \in BOOLEAN /\ album \in Seq(Entry) /\ index \in Nat /\ Distinct(album)
    BY DEF AlbumInv, Laid
  <2>3. album' = album
    BY <2>1 DEF Show
  <2>4. Laid'
    <3>1. runningOnly' \in BOOLEAN /\ index' \in Nat /\ OnView'
      BY <2>1, <2>2, ShowStep
    <3> QED BY <2>2, <2>3, <3>1 DEF Laid
  <2>7. UNCHANGED pane
    BY <2>1 DEF sharedVars, serverVars
  <2>8. \A m \in Machines : Pictured(m) => Pictured(m)'
    BY <2>3, <2>7 DEF Pictured
  <2> QED BY <2>1, <2>4, <2>8, AlbumQuiet
<1>12. CASE ClearCompleted
  <2>1. Show(clearCompleted(album), runningOnly) /\ UNCHANGED sharedVars /\ UNCHANGED <<throttle, queued, shownAt>>
    BY <1>12 DEF ClearCompleted
  <2>2. runningOnly \in BOOLEAN /\ album \in Seq(Entry) /\ index \in Nat /\ Distinct(album)
    BY DEF AlbumInv, Laid
  <2>3. PICK P : P = {i \in 1..Len(album) : ~album[i].completed}
    OBVIOUS
  <2>4. P \subseteq 1..Len(album)
    BY <2>3
  <2>5. PICK rest : rest = At(album, P)
    OBVIOUS
  <2>6. rest \in Seq(Entry) /\ Keeps(rest, album, P)
    <3>1. Len(album) \in Nat /\ \A i \in 1..Len(album) : album[i] \in Entry
      BY <2>2
    <3>2. Keeps(At(album, P), album, P) /\ \A S : (\A i \in 1..Len(album) : album[i] \in S) => At(album, P) \in Seq(S)
      BY <2>4, <3>1, Filtered, Zenon
    <3> QED BY <2>5, <3>1, <3>2
  <2>7. Distinct(rest)
    BY <2>2, <2>4, <2>5, FilteredDistinct
  <2>8. rest = clearCompleted(album)
    BY <2>3, <2>5 DEF clearCompleted
  <2>9. album' = rest
    BY <2>1, <2>8 DEF Show
  <2>10. Laid'
    <3>1. runningOnly' \in BOOLEAN /\ index' \in Nat /\ OnView'
      BY <2>1, <2>2, <2>6, <2>8, ShowStep
    <3> QED BY <2>6, <2>7, <2>9, <3>1 DEF Laid
  <2>11. UNCHANGED pane
    BY <2>1 DEF sharedVars, serverVars
  <2>12. ASSUME NEW m \in Machines, Pictured(m) PROVE Pictured(m)'
    <3>1. Matches(album, m, pane[m])
      BY <2>12 DEF Pictured
    <3>2. \A k \in 1..Len(rest) : \E i \in 1..Len(album) : rest[k] = album[i]
      BY <2>4, <2>6 DEF Keeps
    <3>3. pane[m] # Off => \E k \in 1..Len(rest) : rest[k].m = m
      <4> SUFFICES ASSUME pane[m] # Off PROVE \E k \in 1..Len(rest) : rest[k].m = m
        OBVIOUS
      <4>1. PICK i \in 1..Len(album) : album[i].m = m
        BY <3>1 DEF Matches
      <4>2. ~album[i].completed
        BY <3>1, <4>1 DEF Matches, Says
      <4>3. i \in P
        BY <2>3, <4>2
      <4> QED BY <2>6, <4>1, <4>3 DEF Keeps
    <3>4. Matches(rest, m, pane[m])
      BY <3>1, <3>2, <3>3 DEF Matches
    <3> QED BY <2>9, <2>11, <3>4 DEF Pictured
  <2> QED BY <2>1, <2>10, <2>12, AlbumQuiet
<1>13. CASE onFrame
  <2>1. PICK x : album' = [i \in 1..Len(album) |-> IF album[i].m = x THEN [album[i] EXCEPT !.lastFrame = TRUE] ELSE album[i]]
    BY <1>13 DEF onFrame
  <2>2. UNCHANGED sharedVars /\ UNCHANGED <<index, runningOnly, throttle, queued, shownAt>>
    BY <1>13 DEF onFrame
  <2>3. runningOnly \in BOOLEAN /\ album \in Seq(Entry) /\ index \in Nat /\ Distinct(album) /\ OnView
    BY DEF AlbumInv, Laid
  <2>4. Len(album) \in Nat /\ \A i \in 1..Len(album) : album[i] \in Entry
    BY <2>3
  <2>5. \A e \in Entry : LET e2 == [e EXCEPT !.lastFrame = TRUE]
                         IN  e2 \in Entry /\ e2.m = e.m /\ e2.completed = e.completed /\ e2.thinking = e.thinking
    BY DEF Entry
  <2>6. \A i \in 1..Len(album) : /\ album'[i] \in Entry /\ album'[i].m = album[i].m
                                 /\ album'[i].completed = album[i].completed /\ album'[i].thinking = album[i].thinking
    BY <2>1, <2>4, <2>5
  <2>7. album' \in Seq(Entry) /\ Len(album') = Len(album)
    <3>1. album' \in [1..Len(album) -> Entry]
      BY <2>1, <2>6
    <3> QED BY <2>4, <3>1
  <2>8. Distinct(album')
    BY <2>3, <2>6, <2>7 DEF Distinct
  <2>9. Running(album') = Running(album)
    BY <2>6, <2>7 DEF Running
  <2>10. Len(Visible(album', runningOnly')) = Len(Visible(album, runningOnly))
    <3>1. Len(Visible(album, runningOnly)) = IF runningOnly THEN Cardinality(Running(album)) ELSE Len(album)
      BY <2>3, VisibleLength
    <3>2. Len(Visible(album', runningOnly)) = IF runningOnly THEN Cardinality(Running(album')) ELSE Len(album')
      BY <2>7, VisibleLength
    <3> QED BY <2>2, <2>7, <2>9, <3>1, <3>2
  <2>11. Laid'
    BY <2>2, <2>3, <2>7, <2>8, <2>10 DEF Laid, OnView
  <2>12. UNCHANGED pane
    BY <2>2 DEF sharedVars, serverVars
  <2>13. \A m \in Machines : Pictured(m) => Pictured(m)'
    BY <2>6, <2>7, <2>12 DEF Pictured, Matches, Says
  <2> QED BY <2>2, <2>11, <2>13, AlbumQuiet
<1> QED BY <1>1, <1>2, <1>3, <1>5, <1>6, <1>7, <1>8, <1>9, <1>10, <1>11, <1>12, <1>13 DEF AlbumNext

(* An album that goes on with all its photos keeps them where they are.       *)
LEMMA AllStay ==
    ASSUME album \in Seq(Entry), Len(album') \in Nat, Len(album) <= Len(album'),
           \A i \in 1..Len(album) : album'[i].m = album[i].m /\ (album[i].lastFrame => album'[i].lastFrame)
    PROVE  PhotosKept
<1>1. PICK n \in Nat : n = Len(album)
  OBVIOUS
<1> DEFINE stays(e) == \E i \in 1..Len(album') : album'[i].m = e.m
<1>2. \A i \in 1..n : i \in 1..Len(album') /\ stays(album[i])
  BY <1>1
<1>3. {i \in 1..Len(album) : stays(album[i])} = 1..n
  BY <1>1, <1>2
<1>4. PICK kept : kept = At(album, 1..n)
  OBVIOUS
<1>5. kept = [k \in 1..n |-> album[k]]
  BY <1>1, <1>4, Whole DEF At
<1>6. kept \in Seq(Entry) /\ Len(kept) = n /\ \A k \in 1..n : kept[k] = album[k]
  <2>1. kept \in [1..n -> Entry]
    BY <1>1, <1>5
  <2> QED BY <1>1, <1>5, <2>1
<1>7. \A i \in 1..Len(kept) : album'[i].m = kept[i].m /\ (kept[i].lastFrame => album'[i].lastFrame)
  BY <1>1, <1>6
<1>8. \A i \in 1..Len(album) : stays(album[i])
  BY <1>1, <1>2
<1> HIDE DEF stays
<1>9. At(album, {i \in 1..Len(album) : stays(album[i])}) = kept
  BY <1>3, <1>4
<1>10. /\ \A i \in 1..Len(At(album, {j \in 1..Len(album) : stays(album[j])})) :
             /\ album'[i].m = At(album, {j \in 1..Len(album) : stays(album[j])})[i].m
             /\ At(album, {j \in 1..Len(album) : stays(album[j])})[i].lastFrame => album'[i].lastFrame
       /\ \A i \in 1..Len(album) : ~stays(album[i]) => album[i].completed /\ fetches' = fetches
  BY <1>7, <1>8, <1>9
<1> QED BY <1>10, Zenon DEF PhotosKept, stays

(* What is cleared has completed, and the rest closes up.                     *)
LEMMA ClearedStay ==
    ASSUME album \in Seq(Entry), Distinct(album), fetches' = fetches, album' = clearCompleted(album)
    PROVE  PhotosKept
<1> DEFINE stays(e) == \E i \in 1..Len(album') : album'[i].m = e.m
<1>1. PICK P \in SUBSET (1..Len(album)) : P = {i \in 1..Len(album) : ~album[i].completed}
  OBVIOUS
<1>2. album' = At(album, P)
  BY <1>1 DEF clearCompleted
<1>3. /\ \A k \in 1..Len(album') : \E p \in P : album'[k] = album[p]
      /\ \A p \in P : \E k \in 1..Len(album') : album'[k] = album[p]
  <2>1. Keeps(At(album, P), album, P)
    <3>1. Len(album) \in Nat
      OBVIOUS
    <3> QED BY <3>1, Filtered, Zenon
  <2> QED BY <1>2, <2>1 DEF Keeps
<1>4. \A i \in 1..Len(album) : stays(album[i]) <=> i \in P
  <2> TAKE i \in 1..Len(album)
  <2>1. ASSUME NEW k \in 1..Len(album'), album'[k].m = album[i].m PROVE i \in P
    <3>1. PICK p \in P : album'[k] = album[p]
      BY <1>3
    <3>2. p = i
      BY <2>1, <3>1 DEF Distinct
    <3> QED BY <3>1, <3>2
  <2>2. i \in P => stays(album[i])
    <3> SUFFICES ASSUME i \in P PROVE stays(album[i])
      OBVIOUS
    <3>1. PICK k \in 1..Len(album') : album'[k] = album[i]
      BY <1>3
    <3> QED BY <3>1
  <2> QED BY <2>1, <2>2
<1> HIDE DEF stays
<1>5. {i \in 1..Len(album) : stays(album[i])} = P
  BY <1>4
<1>6. At(album, {i \in 1..Len(album) : stays(album[i])}) = album'
  BY <1>2, <1>5
<1>7. \A i \in 1..Len(album) : ~stays(album[i]) => album[i].completed /\ fetches' = fetches
  BY <1>1, <1>4
<1>8. /\ \A i \in 1..Len(At(album, {j \in 1..Len(album) : stays(album[j])})) :
             /\ album'[i].m = At(album, {j \in 1..Len(album) : stays(album[j])})[i].m
             /\ At(album, {j \in 1..Len(album) : stays(album[j])})[i].lastFrame => album'[i].lastFrame
      /\ \A i \in 1..Len(album) : ~stays(album[i]) => album[i].completed /\ fetches' = fetches
  BY <1>6, <1>7
<1> QED BY <1>8, Zenon DEF PhotosKept, stays

LEMMA PhotosStep == ASSUME AlbumInv, AlbumNext PROVE album' = album \/ PhotosKept
<1>0. album \in Seq(Entry) /\ Distinct(album)
  BY DEF AlbumInv, Laid
<1>1. CASE ServerNext({Off, Active, Thinking}) /\ UNCHANGED albumVars
  BY <1>1 DEF albumVars
<1>2. CASE Ping \/ ThrottleEnds \/ AlbumPoll \/ Flip \/ ToggleRunning
  BY <1>2 DEF Ping, ThrottleEnds, AlbumPoll, Flip, ToggleRunning, Show, albumVars
<1>3. CASE ClearCompleted
  <2>1. album' = clearCompleted(album) /\ fetches' = fetches
    BY <1>3 DEF ClearCompleted, Show, sharedVars, pageVars
  <2> QED BY <1>0, <2>1, ClearedStay
<1>4. CASE onFrame
  <2>1. PICK m : album' = [i \in 1..Len(album) |->
                   IF album[i].m = m THEN [album[i] EXCEPT !.lastFrame = TRUE] ELSE album[i]]
    BY <1>4 DEF onFrame
  <2>2. Len(album) \in Nat /\ \A i \in 1..Len(album) : album[i] \in Entry
    BY <1>0
  <2>3. \A e \in Entry : /\ [e EXCEPT !.lastFrame = TRUE] \in Entry /\ [e EXCEPT !.lastFrame = TRUE].m = e.m
                         /\ [e EXCEPT !.lastFrame = TRUE].lastFrame
    BY DEF Entry
  <2>4. album' \in [1..Len(album) -> Entry]
    BY <2>1, <2>2, <2>3
  <2>5. Len(album') = Len(album)
    BY <2>2, <2>4
  <2>6. \A i \in 1..Len(album) : album'[i].m = album[i].m /\ (album[i].lastFrame => album'[i].lastFrame)
    BY <2>1, <2>2, <2>3
  <2> QED BY <1>0, <2>2, <2>5, <2>6, AllStay
<1>5. ASSUME NEW f \in fetches, (Handle(f) /\ UNCHANGED albumVars) \/ RosterFails(f) PROVE album' = album
  BY <1>5 DEF RosterFails, albumVars
<1>6. ASSUME NEW f \in fetches, NEW yes \in BOOLEAN, AlbumMe(f, yes) PROVE album' = album
  BY <1>6 DEF AlbumMe, albumVars
<1>7. ASSUME NEW f \in fetches, NEW yes \in BOOLEAN, RosterArrives(f, yes) PROVE album' = album \/ PhotosKept
  <2>1. CASE UNCHANGED albumVars
    BY <2>1 DEF albumVars
  <2>2. ASSUME NEW ranks \in Orders, Show(reconcileAlbum(album, f.answer, ranks), runningOnly) PROVE PhotosKept
    <3>1. f \in Arrived
      BY <1>7 DEF RosterArrives, Arrived
    <3>2. \A m \in Machines : f.answer[m] \in 0..2
      BY <3>1 DEF AlbumInv, Dated
    <3>3. album' = reconcileAlbum(album, f.answer, ranks)
      BY <2>2 DEF Show
    <3>4. Prolongs(album', album)
      BY <1>0, <3>2, <3>3, Reconciled
    <3> QED BY <1>0, <3>4, AllStay DEF Prolongs
  <2> QED BY <1>7, <2>1, <2>2 DEF RosterArrives
<1> QED BY <1>1, <1>2, <1>3, <1>4, <1>5, <1>6, <1>7 DEF AlbumNext

(* The entries are of different machines, so there are no more than machines. *)
LEMMA AlbumHonest == AlbumInv => AlbumTypeOK /\ NeverBlind /\ AlbumCaughtUp /\ OnView
<1> SUFFICES ASSUME AlbumInv PROVE AlbumTypeOK /\ NeverBlind /\ AlbumCaughtUp /\ OnView
  OBVIOUS
<1>1. AlbumTypeOK
  <2>0. N \in Nat /\ N > 0 /\ MaxEvents \in Nat /\ events \in Nat /\ events <= MaxEvents
    BY Typed DEF AlbumInv
  <2>1. StreamTypeOK /\ album \in Seq(Entry) /\ Distinct(album) /\ index \in Nat /\ runningOnly \in BOOLEAN
        /\ throttle \in BOOLEAN /\ queued \in BOOLEAN
    BY DEF AlbumInv, StreamInv, Laid
  <2>2. shownAt \in 0..MaxEvents
    BY <2>0 DEF AlbumInv, Dated
  <2>3. Len(album) <= N
    <3>1. PICK n \in Nat : n = Len(album)
      BY <2>1
    <3>2. PICK g : g = [i \in 1..n |-> album[i].m]
      OBVIOUS
    <3>3. \A i \in 1..n : album[i].m \in 1..N
      <4>1. \A i \in 1..n : album[i] \in Entry
        BY <2>1, <3>1
      <4> QED BY <4>1 DEF Entry, Machines
    <3>4. g \in [1..n -> 1..N] /\ \A i, j \in 1..n : g[i] = g[j] => i = j
      BY <2>1, <3>1, <3>2, <3>3 DEF Distinct
    <3>5. g \in Injection(1..n, 1..N)
      <4>1. IsInjective(g)
        BY <3>4 DEF IsInjective
      <4> QED BY <3>4, <4>1 DEF Injection
    <3>6. IsFiniteSet(1..N) /\ Cardinality(1..N) = N /\ IsFiniteSet(1..n) /\ Cardinality(1..n) = n
      <4>1. IsFiniteSet(1..N) /\ Cardinality(1..N) = N
        BY <2>0, FS_Interval
      <4>2. IsFiniteSet(1..n) /\ Cardinality(1..n) = n
        BY Interval
      <4> QED BY <4>1, <4>2
    <3>7. Cardinality(1..n) <= Cardinality(1..N)
      BY <3>5, <3>6, FS_Injection
    <3> QED BY <3>1, <3>6, <3>7
  <2> QED BY <2>1, <2>2, <2>3 DEF AlbumTypeOK
<1>2. NeverBlind /\ OnView
  BY DEF AlbumInv, StreamInv, Heard, Laid
<1>3. AlbumCaughtUp
  <2> SUFFICES ASSUME wire = <<>>, fetches = {}, ~queued, NEW m \in Machines \ excused
               PROVE  /\ pane[m] # Off => \E i \in 1..Len(album) : album[i].m = m
                      /\ \A i \in 1..Len(album) : album[i].m = m =>
                           /\ album[i].completed <=> pane[m] = Off
                           /\ pane[m] # Off => (album[i].thinking <=> pane[m] = Thinking)
    BY DEF AlbumCaughtUp
  <2>1. Knows(m)
    BY DEF AlbumInv
  <2>2. ~Told(m) /\ ~RosterComes /\ Arrived = {}
    BY DEF Told, RosterComes, Arrived
  <2>3. Pictured(m)
    BY <2>1, <2>2 DEF Knows
  <2> QED BY <2>3 DEF Pictured, Matches, Says
<1> QED BY <1>1, <1>2, <1>3

LEMMA AlbumStart == StreamInit /\ AlbumInit => AlbumInv
<1> SUFFICES ASSUME StreamInit, AlbumInit PROVE AlbumInv
  OBVIOUS
<1>0. N \in Nat /\ N > 0
  BY StreamAssumption
<1>1. StreamInit /\ AlbumInit /\ StreamInv
  BY StreamStart
<1>2. /\ status = "me" /\ excused = 0..N /\ events = 0
      /\ \A f \in fetches : f.kind = "me"
      /\ album = <<>> /\ index = 0 /\ runningOnly \in BOOLEAN /\ throttle = FALSE /\ queued = FALSE /\ shownAt = 0
  BY <1>1 DEF StreamInit, Sent, AlbumInit
<1>3. album \in Seq(Entry) /\ Len(album) = 0 /\ Distinct(album)
  BY <1>2 DEF Distinct
<1>4. Laid
  <2>1. Running(album) = {}
    BY <1>3 DEF Running
  <2>2. Len(Visible(album, runningOnly)) = 0
    BY <1>3, <2>1, VisibleLength, FS_EmptySet
  <2> QED BY <1>2, <1>3, <2>2 DEF Laid, OnView
<1>5. Arrived = {}
  BY <1>2 DEF Arrived
<1>6. Dated
  BY <1>2, <1>5 DEF Dated
<1>7. Machines \subseteq excused
  BY <1>0, <1>2 DEF Machines
<1>8. Phased
  BY <1>2, <1>7 DEF Phased
<1>9. throttle \in BOOLEAN /\ queued \in BOOLEAN
  BY <1>2
<1>10. \A m \in Machines \ excused : Knows(m)
  BY <1>7
<1> QED BY <1>1, <1>4, <1>6, <1>8, <1>9, <1>10 DEF AlbumInv

LEMMA PagesIdle ==
    ASSUME UNCHANGED <<sharedVars, dashVars, albumVars>>
    PROVE  (DashInv => DashInv') /\ (AlbumInv => AlbumInv')
<1>1. /\ UNCHANGED <<page, rev, there, pane, attn, others, stream, wire, fallback, tried, status, excused, fetches, events>>
      /\ UNCHANGED <<cards, details, feed>>
      /\ UNCHANGED <<album, index, runningOnly, throttle, queued, shownAt>>
  BY DEF sharedVars, serverVars, streamVars, pageVars, dashVars, albumVars
<1>2. StreamInv => StreamInv'
  BY <1>1 DEF StreamInv, StreamTypeOK, Heard, NeverBlind, Counted
<1>3. DashInv => DashInv'
  <2> SUFFICES ASSUME DashInv PROVE DashInv'
    OBVIOUS
  <2>1. (Past => Past') /\ (Heeded => Heeded')
    BY <1>1 DEF Past, Heeded, AttentionsCome, Alerted
  <2>2. \A m : (Listed(m) => Listed(m)') /\ (Detailed(m) => Detailed(m)')
    BY <1>1 DEF Listed, Detailed, ListComes, DetailComes, Told, Known, Of
  <2> QED BY <1>1, <1>2, <2>1, <2>2 DEF DashInv
<1>4. AlbumInv => AlbumInv'
  <2> SUFFICES ASSUME AlbumInv PROVE AlbumInv'
    OBVIOUS
  <2>1. Laid'
    BY <1>1 DEF AlbumInv, Laid, OnView
  <2>2. \A m \in Machines : Pictured(m) => Pictured(m)'
    BY <1>1 DEF Pictured
  <2> QED BY <1>1, <2>1, <2>2, AlbumQuiet
<1> QED BY <1>3, <1>4

(***************************************************************************)
(* The tokens page.                                                        *)
(***************************************************************************)
(* What the backend did at the page's behest is still so.                   *)
TokensSo(ts) ==
    /\ \A t \in Toks : <<"revoke", t>> \in did => ts[t] = "revoked"
    /\ \A t \in Toks : <<"create", t>> \in did => ts[t] # "none"
MachinesSo(ms) == \A m \in Machs : <<"kick", m>> \in did => ms[m] = Gone
OfToks == \A x : (<<"revoke", x>> \in did \/ <<"create", x>> \in did) => x \in Toks
OfMachs == \A x : <<"kick", x>> \in did => x \in Machs

(* The first reading, and an operation that is alone, have no other beside.  *)
Lonely ==
    /\ \A op \in ops : op.alone => ops = {op}
    /\ \A op \in ops : op.what[1] = "load" => ops = {op} /\ view = "loading"
Flagged ==
    /\ \A op \in ops : op.what[1] = "load" => ~busy
    /\ \A op \in ops : op.alone /\ op.what[1] # "load" => busy
    /\ ops = {} => ~busy
(* An operation that is alone read the lists after what it did itself.       *)
ReadSince ==
    /\ \A op \in ops : op.got # {} => op.stage = "reading"
    /\ \A op \in ops : op.alone /\ "tokens" \in op.got => TokensSo(op.ts)
    /\ \A op \in ops : op.alone /\ "machines" \in op.got => MachinesSo(op.ms)
    /\ ops = {} /\ trusted => TokensSo(tokens) /\ MachinesSo(machines)
TokensInv ==
    /\ TokensPageTypeOK /\ IsFiniteSet(ops)
    /\ OfToks /\ OfMachs /\ TokensSo(state) /\ MachinesSo(holder)
    /\ Lonely /\ Flagged /\ ReadSince

LEMMA TokensHonest == TokensInv => TokensPageTypeOK /\ OwnWorkShown /\ BusyHonest
<1> SUFFICES ASSUME TokensInv PROVE TokensPageTypeOK /\ OwnWorkShown /\ BusyHonest
  OBVIOUS
<1>1. TokensPageTypeOK
  BY DEF TokensInv
<1>2. OwnWorkShown
  BY DEF TokensInv, ReadSince, OfToks, OfMachs, TokensSo, MachinesSo, OwnWorkShown
<1>3. BusyHonest
  BY DEF TokensInv, Flagged, BusyHonest
<1> QED BY <1>1, <1>2, <1>3

LEMMA TokensStart == TokensPageInit => TokensInv
<1> SUFFICES ASSUME TokensPageInit PROVE TokensInv
  OBVIOUS
<1>0. T \in Nat /\ M \in Nat /\ MaxOps \in Nat \ {0} /\ MaxTurns \in Nat
  BY TokensPageAssumption
<1>1. TokensPageInit
  OBVIOUS
<1>2. PICK k : k = [what |-> <<"load", 0>>, alone |-> TRUE, stage |-> "reading", got |-> {}, n |-> 1,
                    ts |-> tokens, ms |-> machines, made |-> 0]
  OBVIOUS
<1>3. ops = {k}
  BY <1>1, <1>2 DEF TokensPageInit
<1>4. tokens \in States /\ machines \in Holders /\ holder \in Holders /\ state \in States
  BY <1>0, <1>1 DEF TokensPageInit, States, Holders, Gone
<1>5. k \in Op
  <2>1. <<"load", 0>> \in Work
    BY DEF Work
  <2>2. 1 \in 1..MaxOps /\ 0 \in 0..T
    BY <1>0
  <2> QED BY <1>2, <1>4, <2>1, <2>2 DEF Op
<1>6. k.what[1] = "load" /\ k.stage = "reading" /\ k.got = {} /\ k.alone
  BY <1>2
<1>7. IsFiniteSet(ops) /\ Cardinality(ops) <= MaxOps
  <2>1. IsFiniteSet({k}) /\ Cardinality({k}) = 1
    BY FS_Singleton, Zenon
  <2> QED BY <1>0, <1>3, <2>1
<1>8. ~busy /\ view = "loading" /\ did = {} /\ ~trusted /\ turns = 0 /\ confirming = {} /\ secret = 0 /\ renaming = 0
  BY <1>1 DEF TokensPageInit
<1>9. TokensPageTypeOK
  <2>1. busy \in BOOLEAN /\ trusted \in BOOLEAN
    BY <1>1 DEF TokensPageInit
  <2>2. /\ view \in {"loading", "anon", "ready"} /\ renaming \in 0..T /\ turns \in 0..MaxTurns /\ secret \in 0..T
        /\ confirming \subseteq Danger /\ did \subseteq {"create", "revoke", "kick"} \X (1..(T + M))
    BY <1>0, <1>8
  <2>3. ops \subseteq Op
    BY <1>3, <1>5
  <2> QED BY <1>4, <1>7, <2>1, <2>2, <2>3 DEF TokensPageTypeOK
<1>10. OfToks /\ OfMachs /\ TokensSo(state) /\ MachinesSo(holder)
  BY <1>8 DEF OfToks, OfMachs, TokensSo, MachinesSo
<1>11. Lonely /\ Flagged
  BY <1>3, <1>6, <1>8 DEF Lonely, Flagged
<1>12. ReadSince
  BY <1>3, <1>6, <1>8 DEF ReadSince
<1> QED BY <1>7, <1>9, <1>10, <1>11, <1>12 DEF TokensInv

LEMMA Swapped ==
    ASSUME NEW S, IsFiniteSet(S), NEW x \in S, NEW y, NEW most \in Nat, Cardinality(S) <= most
    PROVE  /\ IsFiniteSet(S \ {x}) /\ Cardinality(S \ {x}) <= most
           /\ IsFiniteSet((S \ {x}) \cup {y}) /\ Cardinality((S \ {x}) \cup {y}) <= most
<1>1. PICK k \in Nat : k = Cardinality(S)
  BY FS_CardinalityType
<1>2. IsFiniteSet(S \ {x}) /\ Cardinality(S \ {x}) = k - 1
  BY <1>1, FS_RemoveElement
<1>3. k - 1 \in Nat
  BY <1>2, FS_CardinalityType
<1>4. IsFiniteSet((S \ {x}) \cup {y}) /\ (Cardinality((S \ {x}) \cup {y}) = k - 1 \/ Cardinality((S \ {x}) \cup {y}) = k - 1 + 1)
  BY <1>2, FS_AddElement
<1> QED BY <1>1, <1>2, <1>3, <1>4

LEMMA Joined ==
    ASSUME NEW S, IsFiniteSet(S), NEW J, NEW g \in Surjection(S, J), NEW y, NEW most \in Nat, Cardinality(S) < most
    PROVE  IsFiniteSet(J \cup {y}) /\ Cardinality(J \cup {y}) <= most
<1>1. IsFiniteSet(J) /\ Cardinality(J) <= Cardinality(S)
  BY FS_Surjection
<1>2. Cardinality(J) \in Nat /\ Cardinality(S) \in Nat
  BY <1>1, FS_CardinalityType
<1>3. IsFiniteSet(J \cup {y}) /\ (Cardinality(J \cup {y}) = Cardinality(J) \/ Cardinality(J \cup {y}) = Cardinality(J) + 1)
  BY <1>1, FS_AddElement
<1>4. Cardinality(J \cup {y}) <= most
  BY <1>1, <1>2, <1>3
<1> QED BY <1>3, <1>4

LEMMA FreshNumber ==
    ASSUME TokensPageTypeOK, IsFiniteSet(ops), Cardinality(ops) < MaxOps
    PROVE  \E n \in 1..MaxOps : \A o \in ops : o.n # n
<1>0. MaxOps \in Nat /\ MaxOps > 0
  BY TokensPageAssumption
<1> SUFFICES ASSUME \A n \in 1..MaxOps : \E o \in ops : o.n = n PROVE FALSE
  OBVIOUS
<1> DEFINE f == [n \in 1..MaxOps |-> CHOOSE o \in ops : o.n = n]
<1>1. \A n \in 1..MaxOps : f[n] \in ops /\ f[n].n = n
  OBVIOUS
<1>2. f \in [1..MaxOps -> ops]
  BY <1>1
<1> HIDE DEF f
<1>3. \A n, m \in 1..MaxOps : f[n] = f[m] => n = m
  BY <1>1
<1>4. IsFiniteSet(1..MaxOps) /\ Cardinality(1..MaxOps) = MaxOps
  BY <1>0, FS_Interval
<1>5. f \in Injection(1..MaxOps, ops)
  <2>1. DOMAIN f = 1..MaxOps
    BY <1>2
  <2>2. IsInjective(f)
    BY <1>3, <2>1 DEF IsInjective
  <2> QED BY <1>2, <2>2 DEF Injection
<1>6. Cardinality(1..MaxOps) <= Cardinality(ops)
  BY <1>5, FS_Injection
<1>7. Cardinality(ops) \in Nat
  BY FS_CardinalityType
<1> QED BY <1>0, <1>4, <1>6, <1>7

LEMMA NewOpTyped ==
    ASSUME TokensPageTypeOK, IsFiniteSet(ops), Cardinality(ops) < MaxOps, NEW what \in Work, NEW alone \in BOOLEAN
    PROVE  /\ NewOp(what, "asked", alone) \in Op
           /\ NewOp(what, "asked", alone).got = {} /\ NewOp(what, "asked", alone).stage = "asked"
           /\ NewOp(what, "asked", alone).what = what /\ NewOp(what, "asked", alone).alone = alone
<1>0. T \in Nat
  BY TokensPageAssumption
<1>1. PICK n \in 1..MaxOps : n = CHOOSE k \in 1..MaxOps : \A o \in ops : o.n # k
  BY FreshNumber
<1>2. PICK ts \in States : ts = [t \in Toks |-> "none"]
  BY DEF States
<1>3. PICK ms \in Holders : ms = [m \in Machs |-> Gone]
  <2>1. Gone \in Gone..T
    BY <1>0 DEF Gone
  <2> QED BY <2>1 DEF Holders
<1>4. PICK k : k = [what |-> what, alone |-> alone, stage |-> "asked", got |-> {}, n |-> n, ts |-> ts, ms |-> ms, made |-> 0]
  OBVIOUS
<1>5. k = NewOp(what, "asked", alone)
  BY <1>1, <1>2, <1>3, <1>4 DEF NewOp
<1>6. 0 \in 0..T
  BY <1>0
<1>7. k \in Op
  BY <1>4, <1>6 DEF Op
<1> QED BY <1>4, <1>5, <1>7

(* An operation that goes on, and one that is over.                         *)
LEMMA GoesOn ==
    ASSUME Lonely, Flagged, NEW op \in ops, NEW k, ops' = (ops \ {op}) \cup {k},
           k.what = op.what, k.alone <=> op.alone, UNCHANGED <<view, busy>>
    PROVE  Lonely' /\ Flagged'
<1>1. Lonely'
  <2>1. ASSUME NEW o \in ops', o.alone PROVE ops' = {o}
    <3>1. CASE o = k
      BY <2>1, <3>1 DEF Lonely
    <3>2. CASE o # k
      BY <2>1, <3>2 DEF Lonely
    <3> QED BY <3>1, <3>2
  <2>2. ASSUME NEW o \in ops', o.what[1] = "load" PROVE ops' = {o} /\ view' = "loading"
    <3>1. CASE o = k
      BY <2>2, <3>1 DEF Lonely
    <3>2. CASE o # k
      BY <2>2, <3>2 DEF Lonely
    <3> QED BY <3>1, <3>2
  <2> QED BY <2>1, <2>2 DEF Lonely
<1>2. Flagged'
  <2>1. \A o \in ops' : o.what[1] = "load" => ~busy
    BY DEF Flagged
  <2>2. \A o \in ops' : o.alone /\ o.what[1] # "load" => busy
    BY DEF Flagged
  <2> QED BY <2>1, <2>2 DEF Flagged
<1> QED BY <1>1, <1>2

LEMMA IsOver ==
    ASSUME Lonely, Flagged, NEW op \in ops, NEW ok, Over(op, ok)
    PROVE  Lonely' /\ Flagged' /\ \A o \in ops' : ~o.alone /\ o.what[1] # "load"
<1>1. ops' = ops \ {op}
  BY DEF Over
<1>2. \A o \in ops' : ~o.alone /\ o.what[1] # "load"
  BY <1>1 DEF Lonely
<1>3. ~busy'
  <2>1. CASE op.what[1] = "load"
    <3>1. ~busy
      BY <2>1 DEF Flagged
    <3> QED BY <2>1, <3>1 DEF Over
  <2>2. CASE op.what[1] # "load"
    BY <2>2 DEF Over, Frees
  <2> QED BY <2>1, <2>2
<1>4. Lonely'
  BY <1>2 DEF Lonely
<1>5. Flagged'
  BY <1>2, <1>3 DEF Flagged
<1> QED BY <1>2, <1>4, <1>5

(* What a request does in the backend.                                      *)
LEMMA ServedTokens ==
    ASSUME state \in States, NEW what \in Work, NEW t \in Toks
    PROVE  /\ StateAfter(what)[t] \in {"none", "active", "revoked"}
           /\ state[t] = "none" => StateAfter(what)[t] \in {"none", "active"}
           /\ state[t] = "active" => StateAfter(what)[t] \in {"active", "revoked"}
           /\ state[t] = "revoked" => StateAfter(what)[t] = "revoked"
<1>0. state[t] \in {"none", "active", "revoked"}
  BY DEF States
<1> DEFINE makes == what[1] = "create" /\ t \in Least({u \in Toks : state[u] = "none"})
<1> DEFINE ended == what \in {<<"revoke", t>>, <<"revokeAll", 0>>} /\ state[t] = "active"
<1>1. StateAfter(what)[t] = (CASE makes -> "active" [] ended -> "revoked" [] OTHER -> state[t])
  BY DEF StateAfter
<1>2. makes => state[t] = "none"
  BY DEF Least
<1>3. ended => state[t] = "active"
  OBVIOUS
<1> HIDE DEF makes, ended
<1>4. CASE makes
  BY <1>1, <1>2, <1>3, <1>4
<1>5. CASE ended
  BY <1>1, <1>2, <1>3, <1>5
<1>6. CASE ~makes /\ ~ended
  BY <1>0, <1>1, <1>6
<1> QED BY <1>4, <1>5, <1>6

LEMMA ServedMachines ==
    ASSUME holder \in Holders, NEW what, NEW m \in Machs
    PROVE  HolderAfter(what)[m] = Gone \/ HolderAfter(what)[m] = holder[m]
BY DEF HolderAfter

LEMMA TokensServed ==
    ASSUME TokensInv, NEW op \in ops, Serve(op)
    PROVE  TokensInv'
<1>0. T \in Nat /\ M \in Nat /\ MaxOps \in Nat
  BY TokensPageAssumption
<1>1. op \in Op /\ state \in States /\ holder \in Holders /\ TokensPageTypeOK /\ Lonely /\ Flagged
  BY DEF TokensInv, TokensPageTypeOK
<1>2. op.what \in Work /\ op.stage = "asked" /\ op.got = {}
  BY <1>1 DEF Op, Serve, TokensInv, ReadSince
<1>3. PICK fresh \in 0..T : ops' = (ops \ {op}) \cup {[op EXCEPT !.stage = "acted", !.made = fresh]}
  BY DEF Serve
<1>4. PICK k : k = [op EXCEPT !.stage = "acted", !.made = fresh]
  OBVIOUS
<1>5. k \in Op /\ k.what = op.what /\ k.got = {} /\ k.stage = "acted"
  BY <1>1, <1>2, <1>4 DEF Op
<1>6. k.alone <=> op.alone
  BY <1>1, <1>4 DEF Op
<1>7. ops' = (ops \ {op}) \cup {k}
  BY <1>3, <1>4
<1>8. UNCHANGED <<tokens, machines, view, busy, renaming, confirming, secret, trusted, turns>>
  BY DEF Serve, listVars, uiVars
<1>9. Lonely' /\ Flagged'
  BY <1>1, <1>5, <1>6, <1>7, <1>8, GoesOn
<1>10. \A t \in Toks : /\ state'[t] \in {"none", "active", "revoked"}
                       /\ state[t] = "none" => state'[t] \in {"none", "active"}
                       /\ state[t] = "active" => state'[t] \in {"active", "revoked"}
                       /\ state[t] = "revoked" => state'[t] = "revoked"
  BY <1>1, <1>2, ServedTokens DEF Serve
<1>11. \A m \in Machs : holder'[m] = Gone \/ holder'[m] = holder[m]
  BY <1>1, ServedMachines DEF Serve
<1>12. state' \in States
  BY <1>10 DEF Serve, StateAfter, States
<1>13. holder' \in Holders
  <2>1. Gone \in Gone..T
    BY <1>0 DEF Gone
  <2>2. \A m \in Machs : holder'[m] \in Gone..T
    BY <1>1, <1>11, <2>1 DEF Holders
  <2> QED BY <2>2 DEF Serve, HolderAfter, Holders
<1>14. \A x : <<"create", x>> \in did' => <<"create", x>> \in did \/ (x \in Toks /\ state[x] = "none" /\ state'[x] # "none")
  BY DEF Serve
<1>15. \A x : <<"revoke", x>> \in did' => <<"revoke", x>> \in did \/ (x \in Toks /\ state[x] = "active" /\ state'[x] # "active")
  BY DEF Serve
<1>16. \A x : <<"kick", x>> \in did' => <<"kick", x>> \in did \/ (x \in Machs /\ holder'[x] # holder[x])
  BY DEF Serve
<1>17. did' \subseteq {"create", "revoke", "kick"} \X (1..(T + M))
  <2>1. did \subseteq {"create", "revoke", "kick"} \X (1..(T + M))
    BY <1>1 DEF TokensPageTypeOK
  <2>2. Toks \subseteq 1..(T + M) /\ Machs \subseteq 1..(T + M)
    BY <1>0 DEF Toks, Machs
  <2> QED BY <2>1, <2>2 DEF Serve
<1>18. OfToks' /\ OfMachs'
  BY <1>14, <1>15, <1>16 DEF TokensInv, OfToks, OfMachs
<1>19. TokensSo(state)'
  <2>1. \A t \in Toks : <<"revoke", t>> \in did' => state'[t] = "revoked"
    BY <1>10, <1>15 DEF TokensInv, TokensSo
  <2>2. ASSUME NEW t \in Toks, <<"create", t>> \in did' PROVE state'[t] # "none"
    <3>1. CASE <<"create", t>> \in did
      <4>1. state[t] \in {"active", "revoked"}
        BY <1>1, <3>1 DEF TokensInv, TokensSo, States
      <4> QED BY <1>10, <4>1
    <3>2. CASE <<"create", t>> \notin did
      BY <1>14, <2>2, <3>2
    <3> QED BY <3>1, <3>2
  <2> QED BY <2>1, <2>2 DEF TokensSo
<1>20. MachinesSo(holder)'
  BY <1>11, <1>16 DEF TokensInv, MachinesSo
<1>21. ReadSince'
  <2>1. \A o \in ops' : o.got # {} => o.stage = "reading"
    BY <1>5, <1>7 DEF TokensInv, ReadSince
  <2>2. \A o \in ops' : o.alone => o = k
    BY <1>1, <1>7 DEF Lonely
  <2>3. ops' # {}
    BY <1>7
  <2> QED BY <1>5, <2>1, <2>2, <2>3 DEF ReadSince
<1>22. IsFiniteSet(ops') /\ Cardinality(ops') <= MaxOps
  BY <1>0, <1>1, <1>7, Swapped DEF TokensInv, TokensPageTypeOK
<1>23. TokensPageTypeOK'
  <2>1. busy' \in BOOLEAN /\ trusted' \in BOOLEAN
    BY <1>1, <1>8 DEF TokensPageTypeOK
  <2>2. ops' \subseteq Op
    BY <1>1, <1>5, <1>7 DEF TokensPageTypeOK
  <2>3. /\ tokens' \in States /\ machines' \in Holders /\ view' \in {"loading", "anon", "ready"}
        /\ renaming' \in 0..T /\ confirming' \subseteq Danger /\ secret' \in 0..T /\ turns' \in 0..MaxTurns
    BY <1>1, <1>8 DEF TokensPageTypeOK
  <2> QED BY <1>12, <1>13, <1>17, <1>22, <2>1, <2>2, <2>3 DEF TokensPageTypeOK
<1> QED BY <1>9, <1>18, <1>19, <1>20, <1>21, <1>22, <1>23 DEF TokensInv

LEMMA TokensStep ==
    ASSUME TokensInv, TokensPageNext
    PROVE  TokensInv'
<1>0. T \in Nat /\ M \in Nat /\ MaxOps \in Nat /\ MaxTurns \in Nat
  BY TokensPageAssumption
<1>1. TokensPageTypeOK /\ IsFiniteSet(ops) /\ Lonely /\ Flagged /\ ReadSince /\ OfToks /\ OfMachs
      /\ TokensSo(state) /\ MachinesSo(holder)
  BY DEF TokensInv
<1>2. ASSUME NEW m \in Machs, NEW t \in Toks, Pushes(m, t)
      PROVE  TokensInv'
  <2>1. UNCHANGED <<state, tokens, machines, view, busy, renaming, confirming, secret, ops, trusted>>
        /\ did' = did \ {<<"kick", m>>}
    BY <1>2 DEF Pushes, listVars, uiVars
  <2>2. turns' \in 0..MaxTurns
    BY <1>0, <1>1, <1>2 DEF Pushes, Turn, TokensPageTypeOK
  <2>3. holder' \in Holders
    <3>1. t \in Gone..T
      BY <1>0 DEF Toks, Gone
    <3> QED BY <1>1, <1>2, <3>1 DEF Pushes, TokensPageTypeOK, Holders
  <2>4. TokensPageTypeOK'
    <3>1. busy' \in BOOLEAN /\ trusted' \in BOOLEAN
      BY <1>1, <2>1 DEF TokensPageTypeOK
    <3> QED BY <1>1, <2>1, <2>2, <2>3, <3>1 DEF TokensPageTypeOK
  <2>5. OfToks' /\ OfMachs' /\ TokensSo(state)'
    BY <1>1, <2>1 DEF OfToks, OfMachs, TokensSo
  <2>6. MachinesSo(holder)'
    BY <1>1, <1>2, <2>1 DEF Pushes, MachinesSo, TokensPageTypeOK, Holders
  <2>7. Lonely' /\ Flagged'
    BY <1>1, <2>1 DEF Lonely, Flagged
  <2>8. ReadSince'
    BY <1>1, <2>1 DEF ReadSince, TokensSo, MachinesSo
  <2> QED BY <1>1, <2>1, <2>4, <2>5, <2>6, <2>7, <2>8 DEF TokensInv
<1>3. ASSUME UNCHANGED <<state, holder, tokens, machines, view, busy, ops, did, trusted, turns>>,
             renaming' \in 0..T, confirming' \subseteq Danger, secret' \in 0..T
      PROVE  TokensInv'
  <2>1. TokensPageTypeOK'
    <3>1. busy' \in BOOLEAN /\ trusted' \in BOOLEAN
      BY <1>1, <1>3 DEF TokensPageTypeOK
    <3> QED BY <1>1, <1>3, <3>1 DEF TokensPageTypeOK
  <2>2. Lonely' /\ Flagged'
    BY <1>1, <1>3 DEF Lonely, Flagged
  <2>3. ReadSince' /\ OfToks' /\ OfMachs' /\ TokensSo(state)' /\ MachinesSo(holder)'
    BY <1>1, <1>3 DEF ReadSince, OfToks, OfMachs, TokensSo, MachinesSo
  <2> QED BY <1>1, <1>3, <2>1, <2>2, <2>3 DEF TokensInv
<1>4. ASSUME NEW what \in Danger, Trigger(what) \/ Cancel(what)
      PROVE  TokensInv'
  BY <1>1, <1>3, <1>4 DEF Trigger, Cancel, backVars, listVars, TokensPageTypeOK
<1>5. ASSUME Done \/ \E t \in 0..T : Edit(t)
      PROVE  TokensInv'
  <2>1. CASE Done
    BY <1>0, <1>1, <1>3, <2>1 DEF Done, backVars, listVars, TokensPageTypeOK
  <2>2. ASSUME NEW t \in 0..T, Edit(t) PROVE TokensInv'
    BY <1>1, <1>3, <2>2 DEF Edit, backVars, listVars, TokensPageTypeOK
  <2> QED BY <1>5, <2>1, <2>2
<1>6. ASSUME NEW what \in Work \ {<<"load", 0>>}, Begin(what)
      PROVE  TokensInv'
  <2>1. PICK first \in BOOLEAN : first <=> ops = {}
    OBVIOUS
  <2>2. Cardinality(ops) < MaxOps /\ view = "ready"
    BY <1>6 DEF Begin
  <2>3. PICK k : k = NewOp(what, "asked", first)
    OBVIOUS
  <2>4. k \in Op /\ k.got = {} /\ k.what = what
    BY <1>1, <2>2, <2>3, NewOpTyped
  <2>5. k.alone <=> ops = {}
    BY <1>1, <2>1, <2>2, <2>3, NewOpTyped
  <2> DEFINE mark == [o \in ops |-> [o EXCEPT !.alone = FALSE]]
  <2>6. ops' = {mark[o] : o \in ops} \cup {k}
    <3>1. first = (ops = {})
      BY <2>1
    <3> QED BY <1>6, <2>3, <3>1 DEF Begin
  <2>7. \A o \in ops : mark[o] \in Op /\ mark[o].what = o.what /\ ~mark[o].alone /\ mark[o].got = o.got /\ mark[o].stage = o.stage
    <3> SUFFICES ASSUME NEW o \in ops
                 PROVE  mark[o] \in Op /\ mark[o].what = o.what /\ ~mark[o].alone /\ mark[o].got = o.got /\ mark[o].stage = o.stage
      OBVIOUS
    <3>1. o \in Op
      BY <1>1 DEF TokensPageTypeOK
    <3> QED BY <3>1 DEF Op
  <2>8. PICK J : J = {mark[o] : o \in ops}
    OBVIOUS
  <2>9. mark \in Surjection(ops, J)
    BY <2>8 DEF Surjection
  <2> HIDE DEF mark
  <2>10. IsFiniteSet(ops') /\ Cardinality(ops') <= MaxOps
    <3>1. IsFiniteSet(J \cup {k}) /\ Cardinality(J \cup {k}) <= MaxOps
      BY <1>0, <1>1, <2>2, <2>9, Joined
    <3> QED BY <2>6, <2>8, <3>1
  <2>11. UNCHANGED <<state, holder, tokens, machines, view, renaming, confirming, secret, did, trusted>> /\ busy'
    BY <1>6 DEF Begin, backVars, listVars, uiVars
  <2>12. TokensPageTypeOK'
    <3>1. busy' \in BOOLEAN /\ trusted' \in BOOLEAN
      BY <1>1, <1>6 DEF TokensPageTypeOK, Begin
    <3>2. turns' \in 0..MaxTurns
      BY <1>0, <1>1, <1>6 DEF Begin, Turn, TokensPageTypeOK
    <3>3. ops' \subseteq Op
      BY <2>4, <2>6, <2>7
    <3> QED BY <1>1, <2>10, <2>11, <3>1, <3>2, <3>3 DEF TokensPageTypeOK
  <2>13. \A o \in ops' : o.what[1] # "load"
    <3>1. what[1] # "load"
      BY <1>6 DEF Work, Danger
    <3>2. \A o \in ops : o.what[1] # "load"
      BY <1>1, <2>2 DEF Lonely
    <3> QED BY <2>4, <2>6, <2>7, <3>1, <3>2
  <2>14. \A o \in ops' : o.alone => ops' = {o}
    BY <2>5, <2>6, <2>7
  <2>15. ops' # {}
    BY <2>6
  <2>16. Lonely' /\ Flagged'
    BY <2>11, <2>13, <2>14, <2>15 DEF Lonely, Flagged
  <2>17. \A o \in ops' : o.got # {} => o.stage = "reading"
    BY <1>1, <2>4, <2>6, <2>7 DEF ReadSince
  <2>18. \A o \in ops' : o.alone => o.got = {}
    BY <2>4, <2>6, <2>7
  <2>19. ReadSince'
    BY <2>15, <2>17, <2>18 DEF ReadSince
  <2>20. OfToks' /\ OfMachs' /\ TokensSo(state)' /\ MachinesSo(holder)'
    BY <1>1, <2>11 DEF OfToks, OfMachs, TokensSo, MachinesSo
  <2> QED BY <2>10, <2>12, <2>16, <2>19, <2>20 DEF TokensInv
<1>7. ASSUME NEW op \in ops, Serve(op) PROVE TokensInv'
  BY <1>7, TokensServed
<1>8. ASSUME NEW op \in ops, Answered(op) PROVE TokensInv'
  <2>1. PICK k : k = [op EXCEPT !.stage = "reading"]
    OBVIOUS
  <2>2. op \in Op
    BY <1>1 DEF TokensPageTypeOK
  <2>3. k \in Op /\ k.what = op.what /\ k.got = op.got /\ k.stage = "reading"
    BY <2>1, <2>2 DEF Op
  <2>4. k.alone <=> op.alone
    BY <2>1, <2>2 DEF Op
  <2>5. ops' = (ops \ {op}) \cup {k}
    BY <1>8, <2>1 DEF Answered
  <2>6. UNCHANGED <<state, holder, tokens, machines, view, busy, confirming, did, trusted, turns>>
    BY <1>8 DEF Answered, backVars, listVars
  <2>7. secret' \in 0..T /\ renaming' \in 0..T
    BY <1>0, <1>1, <1>8, <2>2 DEF Answered, TokensPageTypeOK, Op
  <2>8. IsFiniteSet(ops') /\ Cardinality(ops') <= MaxOps
    BY <1>0, <1>1, <2>5, Swapped DEF TokensPageTypeOK
  <2>9. TokensPageTypeOK'
    <3>1. busy' \in BOOLEAN /\ trusted' \in BOOLEAN
      BY <1>1, <2>6 DEF TokensPageTypeOK
    <3>2. ops' \subseteq Op
      BY <1>1, <2>3, <2>5 DEF TokensPageTypeOK
    <3> QED BY <1>1, <2>6, <2>7, <2>8, <3>1, <3>2 DEF TokensPageTypeOK
  <2>10. Lonely' /\ Flagged'
    BY <1>1, <2>3, <2>4, <2>5, <2>6, GoesOn
  <2>11. op.got = {}
    BY <1>1, <1>8 DEF Answered, ReadSince
  <2>12. \A o \in ops' : o.got # {} => o.stage = "reading"
    BY <1>1, <2>3, <2>5 DEF ReadSince
  <2>13. \A o \in ops' : o.alone => o = k
    BY <1>1, <2>5 DEF Lonely
  <2>14. ops' # {}
    BY <2>5
  <2>15. ReadSince'
    BY <2>3, <2>11, <2>12, <2>13, <2>14 DEF ReadSince
  <2>16. OfToks' /\ OfMachs' /\ TokensSo(state)' /\ MachinesSo(holder)'
    BY <1>1, <2>6 DEF OfToks, OfMachs, TokensSo, MachinesSo
  <2> QED BY <2>8, <2>9, <2>10, <2>15, <2>16 DEF TokensInv
<1>9. ASSUME NEW op \in ops, Fails(op) \/ ListsArrive(op) \/ RefreshFails(op) PROVE TokensInv'
  <2>1. PICK ok \in BOOLEAN : Over(op, ok)
    BY <1>9 DEF Fails, ListsArrive, RefreshFails
  <2>2. Lonely' /\ Flagged' /\ \A o \in ops' : ~o.alone
    BY <1>1, <2>1, IsOver
  <2>3. ops' = ops \ {op}
    BY <2>1 DEF Over
  <2>4. IsFiniteSet(ops') /\ Cardinality(ops') <= MaxOps
    BY <1>0, <1>1, <2>3, Swapped DEF TokensPageTypeOK
  <2>5. op \in Op /\ ops' \subseteq Op
    BY <1>1, <2>3 DEF TokensPageTypeOK
  <2>6. UNCHANGED <<state, holder, did, secret, renaming>>
    BY <1>9 DEF Fails, ListsArrive, RefreshFails, backVars
  <2>7. turns' \in 0..MaxTurns
    <3>1. turns \in 0..MaxTurns
      BY <1>1 DEF TokensPageTypeOK
    <3>2. turns' = turns \/ (turns < MaxTurns /\ turns' = turns + 1)
      BY <1>9 DEF Fails, ListsArrive, RefreshFails, Turn
    <3> QED BY <1>0, <3>1, <3>2
  <2>8. view' \in {"loading", "anon", "ready"}
    BY <1>1, <1>9 DEF Fails, ListsArrive, RefreshFails, TokensPageTypeOK
  <2>9. confirming' \subseteq Danger
    BY <1>1, <1>9 DEF Fails, ListsArrive, RefreshFails, TokensPageTypeOK
  <2>10. tokens' \in States /\ machines' \in Holders
    BY <1>1, <1>9, <2>5 DEF Fails, ListsArrive, RefreshFails, TokensPageTypeOK, listVars, Shown, Op
  <2>11. busy' \in BOOLEAN
    BY <1>1, <2>1 DEF Over, Frees, TokensPageTypeOK
  <2>12. trusted' \in BOOLEAN
    BY <1>9, <2>5 DEF Fails, ListsArrive, RefreshFails, Op
  <2>13. TokensPageTypeOK'
    BY <1>1, <2>4, <2>5, <2>6, <2>7, <2>8, <2>9, <2>10, <2>11, <2>12 DEF TokensPageTypeOK
  <2>14. OfToks' /\ OfMachs' /\ TokensSo(state)' /\ MachinesSo(holder)'
    BY <1>1, <2>6 DEF OfToks, OfMachs, TokensSo, MachinesSo
  <2>15. trusted' => TokensSo(tokens)' /\ MachinesSo(machines)'
    <3>1. CASE Fails(op) \/ RefreshFails(op)
      BY <3>1 DEF Fails, RefreshFails
    <3>2. CASE ListsArrive(op)
      <4>1. trusted' => op.alone
        BY <3>2 DEF ListsArrive
      <4>2. op.alone => TokensSo(op.ts) /\ MachinesSo(op.ms)
        BY <1>1, <3>2 DEF ListsArrive, ReadSince
      <4>3. tokens' = op.ts /\ machines' = op.ms
        BY <3>2 DEF ListsArrive, Shown
      <4>4. TokensSo(op.ts) => TokensSo(tokens)'
        BY <2>6, <4>3 DEF TokensSo
      <4>5. MachinesSo(op.ms) => MachinesSo(machines)'
        BY <2>6, <4>3 DEF MachinesSo
      <4> QED BY <4>1, <4>2, <4>4, <4>5
    <3> QED BY <1>9, <3>1, <3>2
  <2>16. \A o \in ops' : o.got # {} => o.stage = "reading"
    BY <1>1, <2>3 DEF ReadSince
  <2>17. ReadSince'
    BY <2>2, <2>15, <2>16 DEF ReadSince
  <2> QED BY <2>2, <2>4, <2>13, <2>14, <2>17 DEF TokensInv
<1>10. ASSUME NEW op \in ops, NEW list \in {"tokens", "machines"}, Read(op, list) PROVE TokensInv'
  <2>1. op \in Op
    BY <1>1 DEF TokensPageTypeOK
  <2>2. PICK k : ops' = (ops \ {op}) \cup {k} /\ k = (IF list = "tokens" THEN [op EXCEPT !.got = @ \cup {list}, !.ts = state]
                                                      ELSE [op EXCEPT !.got = @ \cup {list}, !.ms = holder])
    BY <1>10 DEF Read
  <2>3. /\ k \in Op /\ k.what = op.what /\ k.got = op.got \cup {list} /\ k.stage = op.stage
        /\ k.ts = (IF list = "tokens" THEN state ELSE op.ts) /\ k.ms = (IF list = "tokens" THEN op.ms ELSE holder)
    <3>1. CASE list = "tokens"
      <4>1. k = [[op EXCEPT !.got = op.got \cup {list}] EXCEPT !.ts = state]
        BY <2>1, <2>2, <3>1 DEF Op
      <4> QED BY <1>1, <2>1, <3>1, <4>1 DEF Op, TokensPageTypeOK
    <3>2. CASE list = "machines"
      <4>1. k = [[op EXCEPT !.got = op.got \cup {list}] EXCEPT !.ms = holder]
        BY <2>1, <2>2, <3>2 DEF Op
      <4> QED BY <1>1, <2>1, <3>2, <4>1 DEF Op, TokensPageTypeOK
    <3> QED BY <3>1, <3>2
  <2>4. k.alone <=> op.alone
    <3>1. CASE list = "tokens"
      BY <2>1, <2>2, <3>1 DEF Op
    <3>2. CASE list = "machines"
      BY <2>1, <2>2, <3>2 DEF Op
    <3> QED BY <3>1, <3>2
  <2>5. ops' = (ops \ {op}) \cup {k}
    BY <2>2
  <2>6. UNCHANGED <<state, holder, tokens, machines, view, busy, renaming, confirming, secret, did, trusted, turns>>
    BY <1>10 DEF Read, backVars, listVars, uiVars
  <2>7. IsFiniteSet(ops') /\ Cardinality(ops') <= MaxOps
    BY <1>0, <1>1, <2>5, Swapped DEF TokensPageTypeOK
  <2>8. TokensPageTypeOK'
    <3>1. busy' \in BOOLEAN /\ trusted' \in BOOLEAN
      BY <1>1, <2>6 DEF TokensPageTypeOK
    <3>2. ops' \subseteq Op
      BY <1>1, <2>3, <2>5 DEF TokensPageTypeOK
    <3> QED BY <1>1, <2>6, <2>7, <3>1, <3>2 DEF TokensPageTypeOK
  <2>9. Lonely' /\ Flagged'
    BY <1>1, <2>3, <2>4, <2>5, <2>6, GoesOn
  <2>10. \A o \in ops' : o.got # {} => o.stage = "reading"
    BY <1>1, <1>10, <2>3, <2>5 DEF ReadSince, Read
  <2>11. \A o \in ops' : o.alone => o = k
    BY <1>1, <2>5 DEF Lonely
  <2>12. op.alone /\ "tokens" \in k.got => TokensSo(k.ts)
    BY <1>1, <2>3 DEF ReadSince
  <2>13. op.alone /\ "machines" \in k.got => MachinesSo(k.ms)
    BY <1>1, <2>3 DEF ReadSince
  <2>14. \A o \in ops' : o.alone /\ "tokens" \in o.got => TokensSo(o.ts)'
    BY <2>4, <2>6, <2>11, <2>12 DEF TokensSo
  <2>15. \A o \in ops' : o.alone /\ "machines" \in o.got => MachinesSo(o.ms)'
    BY <2>4, <2>6, <2>11, <2>13 DEF MachinesSo
  <2>16. ops' # {}
    BY <2>5
  <2>17. ReadSince'
    BY <2>10, <2>14, <2>15, <2>16 DEF ReadSince
  <2>18. OfToks' /\ OfMachs' /\ TokensSo(state)' /\ MachinesSo(holder)'
    BY <1>1, <2>6 DEF OfToks, OfMachs, TokensSo, MachinesSo
  <2> QED BY <2>7, <2>8, <2>9, <2>17, <2>18 DEF TokensInv
<1> QED BY <1>2, <1>4, <1>5, <1>6, <1>7, <1>8, <1>9, <1>10 DEF TokensPageNext
=============================================================================
