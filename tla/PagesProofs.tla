---------------------------- MODULE PagesProofs ----------------------------
(***************************************************************************)
(* The parts of the pages, each for every value of its constants: what a   *)
(* button or a form says is what became of it, the tokens page shows what  *)
(* its owner did, the dashboard and Spotlight catch up with the backend,   *)
(* nothing moves under the user, and two readings of the same data agree.  *)
(***************************************************************************)
EXTENDS MCPages, FeedProofs, FiniteSetTheorems, SequenceTheorems, WellFoundedInduction, TLAPS

(***************************************************************************)
(* One page is open, and takes its steps alone.                            *)
(***************************************************************************)
LEMMA OpenStays == [Next]_allVars => UNCHANGED open
BY DEF Next, allVars

LEMMA RefreshAlone == [Next]_allVars => UNCHANGED refreshVars \/ Refresh!RefreshNext
BY DEF Next, EarlierNext, PageNext, allVars, earlierVars, refreshVars

LEMMA PushAlone == [Next]_allVars => UNCHANGED pushVars \/ Push!PushNext
BY DEF Next, EarlierNext, PageNext, allVars, earlierVars, pushVars

LEMMA FormAlone == [Next]_allVars => UNCHANGED formVars \/ F!FormsNext
BY DEF Next, EarlierNext, PageNext, allVars, earlierVars, formVars

LEMMA PopupAlone == [Next]_allVars => UNCHANGED popupVars \/ Popup!PopupNext
BY DEF Next, EarlierNext, PageNext, allVars, earlierVars, popupVars

LEMMA ConsentAlone == [Next]_allVars => UNCHANGED oauthVars \/ Consent!OAuthNext
BY DEF Next, EarlierNext, LaterNext, PageNext, allVars, earlierVars, laterVars, oauthVars

LEMMA TokensAlone == [Next]_allVars => UNCHANGED tokensPageVars \/ (Only("tokens") /\ TokensPageNext)
BY DEF Next, EarlierNext, PageNext, allVars, earlierVars, fullPageVars

(***************************************************************************)
(* The refresh button.                                                     *)
(***************************************************************************)
Labels == {"requested", "slow down", "failed"}

RefreshTyped ==
    /\ at \in Nat /\ left \in 0..CoolDown /\ level \in Nat /\ looked \in Nat /\ looked <= at
    /\ button \in {"ready", "asking"} \cup Labels /\ request \in {"none", "out", "accepted", "refused"}

(* The button asks while there is a request, and shows its label while the   *)
(* timer runs.                                                              *)
Phases ==
    /\ button = "asking" <=> request # "none"
    /\ button \in Labels <=> left > 0

(* For a page that is alone the bucket is full again when the button is.     *)
Refills ==
    ~elsewhere =>
        /\ ~tooSoon /\ request # "refused"
        /\ request \in {"none", "out"} => level + (at - looked) + left >= CoolDown

Paced == RefreshTyped /\ Phases /\ Refills

LEMMA PacedStep ==
    ASSUME Paced, UNCHANGED refreshVars \/ Refresh!RefreshNext
    PROVE  Paced'
<1>0. CoolDown \in Nat /\ CoolDown > 0
  BY PagesAssumption
<1>1. CASE UNCHANGED refreshVars
  BY <1>1 DEF refreshVars, Paced, RefreshTyped, Phases, Refills
<1>2. CASE Refresh!Press
  BY <1>0, <1>2 DEF Refresh!Press, Refresh!bucket, Paced, RefreshTyped, Phases, Refills, Labels
<1>3. ASSUME NEW ok \in BOOLEAN, Refresh!Look(ok), UNCHANGED at, Paced
      PROVE  /\ level' \in Nat /\ looked' \in Nat /\ looked' <= at'
             /\ level + (at - looked) >= CoolDown => ok
  <2>1. at \in Nat /\ level \in Nat /\ looked \in Nat /\ looked <= at
    BY DEF Paced, RefreshTyped
  <2>2. PICK full \in Nat : full = Refresh!Refilled
    BY <1>0, <2>1 DEF Refresh!Refilled
  <2>3. level + (at - looked) >= CoolDown => full >= CoolDown
    BY <1>0, <2>1, <2>2 DEF Refresh!Refilled
  <2>4. looked' = at /\ level' = (IF ok THEN full - CoolDown ELSE full)
    BY <1>3, <2>2 DEF Refresh!Look
  <2>5. ok <=> full >= CoolDown
    BY <1>3, <2>2 DEF Refresh!Look
  <2> QED BY <1>0, <1>3, <2>1, <2>2, <2>3, <2>4, <2>5
<1>4. CASE Refresh!Arrive
  <2>1. PICK ok \in BOOLEAN : Refresh!Look(ok) /\ request' = (IF ok THEN "accepted" ELSE "refused")
    BY <1>4 DEF Refresh!Arrive
  <2>2. request = "out" /\ UNCHANGED <<at, button, left, tooSoon, elsewhere>>
    BY <1>4 DEF Refresh!Arrive
  <2>3. left = 0
    BY <2>2 DEF Paced, RefreshTyped, Phases, Labels
  <2>4. ~elsewhere => ok
    BY <1>0, <1>3, <2>1, <2>2, <2>3 DEF Paced, RefreshTyped, Refills
  <2> QED BY <1>3, <2>1, <2>2, <2>4 DEF Paced, RefreshTyped, Phases, Refills
<1>5. CASE Refresh!AnotherAsks
  <2>1. PICK ok \in BOOLEAN : Refresh!Look(ok)
    BY <1>5 DEF Refresh!AnotherAsks
  <2> QED BY <1>3, <1>5, <2>1 DEF Refresh!AnotherAsks, Paced, RefreshTyped, Phases, Refills
<1>6. CASE Refresh!Passes
  <2>1. at' = at + 1 /\ left' = (IF left > 0 THEN left - 1 ELSE left) /\ button' = (IF left = 1 THEN "ready" ELSE button)
        /\ UNCHANGED <<request, level, looked, tooSoon, elsewhere>>
    BY <1>6 DEF Refresh!Passes, Refresh!bucket
  <2>2. at \in Nat /\ left \in 0..CoolDown /\ level \in Nat /\ looked \in Nat /\ looked <= at
    BY DEF Paced, RefreshTyped
  <2>3. /\ at' \in Nat /\ left' \in 0..CoolDown /\ level' \in Nat /\ looked' \in Nat /\ looked' <= at'
        /\ level + (at - looked) + left <= level' + (at' - looked') + left'
        /\ left' > 0 <=> left > 0 /\ left # 1
        /\ left = 1 => left > 0
    BY <1>0, <2>1, <2>2
  <2>4. button' \in {"ready", "asking"} \cup Labels
    BY <2>1 DEF Paced, RefreshTyped
  <2>5. "ready" \notin Labels /\ "asking" \notin Labels
    BY DEF Labels
  <2>6. Phases'
    BY <2>1, <2>3, <2>5 DEF Paced, Phases
  <2>7. RefreshTyped'
    BY <2>1, <2>3, <2>4 DEF Paced, RefreshTyped
  <2>8. CASE elsewhere
    BY <2>1, <2>6, <2>7, <2>8 DEF Paced, Refills
  <2>9. CASE ~elsewhere
    <3>1. request \in {"none", "out"} => level' + (at' - looked') + left' >= CoolDown
      BY <1>0, <2>1, <2>2, <2>3, <2>9 DEF Paced, Refills
    <3>2. Refills'
      BY <2>1, <2>9, <3>1 DEF Paced, Refills
    <3> QED BY <2>6, <2>7, <3>2 DEF Paced
  <2> QED BY <2>8, <2>9
<1>7. CASE Refresh!Reload
  <2>1. /\ request' = "none" /\ button' = "ready" /\ left' = 0 /\ elsewhere' = (elsewhere \/ button # "ready")
        /\ UNCHANGED <<at, level, looked, tooSoon>>
    BY <1>7 DEF Refresh!Reload, Refresh!bucket
  <2>2. ~elsewhere' => button = "ready"
    BY <2>1 DEF Paced, RefreshTyped
  <2>3. button = "ready" => request = "none" /\ left = 0
    BY <1>0 DEF Paced, RefreshTyped, Phases, Labels
  <2>41. at' \in Nat /\ left' \in 0..CoolDown /\ level' \in Nat /\ looked' \in Nat /\ looked' <= at'
    BY <1>0, <2>1 DEF Paced, RefreshTyped
  <2>42. button' \in {"ready", "asking"} \cup Labels /\ request' \in {"none", "out", "accepted", "refused"}
    BY <1>0, <2>1 DEF Paced, RefreshTyped
  <2>43. button' \notin Labels /\ ~(left' > 0)
    BY <1>0, <2>1 DEF Labels
  <2>44. Phases'
    BY <2>1, <2>43 DEF Phases
  <2>4. RefreshTyped' /\ Phases'
    BY <2>41, <2>42, <2>44 DEF RefreshTyped
  <2>5. Refills'
    BY <1>0, <2>1, <2>2, <2>3 DEF Paced, RefreshTyped, Refills
  <2> QED BY <2>4, <2>5 DEF Paced
<1>8. ASSUME NEW label \in Labels, Refresh!Told(label)
      PROVE  Paced'
  <2>1. request # "none" /\ request' = "none" /\ button' = label /\ left' = CoolDown
        /\ UNCHANGED <<at, level, looked, elsewhere>>
        /\ (label = "slow down" => request = "refused")
    BY <1>8 DEF Refresh!Told, Refresh!Rest, Refresh!bucket, Labels, Paced, RefreshTyped
  <2>0. tooSoon' => tooSoon \/ label = "slow down"
    BY <1>8 DEF Refresh!Told
  <2>2. left \in Nat /\ ~(left > 0)
    <3>1. button = "asking"
      BY <2>1 DEF Paced, Phases
    <3>2. button \notin Labels
      BY <3>1 DEF Labels
    <3> QED BY <1>0, <3>2 DEF Paced, RefreshTyped, Phases
  <2>30. left' = CoolDown /\ at' = at /\ level' = level /\ looked' = looked
    BY <2>1
  <2>3. at' \in Nat /\ left' \in 0..CoolDown /\ level' \in Nat /\ looked' \in Nat /\ looked' <= at' /\ left' > 0
    BY <1>0, <2>30 DEF Paced, RefreshTyped
  <2>4. button' \in Labels /\ button' # "asking"
    BY <2>1 DEF Labels
  <2>5. RefreshTyped' /\ Phases'
    BY <2>1, <2>3, <2>4 DEF RefreshTyped, Phases
  <2>60. ~elsewhere => ~tooSoon'
    BY <2>0, <2>1 DEF Paced, Refills
  <2>61. level + (at - looked) + CoolDown >= CoolDown
    BY <1>0 DEF Paced, RefreshTyped
  <2>6. ~elsewhere => ~tooSoon' /\ level + (at - looked) + CoolDown >= CoolDown
    BY <2>60, <2>61
  <2>7. Refills'
    BY <2>1, <2>6 DEF Refills
  <2> QED BY <2>5, <2>7 DEF Paced
<1> QED BY <1>1, <1>2, <1>4, <1>5, <1>6, <1>7, <1>8 DEF Refresh!RefreshNext, Labels

LEMMA Suffix ==
    ASSUME NEW times \in Seq(Nat), NEW f \in 1..Len(times), NEW kept \in Seq(Nat), kept = SubSeq(times, f, Len(times))
    PROVE  /\ Len(kept) = Len(times) - f + 1
           /\ \A i \in DOMAIN kept : f + i - 1 \in DOMAIN times /\ kept[i] = times[f + i - 1]
           /\ \A j \in DOMAIN times : f <= j => j - f + 1 \in DOMAIN kept /\ kept[j - f + 1] = times[j]
<1>2. Len(kept) = Len(times) - f + 1 /\ Len(times) \in Nat
  OBVIOUS
<1>3. DOMAIN kept = 1..(Len(times) - f + 1) /\ DOMAIN times = 1..Len(times)
  BY <1>2
<1>4. \A i \in 1..(Len(times) - f + 1) : kept[i] = times[f + i - 1]
  OBVIOUS
<1>5. \A i \in DOMAIN kept : f + i - 1 \in DOMAIN times
  BY <1>2, <1>3
<1>6. ASSUME NEW j \in DOMAIN times, f <= j
      PROVE  j - f + 1 \in DOMAIN kept /\ kept[j - f + 1] = times[j]
  <2>1. PICK i \in Nat : i = j - f + 1 /\ i \in 1..(Len(times) - f + 1) /\ f + i - 1 = j
    BY <1>2, <1>3, <1>6
  <2> QED BY <1>3, <1>4, <2>1
<1> QED BY <1>2, <1>3, <1>4, <1>5, <1>6

(* What is kept of the times of earlier refreshes: some of them, and among    *)
(* them all within the window.                                              *)
LEMMA KeptTimes ==
    ASSUME NEW times \in Seq(Nat), NEW kept, kept = Refresh!Kept(times)
    PROVE  /\ kept \in Seq(Nat)
           /\ \A i \in DOMAIN kept : \E j \in DOMAIN times : times[j] = kept[i]
           /\ \A j \in DOMAIN times : at - times[j] < NudgeWindow => \E i \in DOMAIN kept : kept[i] = times[j]
           /\ Len(kept) >= 1 <=> \E j \in DOMAIN times : at - times[j] < NudgeWindow
<1>0. PICK recent \in SUBSET (DOMAIN times) : recent = {i \in DOMAIN times : at - times[i] < NudgeWindow}
  OBVIOUS
<1>1. CASE recent = {}
  <2>1. kept = <<>>
    BY <1>0, <1>1 DEF Refresh!Kept
  <2> QED BY <1>0, <1>1, <2>1
<1>2. CASE recent # {}
  <2>1. recent \subseteq Nat
    OBVIOUS
  <2>3. \E k \in recent : \A j \in recent : k <= j
    BY <1>2, <2>1, Earliest
  <2>4. PICK f \in recent : f = CHOOSE k \in recent : \A j \in recent : k <= j
    BY <2>3
  <2>5. \A j \in recent : f <= j
    BY <2>3, <2>4
  <2>6. kept = SubSeq(times, f, Len(times))
    BY <1>0, <1>2, <2>4 DEF Refresh!Kept
  <2>7. f \in 1..Len(times)
    OBVIOUS
  <2>80. kept \in Seq(Nat)
    <3>1. SubSeq(times, f, Len(times)) \in Seq(Nat)
      BY <2>7
    <3> QED BY <2>6, <3>1
  <2>8. /\ Len(kept) = Len(times) - f + 1
        /\ \A i \in DOMAIN kept : f + i - 1 \in DOMAIN times /\ kept[i] = times[f + i - 1]
        /\ \A j \in DOMAIN times : f <= j => j - f + 1 \in DOMAIN kept /\ kept[j - f + 1] = times[j]
    BY <2>6, <2>7, <2>80, Suffix
  <2>9. \A i \in DOMAIN kept : \E j \in DOMAIN times : times[j] = kept[i]
    BY <2>8, Zenon
  <2>10. \A j \in recent : \E i \in DOMAIN kept : kept[i] = times[j]
    BY <2>5, <2>8, Zenon
  <2>11. Len(kept) >= 1
    BY <2>7, <2>8
  <2> QED BY <1>0, <2>80, <2>8, <2>9, <2>10, <2>11, Zenon
<1> QED BY <1>1, <1>2

LEMMA Appending ==
    ASSUME NEW s \in Seq(Nat), NEW x \in Nat, NEW r \in Seq(Nat), r = Append(s, x)
    PROVE  /\ Len(s) + 1 \in DOMAIN r /\ r[Len(s) + 1] = x
           /\ \A i \in DOMAIN s : i \in DOMAIN r /\ r[i] = s[i] /\ i < Len(s) + 1
           /\ \A i \in DOMAIN r : i \in DOMAIN s \/ i = Len(s) + 1
           /\ Len(r) = Len(s) + 1 /\ DOMAIN s \subseteq Nat /\ DOMAIN r \subseteq Nat
OBVIOUS

(* The clicks that are remembered are presses, and among them all that are    *)
(* within the window; the reloads that are remembered end with this one,      *)
(* unless it has brought up the hint.                                       *)
Remembered ==
    /\ clicks \in Seq(Nat) /\ pressed \in Seq(Nat)
    /\ \A i \in DOMAIN clicks : \E j \in DOMAIN pressed : pressed[j] = clicks[i]
    /\ \A j \in DOMAIN pressed : at - pressed[j] < NudgeWindow => \E i \in DOMAIN clicks : clicks[i] = pressed[j]
Reloaded ==
    /\ reloads \in Seq(Nat) /\ load.t \in Int /\ load.hint \in BOOLEAN
    /\ \/ load.t = -1 /\ ~load.hint /\ reloads = <<>>
       \/ load.t \in Nat /\ load.hint /\ reloads = <<>>
       \/ /\ load.t \in Nat /\ ~load.hint
          /\ \E i \in DOMAIN reloads : reloads[i] = load.t
          /\ \A i \in DOMAIN reloads : reloads[i] <= load.t
Hinted ==
    /\ at \in Nat /\ Remembered /\ Reloaded
    /\ load.hint <=> (prior.t >= 0 /\ ~prior.hint /\ load.t - prior.t < NudgeWindow)
    /\ nudged \in BOOLEAN /\ (nudged <=> load.hint \/ Refresh!Close(pressed))

LEMMA CloseAppended ==
    ASSUME NEW times \in Seq(Nat), NEW more \in Seq(Nat), at \in Nat, more = Append(times, at)
    PROVE  Refresh!Close(more) <=> Refresh!Close(times) \/ \E i \in DOMAIN times : at - times[i] < NudgeWindow
<1>0. NudgeWindow \in Int
  BY PagesAssumption
<1>1. /\ Len(times) + 1 \in DOMAIN more /\ more[Len(times) + 1] = at
      /\ \A i \in DOMAIN times : i \in DOMAIN more /\ more[i] = times[i] /\ i < Len(times) + 1
      /\ \A i \in DOMAIN more : i \in DOMAIN times \/ i = Len(times) + 1
      /\ DOMAIN times \subseteq Nat /\ DOMAIN more \subseteq Nat
  BY Appending
<1>2. ASSUME Refresh!Close(more)
      PROVE  Refresh!Close(times) \/ \E i \in DOMAIN times : at - times[i] < NudgeWindow
  <2>1. PICK i \in DOMAIN more, j \in DOMAIN more : i < j /\ more[j] - more[i] < NudgeWindow
    BY <1>2 DEF Refresh!Close
  <2>2. CASE j \in DOMAIN times
    <3>1. i \in DOMAIN times
      BY <1>1, <2>1, <2>2
    <3> QED BY <1>1, <2>1, <2>2, <3>1 DEF Refresh!Close
  <2>3. CASE j = Len(times) + 1
    <3>1. i \in DOMAIN times
      BY <1>1, <2>1, <2>3
    <3> QED BY <1>1, <2>1, <2>3, <3>1
  <2> QED BY <1>1, <2>2, <2>3
<1>3. ASSUME Refresh!Close(times)
      PROVE  Refresh!Close(more)
  <2>1. PICK i \in DOMAIN times, j \in DOMAIN times : i < j /\ times[j] - times[i] < NudgeWindow
    BY <1>3 DEF Refresh!Close
  <2> QED BY <1>1, <2>1 DEF Refresh!Close
<1>4. ASSUME NEW i \in DOMAIN times, at - times[i] < NudgeWindow
      PROVE  Refresh!Close(more)
  BY <1>1, <1>4 DEF Refresh!Close
<1> QED BY <1>2, <1>3, <1>4

(* What a refresh makes of the times of earlier ones.                        *)
LEMMA Recording ==
    ASSUME NEW times \in Seq(Nat), at \in Nat, NEW more, more = Refresh!Recorded(times)
    PROVE  /\ more \in Seq(Nat)
           /\ \A i \in DOMAIN more : more[i] = at \/ \E j \in DOMAIN times : times[j] = more[i]
           /\ \A j \in DOMAIN times : at - times[j] < NudgeWindow => \E i \in DOMAIN more : more[i] = times[j]
           /\ \E i \in DOMAIN more : more[i] = at
           /\ Refresh!Crosses(times) <=> \E j \in DOMAIN times : at - times[j] < NudgeWindow
           /\ Refresh!Crosses(times) \in BOOLEAN
<1>1. PICK kept \in Seq(Nat) : kept = Refresh!Kept(times)
  BY KeptTimes
<1>2. /\ \A i \in DOMAIN kept : \E j \in DOMAIN times : times[j] = kept[i]
      /\ \A j \in DOMAIN times : at - times[j] < NudgeWindow => \E i \in DOMAIN kept : kept[i] = times[j]
      /\ Len(kept) >= 1 <=> \E j \in DOMAIN times : at - times[j] < NudgeWindow
  BY <1>1, KeptTimes
<1>3. more = Append(kept, at)
  BY <1>1 DEF Refresh!Recorded
<1>4. more \in Seq(Nat)
  BY <1>3
<1>5. /\ Len(kept) + 1 \in DOMAIN more /\ more[Len(kept) + 1] = at
      /\ \A i \in DOMAIN kept : i \in DOMAIN more /\ more[i] = kept[i]
      /\ \A i \in DOMAIN more : i \in DOMAIN kept \/ i = Len(kept) + 1
      /\ Len(more) = Len(kept) + 1
  BY <1>3, <1>4, Appending
<1>6. Len(more) >= 2 <=> Len(kept) >= 1
  BY <1>2, <1>5
<1>7. (Refresh!Crosses(times) <=> Len(kept) >= 1) /\ Refresh!Crosses(times) \in BOOLEAN
  <2>1. PICK n \in Nat : n = Len(more)
    BY <1>4
  <2>2. (n >= 2) \in BOOLEAN
    OBVIOUS
  <2>3. Refresh!Crosses(times) = (n >= 2)
    BY <2>1 DEF Refresh!Crosses
  <2> QED BY <1>6, <2>1, <2>2, <2>3, Zenon
<1>8. \A i \in DOMAIN more : more[i] = at \/ \E j \in DOMAIN times : times[j] = more[i]
  <2> SUFFICES ASSUME NEW i \in DOMAIN more PROVE more[i] = at \/ \E j \in DOMAIN times : times[j] = more[i]
    OBVIOUS
  <2>1. ASSUME i \in DOMAIN kept PROVE \E j \in DOMAIN times : times[j] = more[i]
    <3>1. PICK j \in DOMAIN times : times[j] = kept[i]
      BY <1>2, <2>1
    <3> QED BY <1>5, <2>1, <3>1, Zenon
  <2> QED BY <1>5, <2>1, Zenon
<1>9. \A j \in DOMAIN times : at - times[j] < NudgeWindow => \E i \in DOMAIN more : more[i] = times[j]
  BY <1>2, <1>5, Zenon
<1> QED BY <1>2, <1>4, <1>5, <1>7, <1>8, <1>9, Zenon

LEMMA HintedStep ==
    ASSUME Hinted, UNCHANGED refreshVars \/ Refresh!RefreshNext
    PROVE  Hinted'
<1>0. NudgeWindow \in Nat /\ at \in Nat
  BY PagesAssumption DEF Hinted
<1>1. ASSUME UNCHANGED <<clicks, reloads, nudged, pressed, load, prior>>, at' \in Nat, at' >= at
      PROVE  Hinted'
  <2>1. Remembered'
    <3>1. \A j \in DOMAIN pressed : pressed[j] \in Nat
      BY DEF Hinted, Remembered
    <3>2. \A j \in DOMAIN pressed : at' - pressed[j] < NudgeWindow => at - pressed[j] < NudgeWindow
      BY <1>0, <1>1, <3>1
    <3> QED BY <1>1, <3>2 DEF Hinted, Remembered
  <2>2. Reloaded'
    BY <1>1 DEF Hinted, Reloaded
  <2>3. Refresh!Close(pressed)' <=> Refresh!Close(pressed)
    BY <1>1 DEF Refresh!Close
  <2> QED BY <1>1, <2>1, <2>2, <2>3 DEF Hinted
<1>2. CASE Refresh!Press
  <2>1. /\ clicks' = Refresh!Recorded(clicks) /\ pressed' = Append(pressed, at)
        /\ UNCHANGED <<at, reloads, load, prior>>
    BY <1>2 DEF Refresh!Press
  <2>2. nudged' = (nudged \/ Refresh!Crosses(clicks))
    BY <1>2 DEF Refresh!Press
  <2>3. clicks \in Seq(Nat) /\ pressed \in Seq(Nat) /\ pressed' \in Seq(Nat)
    BY <1>0, <2>1 DEF Hinted, Remembered
  <2>4. /\ clicks' \in Seq(Nat)
        /\ \A i \in DOMAIN clicks' : clicks'[i] = at \/ \E j \in DOMAIN clicks : clicks[j] = clicks'[i]
        /\ \A j \in DOMAIN clicks : at - clicks[j] < NudgeWindow => \E i \in DOMAIN clicks' : clicks'[i] = clicks[j]
        /\ \E i \in DOMAIN clicks' : clicks'[i] = at
        /\ Refresh!Crosses(clicks) <=> \E j \in DOMAIN clicks : at - clicks[j] < NudgeWindow
    BY <1>0, <2>1, <2>3, Recording
  <2>5. /\ Len(pressed) + 1 \in DOMAIN pressed' /\ pressed'[Len(pressed) + 1] = at
        /\ \A i \in DOMAIN pressed : i \in DOMAIN pressed' /\ pressed'[i] = pressed[i]
        /\ \A i \in DOMAIN pressed' : i \in DOMAIN pressed \/ i = Len(pressed) + 1
    BY <1>0, <2>1, <2>3, Appending
  <2>6. /\ \A i \in DOMAIN clicks : \E j \in DOMAIN pressed : pressed[j] = clicks[i]
        /\ \A j \in DOMAIN pressed : at - pressed[j] < NudgeWindow => \E i \in DOMAIN clicks : clicks[i] = pressed[j]
    BY DEF Hinted, Remembered
  <2>7. \A i \in DOMAIN clicks' : \E j \in DOMAIN pressed' : pressed'[j] = clicks'[i]
    <3> SUFFICES ASSUME NEW i \in DOMAIN clicks' PROVE \E j \in DOMAIN pressed' : pressed'[j] = clicks'[i]
      OBVIOUS
    <3>1. CASE clicks'[i] = at
      BY <2>5, <3>1, Zenon
    <3>2. ASSUME NEW k \in DOMAIN clicks, clicks[k] = clicks'[i] PROVE \E j \in DOMAIN pressed' : pressed'[j] = clicks'[i]
      <4>1. PICK j \in DOMAIN pressed : pressed[j] = clicks[k]
        BY <2>6
      <4> QED BY <2>5, <3>2, <4>1, Zenon
    <3> QED BY <2>4, <3>1, <3>2, Zenon
  <2>8. \A j \in DOMAIN pressed' : at - pressed'[j] < NudgeWindow => \E i \in DOMAIN clicks' : clicks'[i] = pressed'[j]
    <3> SUFFICES ASSUME NEW j \in DOMAIN pressed', at - pressed'[j] < NudgeWindow
                 PROVE  \E i \in DOMAIN clicks' : clicks'[i] = pressed'[j]
      OBVIOUS
    <3>1. CASE j \in DOMAIN pressed
      <4>1. pressed'[j] = pressed[j]
        BY <2>5, <3>1
      <4>2. PICK k \in DOMAIN clicks : clicks[k] = pressed[j]
        BY <2>6, <3>1, <4>1, Zenon
      <4>3. at - clicks[k] < NudgeWindow
        BY <4>1, <4>2, Zenon
      <4>4. PICK i \in DOMAIN clicks' : clicks'[i] = clicks[k]
        BY <2>4, <4>3, Zenon
      <4> QED BY <4>1, <4>2, <4>4, Zenon
    <3>2. CASE j = Len(pressed) + 1
      BY <2>4, <2>5, <3>2, Zenon
    <3> QED BY <2>5, <3>1, <3>2, Zenon
  <2>9. Remembered'
    <3>1. at' = at
      BY <2>1
    <3> QED BY <2>3, <2>4, <2>7, <2>8, <3>1 DEF Remembered
  <2>10. Reloaded'
    BY <2>1 DEF Hinted, Reloaded
  <2>11. Refresh!Crosses(clicks) <=> \E i \in DOMAIN pressed : at - pressed[i] < NudgeWindow
    <3>1. ASSUME NEW j \in DOMAIN clicks, at - clicks[j] < NudgeWindow PROVE \E i \in DOMAIN pressed : at - pressed[i] < NudgeWindow
      <4>1. PICK i \in DOMAIN pressed : pressed[i] = clicks[j]
        BY <2>6
      <4> QED BY <3>1, <4>1, Zenon
    <3>2. ASSUME NEW i \in DOMAIN pressed, at - pressed[i] < NudgeWindow PROVE \E j \in DOMAIN clicks : at - clicks[j] < NudgeWindow
      <4>1. PICK j \in DOMAIN clicks : clicks[j] = pressed[i]
        BY <2>6, <3>2, Zenon
      <4> QED BY <3>2, <4>1, Zenon
    <3> QED BY <2>4, <3>1, <3>2, Zenon
  <2>12. Refresh!Close(pressed') <=> Refresh!Close(pressed) \/ Refresh!Crosses(clicks)
    <3>1. PICK more \in Seq(Nat) : more = pressed'
      BY <2>3
    <3>2. Refresh!Close(more) <=> Refresh!Close(pressed) \/ \E i \in DOMAIN pressed : at - pressed[i] < NudgeWindow
      BY <1>0, <2>1, <2>3, <3>1, CloseAppended
    <3> QED BY <2>11, <3>1, <3>2, Zenon
  <2>13. nudged' \in BOOLEAN /\ (nudged' <=> load.hint \/ Refresh!Close(pressed'))
    <3>1. nudged' \in BOOLEAN
      BY <2>2
    <3>2. nudged' <=> nudged \/ Refresh!Crosses(clicks)
      BY <2>2
    <3>3. nudged <=> load.hint \/ Refresh!Close(pressed)
      BY DEF Hinted
    <3> QED BY <2>12, <3>1, <3>2, <3>3, Zenon
  <2>14. Refresh!Close(pressed)' = Refresh!Close(pressed')
    BY DEF Refresh!Close
  <2>15. /\ (load.hint <=> (prior.t >= 0 /\ ~prior.hint /\ load.t - prior.t < NudgeWindow))'
    BY <2>1 DEF Hinted
  <2>16. at' \in Nat
    BY <1>0, <2>1
  <2>17. nudged' <=> load'.hint \/ Refresh!Close(pressed)'
    BY <2>1, <2>13, <2>14, Zenon
  <2> QED BY <2>9, <2>10, <2>13, <2>15, <2>16, <2>17 DEF Hinted
<1>3. CASE Refresh!Reload
  <2>0. Refresh!Crosses(reloads) \in BOOLEAN
    <3>1. reloads \in Seq(Nat)
      BY DEF Hinted, Reloaded
    <3> QED BY <1>0, <3>1, Recording
  <2>1. PICK crossed \in BOOLEAN : crossed = Refresh!Crosses(reloads)
    BY <2>0, Zenon
  <2>2. /\ clicks' = <<>> /\ pressed' = <<>> /\ nudged' = crossed /\ prior' = load
        /\ load' = [t |-> at, hint |-> crossed] /\ at' = at
        /\ reloads' = IF crossed THEN <<>> ELSE Refresh!Recorded(reloads)
    BY <1>3, <2>1 DEF Refresh!Reload
  <2>3. reloads \in Seq(Nat)
    BY DEF Hinted, Reloaded
  <2>4. PICK more : more = Refresh!Recorded(reloads)
    OBVIOUS
  <2>5. /\ more \in Seq(Nat)
        /\ \A i \in DOMAIN more : more[i] = at \/ \E j \in DOMAIN reloads : reloads[j] = more[i]
        /\ \E i \in DOMAIN more : more[i] = at
        /\ Refresh!Crosses(reloads) <=> \E j \in DOMAIN reloads : at - reloads[j] < NudgeWindow
    BY <1>0, <2>3, <2>4, Recording
  <2>6. Remembered'
    BY <1>0, <2>2 DEF Remembered
  <2>7. load'.t = at /\ load'.hint = crossed
    BY <2>2
  <2>8. Reloaded'
    <3>1. CASE crossed
      <4>1. reloads' = <<>>
        BY <2>2, <3>1
      <4> QED BY <1>0, <2>7, <3>1, <4>1 DEF Reloaded
    <3>2. CASE ~crossed
      <4>1. reloads' = more
        BY <2>2, <2>4, <3>2
      <4>2. \A j \in DOMAIN reloads : reloads[j] \in Nat /\ at - reloads[j] >= NudgeWindow
        <5>1. \A j \in DOMAIN reloads : reloads[j] \in Nat /\ ~(at - reloads[j] < NudgeWindow)
          BY <2>1, <2>3, <2>5, <3>2
        <5> QED BY <1>0, <5>1
      <4>3. \A i \in DOMAIN more : more[i] <= at
        <5> SUFFICES ASSUME NEW i \in DOMAIN more PROVE more[i] <= at
          OBVIOUS
        <5>1. CASE more[i] = at
          BY <1>0, <5>1
        <5>2. ASSUME NEW j \in DOMAIN reloads, reloads[j] = more[i] PROVE more[i] <= at
          <6>1. reloads[j] <= at
            BY <1>0, <4>2
          <6> QED BY <5>2, <6>1
        <5> QED BY <2>5, <5>1, <5>2
      <4>4. reloads' \in Seq(Nat) /\ (\E i \in DOMAIN reloads' : reloads'[i] = load'.t) /\ \A i \in DOMAIN reloads' : reloads'[i] <= load'.t
        BY <2>5, <2>7, <4>1, <4>3
      <4>5. load'.t \in Nat /\ load'.t \in Int /\ load'.hint \in BOOLEAN /\ ~load'.hint
        BY <1>0, <2>1, <2>7, <3>2
      <4> QED BY <4>4, <4>5 DEF Reloaded
    <3> QED BY <3>1, <3>2
  <2>9. crossed <=> (load.t >= 0 /\ ~load.hint /\ at - load.t < NudgeWindow)
    <3>1. CASE reloads = <<>>
      <4>1. ~crossed
        BY <2>1, <2>5, <3>1
      <4>2. load.t < 0 \/ load.hint
        BY <3>1 DEF Hinted, Reloaded
      <4>3. load.t \in Int
        BY DEF Hinted, Reloaded
      <4> QED BY <4>1, <4>2, <4>3
    <3>2. CASE reloads # <<>>
      <4>1. /\ load.t \in Nat /\ ~load.hint
            /\ \E i \in DOMAIN reloads : reloads[i] = load.t
            /\ \A i \in DOMAIN reloads : reloads[i] <= load.t
        BY <3>2 DEF Hinted, Reloaded
      <4>2. PICK t \in Nat : t = load.t
        BY <4>1
      <4>3. ASSUME NEW j \in DOMAIN reloads, at - reloads[j] < NudgeWindow PROVE at - t < NudgeWindow
        <5>1. reloads[j] <= t /\ reloads[j] \in Nat
          BY <2>3, <4>1, <4>2
        <5> QED BY <1>0, <4>3, <5>1
      <4>4. ASSUME at - t < NudgeWindow PROVE \E j \in DOMAIN reloads : at - reloads[j] < NudgeWindow
        BY <4>1, <4>2, <4>4
      <4>5. crossed <=> at - t < NudgeWindow
        BY <2>1, <2>5, <4>3, <4>4, Zenon
      <4>6. t >= 0
        OBVIOUS
      <4> QED BY <4>1, <4>2, <4>5, <4>6
    <3> QED BY <3>1, <3>2
  <2>10. ~Refresh!Close(pressed)'
    BY <2>2 DEF Refresh!Close
  <2>11. /\ load'.hint <=> (prior'.t >= 0 /\ ~prior'.hint /\ load'.t - prior'.t < NudgeWindow)
    BY <2>2, <2>7, <2>9, Zenon
  <2>12. nudged' \in BOOLEAN /\ (nudged' <=> load'.hint \/ Refresh!Close(pressed)') /\ at' \in Nat
    BY <1>0, <2>2, <2>7, <2>10, Zenon
  <2> QED BY <2>6, <2>8, <2>11, <2>12 DEF Hinted
<1>4. CASE Refresh!Passes
  <2>1. at' \in Nat /\ at' >= at
    BY <1>0, <1>4 DEF Refresh!Passes
  <2>2. UNCHANGED <<clicks, reloads, nudged, pressed, load, prior>>
    BY <1>4 DEF Refresh!Passes, Refresh!hint
  <2> QED BY <1>1, <2>1, <2>2
<1>5. ASSUME UNCHANGED <<at, clicks, reloads, nudged, pressed, load, prior>>
      PROVE  Hinted'
  <2>1. at' \in Nat /\ at' >= at
    BY <1>0, <1>5
  <2> QED BY <1>1, <1>5, <2>1
<1>6. CASE Refresh!Arrive \/ Refresh!AnotherAsks \/ UNCHANGED refreshVars
  BY <1>5, <1>6 DEF Refresh!Arrive, Refresh!AnotherAsks, Refresh!hint, refreshVars
<1>7. ASSUME NEW label \in Labels, Refresh!Told(label)
      PROVE  Hinted'
  BY <1>5, <1>7 DEF Refresh!Told, Refresh!hint
<1> QED BY <1>2, <1>3, <1>4, <1>6, <1>7 DEF Refresh!RefreshNext, Labels

LEMMA RefreshStart == Init => Paced /\ Hinted
<1> SUFFICES ASSUME Init PROVE Paced /\ Hinted
  OBVIOUS
<1>0. CoolDown \in Nat /\ CoolDown > 0
  BY PagesAssumption
<1>1. Refresh!RefreshInit
  BY DEF Init
<1>2. at = 0 /\ button = "ready" /\ left = 0 /\ request = "none" /\ level = CoolDown /\ looked = 0
  BY <1>1 DEF Refresh!RefreshInit
<1>3. clicks = <<>> /\ reloads = <<>> /\ pressed = <<>> /\ nudged = FALSE /\ tooSoon = FALSE
  BY <1>1 DEF Refresh!RefreshInit
<1>4. load.t = -1 /\ load.hint = FALSE /\ prior.t = -1 /\ prior.hint = FALSE
  BY <1>1 DEF Refresh!RefreshInit, Refresh!NoReload
<1>5. Paced
  <2>1. "ready" \notin Labels
    BY DEF Labels
  <2>2. RefreshTyped /\ Phases
    BY <1>0, <1>2, <2>1 DEF RefreshTyped, Phases
  <2>3. Refills
    BY <1>0, <1>2, <1>3 DEF Refills
  <2> QED BY <2>2, <2>3 DEF Paced
<1>6. Hinted
  <2>1. Remembered /\ Reloaded
    <3>1. Remembered
      BY <1>2, <1>3 DEF Remembered
    <3>2. load.t \in Int
      BY <1>4
    <3>4. load.hint \in BOOLEAN /\ ~load.hint
      BY <1>4, Zenon
    <3> QED BY <1>3, <1>4, <3>1, <3>2, <3>4 DEF Reloaded
  <2>2. ~Refresh!Close(pressed)
    BY <1>3 DEF Refresh!Close
  <2>3. ~(prior.t >= 0) /\ at \in Nat
    BY <1>2, <1>4
  <2> QED BY <1>3, <1>4, <2>1, <2>2, <2>3 DEF Hinted
<1> QED BY <1>5, <1>6

LEMMA RefreshHonest == Paced /\ Hinted => Refresh!NeverTooSoon /\ Refresh!NudgeEarned
<1> SUFFICES ASSUME Paced, Hinted PROVE Refresh!NeverTooSoon /\ Refresh!NudgeEarned
  OBVIOUS
<1>1. Refresh!NeverTooSoon
  BY DEF Paced, Refills, Refresh!NeverTooSoon
<1>2. load.hint = (prior.t >= 0 /\ ~prior.hint /\ load.t - prior.t < NudgeWindow)
  BY Zenon DEF Hinted, Reloaded
<1>3. nudged = (load.hint \/ Refresh!Close(pressed))
  BY Zenon DEF Hinted
<1> QED BY <1>1, <1>2, <1>3 DEF Refresh!NudgeEarned

(***************************************************************************)
(* Notifications on a device.                                              *)
(***************************************************************************)
Steps == {"idle", "asking", "subscribing", "posting", "found", "written", "failed"}
Who == Accounts \cup {"none"}
DeviceTyped ==
    /\ ends \in Nat /\ endpoint \in Nat /\ endpoint <= ends /\ made \in Nat /\ cookie \in Who
    /\ enabling \in [Tabs -> [pc : Steps, account : Who, endpoint : Nat, existing : Nat]]
    /\ owes \in [Tabs -> [account : Who, endpoint : Nat]]
    /\ rows \in SUBSET [id : Nat, account : Who, endpoint : Nat]
    /\ push \in [id : Nat, answer : {"none", "failed", "ok", "gone"}]

(* Rows are not older than the endpoints handed out, and are told apart.      *)
RowsKnown ==
    /\ \A r \in rows : r.id >= 1 /\ r.id <= made /\ r.endpoint >= 1 /\ r.endpoint <= ends
    /\ \A r, q \in rows : r.id = q.id => r = q
Has(account, end) == \E r \in rows : r.account = account /\ r.endpoint = end

(* What an enable() under way has seen still holds when it writes.            *)
Subscribing ==
    \A t \in Tabs :
        /\ enabling[t].pc \in {"posting", "found", "written", "failed"} =>
             enabling[t].endpoint >= 1 /\ enabling[t].endpoint <= ends
        /\ enabling[t].pc = "found" =>
             /\ enabling[t].existing <= made
             /\ \A r \in rows : r.id = enabling[t].existing =>
                   r.account = enabling[t].account /\ r.endpoint = enabling[t].endpoint
             /\ enabling[t].existing = 0 /\ ~together => ~Has(enabling[t].account, enabling[t].endpoint)
        /\ enabling[t].pc = "written" /\ enabling[t].endpoint = endpoint =>
             Has(enabling[t].account, enabling[t].endpoint)
OneFinds ==
    ~together => \A t, u \in Tabs : enabling[t].pc = "found" /\ enabling[u].pc = "found" => t = u
Owing ==
    \A t \in Tabs : owes[t].endpoint <= ends /\
        (owes[t].endpoint # 0 /\ owes[t].endpoint = endpoint => Has(owes[t].account, endpoint))
        /\ (owes[t].endpoint = 0 => owes[t].account = "none")

(* A row is pruned for an endpoint that has ended.                           *)
Pruning ==
    push.id <= made /\ (push.answer = "gone" => \A r \in rows : r.id = push.id => r.endpoint # endpoint)
OneRow == ~together => \A r, q \in rows : r.account = q.account /\ r.endpoint = q.endpoint => r = q

DeviceInv == DeviceTyped /\ RowsKnown /\ Subscribing /\ OneFinds /\ Owing /\ Pruning /\ OneRow

(* Steps that change neither the rows nor the endpoint, and of the tabs only   *)
(* one, which has not found or written anything.                              *)
LEMMA DeviceQuiet ==
    ASSUME DeviceInv, UNCHANGED <<endpoint, ends, rows, made, push, together>>, cookie' \in Who,
           NEW t \in Tabs, NEW e \in [pc : Steps, account : Who, endpoint : Nat, existing : Nat],
           e.pc \notin {"found", "written"},
           e.pc \in {"posting", "failed"} => e.endpoint >= 1 /\ e.endpoint <= ends,
           enabling' = [enabling EXCEPT ![t] = e],
           owes' \in [Tabs -> [account : Who, endpoint : Nat]], Owing'
    PROVE  DeviceInv'
<1>1. DeviceTyped'
  BY DEF DeviceInv, DeviceTyped
<1>2. RowsKnown' /\ Pruning' /\ OneRow'
  BY DEF DeviceInv, RowsKnown, Pruning, OneRow
<1>3. \A u \in Tabs : enabling'[u] = IF u = t THEN e ELSE enabling[u]
  BY DEF DeviceInv, DeviceTyped
<1>4. OneFinds'
  BY <1>3 DEF DeviceInv, OneFinds
<1>5. Subscribing'
  BY <1>3 DEF DeviceInv, Subscribing, Has
<1> QED BY <1>1, <1>2, <1>4, <1>5 DEF DeviceInv

LEMMA DeviceStep ==
    ASSUME DeviceInv, UNCHANGED pushVars \/ Push!PushNext
    PROVE  DeviceInv'
<1> USE DEF Push!browser, Push!table, Push!NoRow
<1>0. /\ ends \in Nat /\ endpoint \in Nat /\ endpoint <= ends /\ made \in Nat /\ cookie \in Who
      /\ enabling \in [Tabs -> [pc : Steps, account : Who, endpoint : Nat, existing : Nat]]
      /\ owes \in [Tabs -> [account : Who, endpoint : Nat]]
      /\ rows \in SUBSET [id : Nat, account : Who, endpoint : Nat]
      /\ push \in [id : Nat, answer : {"none", "failed", "ok", "gone"}]
  BY DEF DeviceInv, DeviceTyped
<1>01. Push!Idle = [pc |-> "idle", account |-> "none", endpoint |-> 0, existing |-> 0]
       /\ Push!Idle \in [pc : Steps, account : Who, endpoint : Nat, existing : Nat]
  BY DEF Push!Idle, Steps, Who
<1>02. Push!NothingOwed = [account |-> "none", endpoint |-> 0] /\ Push!NothingOwed \in [account : Who, endpoint : Nat]
  BY DEF Push!NothingOwed, Who
<1>1. CASE UNCHANGED <<cookie, endpoint, ends, enabling, rows, made, push, owes, together>>
  BY <1>1 DEF DeviceInv, DeviceTyped, RowsKnown, Subscribing, OneFinds, Owing, Pruning, OneRow, Has
<1>2. ASSUME NEW t \in Tabs, NEW e \in [pc : Steps, account : Who, endpoint : Nat, existing : Nat],
             e.pc \notin {"found", "written"},
             e.pc \in {"posting", "failed"} => e.endpoint >= 1 /\ e.endpoint <= ends,
             enabling' = [enabling EXCEPT ![t] = e],
             UNCHANGED <<cookie, endpoint, ends, rows, made, push, owes, together>>
      PROVE  DeviceInv'
  <2>1. Owing'
    BY <1>2 DEF DeviceInv, Owing, Has
  <2>2. cookie' \in Who /\ owes' \in [Tabs -> [account : Who, endpoint : Nat]]
    BY <1>0, <1>2
  <2> QED BY <1>2, <2>1, <2>2, DeviceQuiet
<1>3. ASSUME NEW t \in Tabs, Push!Press(t)
      PROVE  DeviceInv'
  <2>1. PICK e : e = [Push!Idle EXCEPT !.pc = "asking"]
    OBVIOUS
  <2>2. e = [pc |-> "asking", account |-> "none", endpoint |-> 0, existing |-> 0]
    BY <1>01, <2>1
  <2>3. e \in [pc : Steps, account : Who, endpoint : Nat, existing : Nat] /\ e.pc = "asking"
    BY <2>2 DEF Steps, Who
  <2>4. enabling' = [enabling EXCEPT ![t] = e]
    BY <1>3, <2>1 DEF Push!Press
  <2>5. UNCHANGED <<cookie, endpoint, ends, rows, made, push, owes, together>>
    BY <1>3 DEF Push!Press
  <2> QED BY <1>2, <2>3, <2>4, <2>5
<1>4. ASSUME NEW t \in Tabs, enabling' = [enabling EXCEPT ![t] = Push!Idle],
             UNCHANGED <<cookie, endpoint, ends, rows, made, push, owes, together>>
      PROVE  DeviceInv'
  <2>1. Push!Idle.pc = "idle"
    BY <1>01
  <2> QED BY <1>01, <1>2, <1>4, <2>1
<1>5. ASSUME NEW t \in Tabs, NEW p, Push!Decide(t, p)
      PROVE  DeviceInv'
  <2>1. UNCHANGED <<cookie, endpoint, ends, rows, made, push, owes, together>>
    BY <1>5 DEF Push!Decide
  <2>2. CASE p = "granted"
    <3>1. PICK e : e = [enabling[t] EXCEPT !.pc = "subscribing"]
      OBVIOUS
    <3>2. e \in [pc : Steps, account : Who, endpoint : Nat, existing : Nat] /\ e.pc = "subscribing"
      BY <1>0, <3>1 DEF Steps
    <3>3. enabling' = [enabling EXCEPT ![t] = e]
      BY <1>0, <1>5, <2>2, <3>1 DEF Push!Decide
    <3> QED BY <1>2, <2>1, <3>2, <3>3
  <2>3. CASE p # "granted"
    <3>1. enabling' = [enabling EXCEPT ![t] = Push!Idle]
      BY <1>5, <2>3 DEF Push!Decide
    <3> QED BY <1>4, <2>1, <3>1
  <2> QED BY <2>2, <2>3
<1>6. ASSUME NEW t \in Tabs, Push!Fails(t)
      PROVE  DeviceInv'
  BY <1>4, <1>6 DEF Push!Fails, Push!Answer
<1>7. ASSUME NEW t \in Tabs, Push!Mount(t)
      PROVE  DeviceInv'
  <2>1. UNCHANGED <<cookie, endpoint, ends, enabling, rows, made, push, together>> /\ owes' = [owes EXCEPT ![t] = Push!NothingOwed]
    BY <1>7 DEF Push!Mount
  <2>2. owes' \in [Tabs -> [account : Who, endpoint : Nat]]
    BY <1>0, <1>02, <2>1
  <2>3. \A u \in Tabs : owes'[u] = IF u = t THEN [account |-> "none", endpoint |-> 0] ELSE owes[u]
    BY <1>0, <1>02, <2>1
  <2>4. Owing'
    BY <1>0, <2>1, <2>3 DEF DeviceInv, Owing, Has
  <2>5. DeviceTyped' /\ RowsKnown' /\ Subscribing' /\ OneFinds' /\ Pruning' /\ OneRow'
    BY <2>1, <2>2 DEF DeviceInv, DeviceTyped, RowsKnown, Subscribing, OneFinds, Pruning, OneRow, Has
  <2> QED BY <2>4, <2>5 DEF DeviceInv
<1>8. ASSUME NEW a \in Accounts, Push!SignInAs(a)
      PROVE  DeviceInv'
  <2>1. UNCHANGED <<endpoint, ends, enabling, rows, made, push, owes, together>> /\ cookie' \in Who
    BY <1>8 DEF Push!SignInAs, Who
  <2> QED BY <2>1 DEF DeviceInv, DeviceTyped, RowsKnown, Subscribing, OneFinds, Owing, Pruning, OneRow, Has
<1>9. ASSUME endpoint' = 0, UNCHANGED <<cookie, ends, enabling, rows, made, push, owes, together>>
      PROVE  DeviceInv'
  <2>1. DeviceTyped' /\ RowsKnown' /\ OneFinds' /\ OneRow'
    BY <1>9 DEF DeviceInv, DeviceTyped, RowsKnown, OneFinds, OneRow
  <2>2. Owing'
    BY <1>0, <1>9 DEF DeviceInv, Owing, Has
  <2>3. Pruning'
    BY <1>0, <1>9 DEF DeviceInv, Pruning, RowsKnown
  <2>4. Subscribing'
    BY <1>0, <1>9 DEF DeviceInv, Subscribing, Has
  <2> QED BY <2>1, <2>2, <2>3, <2>4 DEF DeviceInv
<1>10. ASSUME NEW t \in Tabs, Push!Subscribe(t)
       PROVE  DeviceInv'
  <2>1. /\ enabling[t].pc = "subscribing"
        /\ \/ endpoint # 0 /\ endpoint' = endpoint /\ ends' = ends
           \/ endpoint = 0 /\ ends' = ends + 1 /\ endpoint' = ends + 1
        /\ UNCHANGED <<cookie, rows, made, push, owes, together>>
    BY <1>10 DEF Push!Subscribe
  <2>2. ends' \in Nat /\ endpoint' \in Nat /\ endpoint' <= ends' /\ endpoint' >= 1 /\ ends <= ends'
    BY <1>0, <2>1
  <2>3. PICK e : e = [[enabling[t] EXCEPT !.pc = "posting"] EXCEPT !.endpoint = endpoint']
    OBVIOUS
  <2>4. e \in [pc : Steps, account : Who, endpoint : Nat, existing : Nat] /\ e.pc = "posting" /\ e.endpoint = endpoint'
    BY <1>0, <2>2, <2>3 DEF Steps
  <2>5. enabling' = [enabling EXCEPT ![t] = e]
    <3>1. enabling' = [enabling EXCEPT ![t].pc = "posting", ![t].endpoint = endpoint']
      BY <1>10 DEF Push!Subscribe
    <3> QED BY <1>0, <2>3, <3>1
  <2>6. \A u \in Tabs : enabling'[u] = IF u = t THEN e ELSE enabling[u]
    BY <1>0, <2>5
  <2>7. DeviceTyped'
    BY <1>0, <2>1, <2>2, <2>4, <2>5 DEF DeviceTyped
  <2>8. RowsKnown' /\ OneRow'
    BY <1>0, <2>1, <2>2 DEF DeviceInv, RowsKnown, OneRow
  <2>9. OneFinds'
    BY <2>1, <2>4, <2>6 DEF DeviceInv, OneFinds
  <2>10. \A r \in rows : r.endpoint = endpoint' => endpoint' = endpoint
    BY <1>0, <2>1 DEF DeviceInv, RowsKnown
  <2>11. Pruning'
    BY <1>0, <2>1, <2>10 DEF DeviceInv, Pruning
  <2>12. Owing'
    <3> SUFFICES ASSUME NEW u \in Tabs
                 PROVE  /\ owes[u].endpoint <= ends'
                        /\ owes[u].endpoint # 0 /\ owes[u].endpoint = endpoint' => Has(owes[u].account, endpoint')
                        /\ owes[u].endpoint = 0 => owes[u].account = "none"
      BY <2>1 DEF Owing, Has
    <3>1. owes[u].endpoint <= ends /\ owes[u].endpoint \in Nat /\ (owes[u].endpoint = 0 => owes[u].account = "none")
          /\ (owes[u].endpoint # 0 /\ owes[u].endpoint = endpoint => Has(owes[u].account, endpoint))
      BY <1>0 DEF DeviceInv, Owing
    <3> QED BY <1>0, <2>1, <2>2, <3>1
  <2>13. Subscribing'
    <3> SUFFICES ASSUME NEW u \in Tabs
                 PROVE  /\ enabling'[u].pc \in {"posting", "found", "written", "failed"} =>
                             enabling'[u].endpoint >= 1 /\ enabling'[u].endpoint <= ends'
                        /\ enabling'[u].pc = "found" =>
                             /\ enabling'[u].existing <= made
                             /\ \A r \in rows : r.id = enabling'[u].existing =>
                                   r.account = enabling'[u].account /\ r.endpoint = enabling'[u].endpoint
                             /\ enabling'[u].existing = 0 /\ ~together => ~Has(enabling'[u].account, enabling'[u].endpoint)
                        /\ enabling'[u].pc = "written" /\ enabling'[u].endpoint = endpoint' =>
                             Has(enabling'[u].account, enabling'[u].endpoint)
      BY <2>1 DEF Subscribing, Has
    <3>1. CASE u = t
      <4>1. enabling'[u] = e
        BY <2>6, <3>1
      <4> QED BY <2>2, <2>4, <4>1
    <3>2. CASE u # t
      <4>1. enabling'[u] = enabling[u] /\ enabling[u].endpoint \in Nat
        BY <1>0, <2>6, <3>2
      <4>2. /\ enabling[u].pc \in {"posting", "found", "written", "failed"} =>
                 enabling[u].endpoint >= 1 /\ enabling[u].endpoint <= ends
            /\ enabling[u].pc = "found" =>
                 /\ enabling[u].existing <= made
                 /\ \A r \in rows : r.id = enabling[u].existing =>
                       r.account = enabling[u].account /\ r.endpoint = enabling[u].endpoint
                 /\ enabling[u].existing = 0 /\ ~together => ~Has(enabling[u].account, enabling[u].endpoint)
            /\ enabling[u].pc = "written" /\ enabling[u].endpoint = endpoint =>
                 Has(enabling[u].account, enabling[u].endpoint)
        BY DEF DeviceInv, Subscribing
      <4>3. enabling[u].pc = "written" /\ enabling[u].endpoint = endpoint' => enabling[u].endpoint = endpoint
        BY <1>0, <2>1, <4>1, <4>2
      <4> QED BY <1>0, <2>2, <4>1, <4>2, <4>3
    <3> QED BY <3>1, <3>2
  <2> QED BY <2>7, <2>8, <2>9, <2>11, <2>12, <2>13 DEF DeviceInv
<1>11. ASSUME NEW t \in Tabs, Push!Find(t)
       PROVE  DeviceInv'
  <2>1. /\ enabling[t].pc = "posting"
        /\ UNCHANGED <<cookie, endpoint, ends, rows, made, push, owes>>
    BY <1>11 DEF Push!Find
  <2>2. PICK r \in {s.id : s \in {x \in rows : x.account = cookie /\ x.endpoint = enabling[t].endpoint}}
                \cup (IF \E x \in rows : x.account = cookie /\ x.endpoint = enabling[t].endpoint THEN {} ELSE {0}) :
          enabling' = [enabling EXCEPT ![t].pc = "found", ![t].account = cookie, ![t].existing = r]
    BY <1>11 DEF Push!Find
  <2>3. /\ r \in Nat /\ r <= made
        /\ r # 0 => \E x \in rows : x.id = r /\ x.account = cookie /\ x.endpoint = enabling[t].endpoint
        /\ r = 0 => ~Has(cookie, enabling[t].endpoint)
    <3>1. CASE Has(cookie, enabling[t].endpoint)
      <4>1. PICK x \in rows : x.account = cookie /\ x.endpoint = enabling[t].endpoint /\ r = x.id
        BY <2>2, <3>1 DEF Has
      <4>2. x.id >= 1 /\ x.id <= made /\ x.id \in Nat
        BY <1>0 DEF DeviceInv, RowsKnown
      <4> QED BY <4>1, <4>2
    <3>2. CASE ~Has(cookie, enabling[t].endpoint)
      <4>1. r = 0
        BY <2>2, <3>2 DEF Has
      <4> QED BY <1>0, <3>2, <4>1
    <3> QED BY <3>1, <3>2
  <2>4. PICK e : e = [[[enabling[t] EXCEPT !.pc = "found"] EXCEPT !.account = cookie] EXCEPT !.existing = r]
    OBVIOUS
  <2>5. e \in [pc : Steps, account : Who, endpoint : Nat, existing : Nat] /\ e.pc = "found" /\ e.account = cookie
        /\ e.endpoint = enabling[t].endpoint /\ e.existing = r
    BY <1>0, <2>3, <2>4 DEF Steps
  <2>6. enabling' = [enabling EXCEPT ![t] = e]
    BY <1>0, <2>2, <2>4
  <2>7. \A u \in Tabs : enabling'[u] = IF u = t THEN e ELSE enabling[u]
    BY <1>0, <2>6
  <2>8. ~together' => ~together /\ \A u \in Tabs \ {t} : enabling[u].pc # "found"
    BY <1>11 DEF Push!Find
  <2>9. DeviceTyped' /\ RowsKnown' /\ Pruning'
    BY <1>0, <2>1, <2>5, <2>6 DEF DeviceInv, DeviceTyped, RowsKnown, Pruning
  <2>10. Owing'
    BY <2>1 DEF DeviceInv, Owing, Has
  <2>11. OneFinds'
    BY <2>7, <2>8 DEF OneFinds
  <2>12. OneRow'
    BY <2>1, <2>8 DEF DeviceInv, OneRow
  <2>13. Subscribing'
    <3> SUFFICES ASSUME NEW u \in Tabs
                 PROVE  /\ enabling'[u].pc \in {"posting", "found", "written", "failed"} =>
                             enabling'[u].endpoint >= 1 /\ enabling'[u].endpoint <= ends
                        /\ enabling'[u].pc = "found" =>
                             /\ enabling'[u].existing <= made
                             /\ \A x \in rows : x.id = enabling'[u].existing =>
                                   x.account = enabling'[u].account /\ x.endpoint = enabling'[u].endpoint
                             /\ enabling'[u].existing = 0 /\ ~together' => ~Has(enabling'[u].account, enabling'[u].endpoint)
                        /\ enabling'[u].pc = "written" /\ enabling'[u].endpoint = endpoint =>
                             Has(enabling'[u].account, enabling'[u].endpoint)
      BY <2>1 DEF Subscribing, Has
    <3>1. CASE u = t
      <4>1. enabling'[u] = e
        BY <2>7, <3>1
      <4>2. enabling[t].endpoint >= 1 /\ enabling[t].endpoint <= ends
        BY <2>1 DEF DeviceInv, Subscribing
      <4>3. \A x \in rows : x.id = r => x.account = cookie /\ x.endpoint = enabling[t].endpoint
        <5>1. \A x \in rows : x.id >= 1
          BY DEF DeviceInv, RowsKnown
        <5>2. \A x, y \in rows : x.id = y.id => x = y
          BY DEF DeviceInv, RowsKnown
        <5> QED BY <1>0, <2>3, <5>1, <5>2
      <4> QED BY <2>3, <2>5, <4>1, <4>2, <4>3
    <3>2. CASE u # t
      <4>1. enabling'[u] = enabling[u]
        BY <2>7, <3>2
      <4> QED BY <2>8, <4>1 DEF DeviceInv, Subscribing
    <3> QED BY <3>1, <3>2
  <2> QED BY <2>9, <2>10, <2>11, <2>12, <2>13 DEF DeviceInv
<1>12. ASSUME NEW t \in Tabs, Push!Write(t)
       PROVE  DeviceInv'
  <2>0. PICK e \in [pc : Steps, account : Who, endpoint : Nat, existing : Nat] : e = enabling[t]
    BY <1>0
  <2>1. /\ e.pc = "found" /\ UNCHANGED <<cookie, endpoint, ends, push, owes, together>>
        /\ \/ e.existing # 0 /\ rows' = rows /\ made' = made
           \/ /\ e.existing = 0 /\ made' = made + 1
              /\ rows' = rows \cup {[id |-> made + 1, account |-> e.account, endpoint |-> e.endpoint]}
    BY <1>12, <2>0 DEF Push!Write, Push!There
  <2>2. /\ e.endpoint >= 1 /\ e.endpoint <= ends /\ e.existing <= made
        /\ \A r \in rows : r.id = e.existing => r.account = e.account /\ r.endpoint = e.endpoint
        /\ e.existing = 0 /\ ~together => ~Has(e.account, e.endpoint)
    BY <2>0, <2>1 DEF DeviceInv, Subscribing
  <2>3. PICK added \in [id : Nat, account : Who, endpoint : Nat] :
          added = [id |-> made + 1, account |-> e.account, endpoint |-> e.endpoint]
    <3>1. made + 1 \in Nat /\ e.account \in Who /\ e.endpoint \in Nat
      BY <1>0, <2>0
    <3>2. [id |-> made + 1, account |-> e.account, endpoint |-> e.endpoint] \in [id : Nat, account : Who, endpoint : Nat]
      BY <3>1
    <3> QED BY <3>2
  <2>4. added.id = made + 1 /\ added.account = e.account /\ added.endpoint = e.endpoint
    BY <2>3
  <2>5. \/ e.existing # 0 /\ rows' = rows /\ made' = made
        \/ e.existing = 0 /\ made' = made + 1 /\ rows' = rows \cup {added}
    BY <2>1, <2>3
  <2>6. made' \in Nat /\ made <= made' /\ rows \subseteq rows' /\ rows' \subseteq rows \cup {added}
        /\ (rows' # rows => made' = made + 1 /\ e.existing = 0)
    BY <1>0, <2>5
  <2>7. PICK pc \in {"written", "failed"} :
          /\ enabling' = [enabling EXCEPT ![t] = [e EXCEPT !.pc = pc]]
          /\ pc = "written" => e.existing = 0 \/ \E r \in rows : r.id = e.existing
    <3>1. enabling' = [enabling EXCEPT ![t].pc = IF e.existing # 0 /\ ~\E r \in rows : r.id = e.existing THEN "failed" ELSE "written"]
      BY <1>12, <2>0 DEF Push!Write, Push!There
    <3> QED BY <1>0, <2>0, <3>1
  <2>8. PICK f \in [pc : Steps, account : Who, endpoint : Nat, existing : Nat] :
          f = [e EXCEPT !.pc = pc]
    BY DEF Steps
  <2>9. f.pc = pc /\ f.account = e.account /\ f.endpoint = e.endpoint /\ f.existing = e.existing
    BY <2>8
  <2>10. enabling' = [enabling EXCEPT ![t] = f]
    BY <2>7, <2>8
  <2>11. \A u \in Tabs : enabling'[u] = IF u = t THEN f ELSE enabling[u]
    BY <1>0, <2>10
  <2>12. DeviceTyped'
    <3>1. rows' \in SUBSET [id : Nat, account : Who, endpoint : Nat]
      BY <1>0, <2>6
    <3>2. enabling' \in [Tabs -> [pc : Steps, account : Who, endpoint : Nat, existing : Nat]]
      BY <1>0, <2>10
    <3> QED BY <1>0, <2>1, <2>6, <3>1, <3>2 DEF DeviceTyped
  <2>13. RowsKnown'
    <3>1. \A r \in rows : r.id \in Nat /\ r.id >= 1 /\ r.id <= made /\ r.endpoint >= 1 /\ r.endpoint <= ends
      BY <1>0 DEF DeviceInv, RowsKnown
    <3>2. \A r, q \in rows : r.id = q.id => r = q
      BY DEF DeviceInv, RowsKnown
    <3>3. rows' # rows => added.id >= 1 /\ added.id <= made' /\ added.endpoint >= 1 /\ added.endpoint <= ends
      BY <1>0, <2>2, <2>4, <2>6
    <3>4. \A r \in rows' : r.id >= 1 /\ r.id <= made' /\ r.endpoint >= 1 /\ r.endpoint <= ends
      BY <1>0, <2>6, <3>1, <3>3
    <3>5. ASSUME NEW r \in rows', NEW q \in rows', r.id = q.id PROVE r = q
      <4>1. \A x \in rows : x.id # added.id
        BY <1>0, <2>4, <3>1
      <4>2. (r \in rows \/ r = added) /\ (q \in rows \/ q = added)
        BY <2>6
      <4> QED BY <3>2, <3>5, <4>1, <4>2
    <3> QED BY <2>1, <3>4, <3>5 DEF RowsKnown
  <2>14. OneFinds'
    BY <2>1, <2>7, <2>9, <2>11 DEF DeviceInv, OneFinds
  <2>16. Owing'
    <3> SUFFICES ASSUME NEW u \in Tabs
                 PROVE  /\ owes[u].endpoint <= ends
                        /\ owes[u].endpoint # 0 /\ owes[u].endpoint = endpoint => Has(owes[u].account, endpoint)'
                        /\ owes[u].endpoint = 0 => owes[u].account = "none"
      BY <2>1 DEF Owing, Has
    <3>1. owes[u].endpoint # 0 /\ owes[u].endpoint = endpoint => Has(owes[u].account, endpoint)
      BY DEF DeviceInv, Owing
    <3>2. Has(owes[u].account, endpoint) => Has(owes[u].account, endpoint)'
      BY <2>1, <2>6 DEF Has
    <3> QED BY <3>1, <3>2 DEF DeviceInv, Owing
  <2>17. Pruning'
    <3>1. push.id \in Nat /\ push.id <= made /\ (push.answer = "gone" => \A r \in rows : r.id = push.id => r.endpoint # endpoint)
      BY <1>0 DEF DeviceInv, Pruning
    <3>2. added.id # push.id
      BY <1>0, <2>4, <3>1
    <3>3. \A r \in rows' : r.id = push.id => r \in rows
      BY <2>6, <3>2
    <3>4. push.id <= made'
      BY <1>0, <2>6, <3>1
    <3> QED BY <2>1, <3>1, <3>3, <3>4 DEF Pruning
  <2>18. OneRow'
    <3> SUFFICES ASSUME ~together, NEW r \in rows', NEW q \in rows', r.account = q.account, r.endpoint = q.endpoint
                 PROVE  r = q
      BY <2>1 DEF OneRow
    <3>1. \A x, y \in rows : x.account = y.account /\ x.endpoint = y.endpoint => x = y
      BY DEF DeviceInv, OneRow
    <3>2. rows' # rows => \A x \in rows : ~(x.account = added.account /\ x.endpoint = added.endpoint)
      BY <2>2, <2>4, <2>6 DEF Has
    <3> QED BY <2>6, <3>1, <3>2
  <2>19. Subscribing'
    <3> SUFFICES ASSUME NEW u \in Tabs
                 PROVE  /\ enabling'[u].pc \in {"posting", "found", "written", "failed"} =>
                             enabling'[u].endpoint >= 1 /\ enabling'[u].endpoint <= ends
                        /\ enabling'[u].pc = "found" =>
                             /\ enabling'[u].existing <= made'
                             /\ \A r \in rows' : r.id = enabling'[u].existing =>
                                   r.account = enabling'[u].account /\ r.endpoint = enabling'[u].endpoint
                             /\ enabling'[u].existing = 0 /\ ~together =>
                                  ~\E r \in rows' : r.account = enabling'[u].account /\ r.endpoint = enabling'[u].endpoint
                        /\ enabling'[u].pc = "written" /\ enabling'[u].endpoint = endpoint =>
                             \E r \in rows' : r.account = enabling'[u].account /\ r.endpoint = enabling'[u].endpoint
      BY <2>1 DEF Subscribing, Has
    <3>1. CASE u = t
      <4>1. enabling'[u] = f
        BY <2>11, <3>1
      <4>2. pc = "written" => \E r \in rows' : r.account = e.account /\ r.endpoint = e.endpoint
        BY <2>2, <2>4, <2>5, <2>7
      <4>3. f.pc # "found"
        BY <2>7, <2>9
      <4> QED BY <2>2, <2>9, <4>1, <4>2, <4>3
    <3>2. CASE u # t
      <4>1. PICK g \in [pc : Steps, account : Who, endpoint : Nat, existing : Nat] : g = enabling[u]
        BY <1>0
      <4>2. enabling'[u] = g
        BY <2>11, <3>2, <4>1
      <4>3. /\ g.pc \in {"posting", "found", "written", "failed"} => g.endpoint >= 1 /\ g.endpoint <= ends
            /\ g.pc = "found" =>
                 /\ g.existing <= made
                 /\ \A r \in rows : r.id = g.existing => r.account = g.account /\ r.endpoint = g.endpoint
                 /\ g.existing = 0 /\ ~together => ~\E r \in rows : r.account = g.account /\ r.endpoint = g.endpoint
            /\ g.pc = "written" /\ g.endpoint = endpoint =>
                 \E r \in rows : r.account = g.account /\ r.endpoint = g.endpoint
        BY <4>1 DEF DeviceInv, Subscribing, Has
      <4>4. g.pc = "found" => together
        BY <2>0, <2>1, <3>2, <4>1 DEF DeviceInv, OneFinds
      <4>5. g.pc = "found" => added.id # g.existing /\ g.existing <= made'
        BY <1>0, <2>4, <2>6, <4>3
      <4>6. g.pc = "found" => \A r \in rows' : r.id = g.existing => r.account = g.account /\ r.endpoint = g.endpoint
        BY <2>6, <4>3, <4>5
      <4>7. g.pc = "written" /\ g.endpoint = endpoint => \E r \in rows' : r.account = g.account /\ r.endpoint = g.endpoint
        BY <2>6, <4>3
      <4> QED BY <4>2, <4>3, <4>4, <4>5, <4>6, <4>7
    <3> QED BY <3>1, <3>2
  <2> QED BY <2>12, <2>13, <2>14, <2>16, <2>17, <2>18, <2>19 DEF DeviceInv
<1>13. ASSUME NEW t \in Tabs, Push!Done(t)
       PROVE  DeviceInv'
  <2>1. /\ enabling' = [enabling EXCEPT ![t] = Push!Idle]
        /\ UNCHANGED <<cookie, endpoint, ends, rows, made, push, together>>
    BY <1>13 DEF Push!Done, Push!Answer
  <2>2. CASE owes' = owes
    BY <1>4, <2>1, <2>2
  <2>3. CASE owes' # owes
    <3>1. /\ enabling[t].pc = "written"
          /\ owes' = [owes EXCEPT ![t] = [account |-> enabling[t].account, endpoint |-> enabling[t].endpoint]]
      BY <1>13, <2>3 DEF Push!Done
    <3>2. PICK o \in [account : Who, endpoint : Nat] : o = [account |-> enabling[t].account, endpoint |-> enabling[t].endpoint]
      BY <1>0
    <3>3. o.account = enabling[t].account /\ o.endpoint = enabling[t].endpoint
      BY <3>2
    <3>4. owes' \in [Tabs -> [account : Who, endpoint : Nat]] /\ \A u \in Tabs : owes'[u] = IF u = t THEN o ELSE owes[u]
      BY <1>0, <3>1, <3>2
    <3>5. o.endpoint >= 1 /\ o.endpoint <= ends /\ (o.endpoint = endpoint => Has(o.account, endpoint))
      BY <3>1, <3>3 DEF DeviceInv, Subscribing
    <3>6. Owing'
      BY <1>0, <2>1, <3>4, <3>5 DEF DeviceInv, Owing, Has
    <3>7. Push!Idle.pc = "idle"
      BY <1>01
    <3>8. cookie' \in Who
      BY <1>0, <2>1
    <3> QED BY <1>01, <2>1, <3>4, <3>6, <3>7, <3>8, DeviceQuiet
  <2> QED BY <2>2, <2>3
<1>14. ASSUME NEW r \in rows, Push!Send(r)
       PROVE  DeviceInv'
  <2>1. /\ push' \in [id : {r.id}, answer : {"failed", IF r.endpoint = endpoint THEN "ok" ELSE "gone"}]
        /\ UNCHANGED <<cookie, endpoint, ends, enabling, rows, made, owes, together>>
    BY <1>14 DEF Push!Send
  <2>2. r \in [id : Nat, account : Who, endpoint : Nat] /\ r.id <= made /\ \A q \in rows : q.id = r.id => q = r
    BY <1>0 DEF DeviceInv, RowsKnown
  <2>3. push' \in [id : Nat, answer : {"none", "failed", "ok", "gone"}] /\ push'.id = r.id
        /\ (push'.answer = "gone" => r.endpoint # endpoint)
    BY <2>1, <2>2
  <2>4. Pruning'
    BY <2>1, <2>2, <2>3 DEF Pruning
  <2> QED BY <2>1, <2>3, <2>4 DEF DeviceInv, DeviceTyped, RowsKnown, Subscribing, OneFinds, Owing, OneRow, Has
<1>15. CASE Push!Settle
  <2>1. /\ push' = Push!NotSending /\ UNCHANGED <<cookie, endpoint, ends, enabling, made, owes, together>>
        /\ rows' = IF push.answer = "gone" THEN {r \in rows : r.id # push.id} ELSE rows
    BY <1>15 DEF Push!Settle, Push!Gone
  <2>2. rows' \subseteq rows
    BY <2>1
  <2>3. \A a : Has(a, endpoint) => \E r \in rows' : r.account = a /\ r.endpoint = endpoint
    BY <2>1 DEF DeviceInv, Pruning, Has
  <2>4. push'.id = 0 /\ push'.answer = "none" /\ push' \in [id : Nat, answer : {"none", "failed", "ok", "gone"}]
    BY <2>1 DEF Push!NotSending
  <2>5. DeviceTyped' /\ RowsKnown' /\ OneFinds' /\ OneRow'
    BY <1>0, <2>1, <2>2, <2>4 DEF DeviceInv, DeviceTyped, RowsKnown, OneFinds, OneRow
  <2>6. Pruning'
    BY <1>0, <2>1, <2>4 DEF Pruning
  <2>7. Owing'
    BY <2>1, <2>3 DEF DeviceInv, Owing, Has
  <2>8. Subscribing'
    <3> SUFFICES ASSUME NEW u \in Tabs
                 PROVE  /\ enabling[u].pc \in {"posting", "found", "written", "failed"} =>
                             enabling[u].endpoint >= 1 /\ enabling[u].endpoint <= ends
                        /\ enabling[u].pc = "found" =>
                             /\ enabling[u].existing <= made
                             /\ \A r \in rows' : r.id = enabling[u].existing =>
                                   r.account = enabling[u].account /\ r.endpoint = enabling[u].endpoint
                             /\ enabling[u].existing = 0 /\ ~together =>
                                  ~\E r \in rows' : r.account = enabling[u].account /\ r.endpoint = enabling[u].endpoint
                        /\ enabling[u].pc = "written" /\ enabling[u].endpoint = endpoint =>
                             \E r \in rows' : r.account = enabling[u].account /\ r.endpoint = enabling[u].endpoint
      BY <2>1 DEF Subscribing, Has
    <3>1. enabling[u].pc = "written" /\ enabling[u].endpoint = endpoint =>
             \E r \in rows' : r.account = enabling[u].account /\ r.endpoint = enabling[u].endpoint
      BY <2>3 DEF DeviceInv, Subscribing
    <3> QED BY <2>2, <3>1 DEF DeviceInv, Subscribing, Has
  <2> QED BY <2>5, <2>6, <2>7, <2>8 DEF DeviceInv
<1>16. CASE Push!Ends \/ \E p \in Push!Permissions : Push!Resets(p)
  BY <1>9, <1>16 DEF Push!Ends, Push!Resets
<1>17. CASE UNCHANGED pushVars
  BY <1>1, <1>17 DEF pushVars
<1> QED BY <1>3, <1>5, <1>6, <1>7, <1>8, <1>10, <1>11, <1>12, <1>13, <1>14, <1>15, <1>16, <1>17 DEF Push!PushNext

LEMMA DeviceStart == Init => DeviceInv
<1> SUFFICES ASSUME Init PROVE DeviceInv
  OBVIOUS
<1>1. Push!PushInit
  BY DEF Init
<1>2. /\ cookie \in Accounts /\ endpoint = 0 /\ ends = 0 /\ made = 0 /\ rows = {} /\ together = FALSE
      /\ push = [id |-> 0, answer |-> "none"]
      /\ enabling = [t \in Tabs |-> [pc |-> "idle", account |-> "none", endpoint |-> 0, existing |-> 0]]
      /\ owes = [t \in Tabs |-> [account |-> "none", endpoint |-> 0]]
  BY <1>1 DEF Push!PushInit, Push!Idle, Push!NothingOwed, Push!NotSending, Push!NoRow
<1>3. DeviceTyped
  <2>1. enabling \in [Tabs -> [pc : Steps, account : Who, endpoint : Nat, existing : Nat]]
    BY <1>2 DEF Steps, Who
  <2>2. owes \in [Tabs -> [account : Who, endpoint : Nat]]
    BY <1>2 DEF Who
  <2>3. push \in [id : Nat, answer : {"none", "failed", "ok", "gone"}] /\ cookie \in Who
    BY <1>2 DEF Who
  <2> QED BY <1>2, <2>1, <2>2, <2>3 DEF DeviceTyped
<1>4. RowsKnown /\ OneRow /\ Pruning
  BY <1>2 DEF RowsKnown, OneRow, Pruning
<1>5. \A t \in Tabs : enabling[t].pc = "idle" /\ owes[t].endpoint = 0 /\ owes[t].account = "none"
  BY <1>2
<1>6. Subscribing /\ OneFinds /\ Owing
  BY <1>2, <1>5 DEF Subscribing, OneFinds, Owing
<1> QED BY <1>3, <1>4, <1>6 DEF DeviceInv

LEMMA DeviceHonest == DeviceInv => Push!StaysSubscribed
<1> SUFFICES ASSUME DeviceInv PROVE Push!StaysSubscribed
  OBVIOUS
<1>1. ASSUME NEW t \in Tabs, owes[t] # Push!NothingOwed, owes[t].endpoint = endpoint
      PROVE  \E r \in rows : r.account = owes[t].account /\ r.endpoint = endpoint
  <2>1. owes[t] \in [account : Who, endpoint : Nat]
    BY DEF DeviceInv, DeviceTyped
  <2>2. owes[t].endpoint # 0
    <3>1. owes[t].endpoint = 0 => owes[t].account = "none"
      BY DEF DeviceInv, Owing
    <3>2. owes[t] = [account |-> owes[t].account, endpoint |-> owes[t].endpoint]
      BY <2>1
    <3> QED BY <1>1, <3>1, <3>2 DEF Push!NothingOwed
  <2> QED BY <1>1, <2>2 DEF DeviceInv, Owing, Has
<1>2. \A r, q \in rows : (r.account = q.account /\ r.endpoint = q.endpoint) => r = q \/ together
  BY DEF DeviceInv, OneRow
<1> QED BY <1>1, <1>2 DEF Push!StaysSubscribed

(***************************************************************************)
(* The two forms.                                                          *)
(***************************************************************************)
(* As long as no two submissions overlapped, the one on its way keeps the     *)
(* form busy, and an unheard success of the redeem form is the last word.     *)
FormInv ==
    /\ form \in {"pair", "redeem"} /\ (twice => form = "redeem")
    /\ ~twice => (\A o, p \in out : o = p) /\ (out # {} => working)
    /\ form = "pair" /\ unheard => paired
    /\ form = "redeem" => signedIn = "ready"
    /\ form = "redeem" /\ unheard /\ ~twice => says = "ok" /\ out = {}
    /\ says = "used" => taken # {}
    /\ signedIn # "ready" => out = {}

LEMMA FormStep ==
    ASSUME FormInv, UNCHANGED formVars \/ F!FormsNext
    PROVE  FormInv'
<1>1. CASE UNCHANGED formVars
  BY <1>1 DEF formVars, FormInv
<1>2. ASSUME NEW c \in 0..2, F!Type(c) \/ F!Prefill(c)
      PROVE  FormInv'
  <2>1. CASE F!Type(c)
    <3>1. /\ says' = "nothing" /\ UNCHANGED <<form, working, paired, signedIn, out, taken, twice>>
          /\ unheard' => form = "pair" /\ unheard
      BY <2>1 DEF F!Type
    <3> QED BY <3>1 DEF FormInv
  <2>2. CASE F!Prefill(c)
    BY <2>2 DEF F!Prefill, FormInv
  <2> QED BY <1>2, <2>1, <2>2
<1>3. ASSUME NEW who \in {"anon", "ready"}, F!Opens(who)
      PROVE  FormInv'
  BY <1>3 DEF F!Opens, FormInv
<1>4. ASSUME NEW enter \in BOOLEAN, F!Submit(enter)
      PROVE  FormInv'
  <2>1. PICK o : o = [n |-> submits + 1, code |-> text]
    OBVIOUS
  <2>2. /\ signedIn = "ready" /\ (form = "pair" => ~working)
        /\ working' /\ says' = "nothing" /\ out' = out \cup {o}
        /\ twice' <=> twice \/ out # {}
        /\ unheard' <=> form = "pair" /\ unheard
        /\ UNCHANGED <<form, paired, signedIn, taken>>
    BY <1>4, <2>1 DEF F!Submit, F!HasForm, F!Enabled, F!EnterAnyway
  <2>3. form = "pair" => ~twice
    BY DEF FormInv
  <2>4. ~twice' => ~twice /\ out = {} /\ out' = {o}
    BY <2>2
  <2>5. form = "pair" => ~twice'
    BY <2>2, <2>3 DEF FormInv
  <2> QED BY <2>2, <2>4, <2>5 DEF FormInv
<1>5. CASE F!SubmitNothing \/ F!PairAnother \/ F!Reloads
  BY <1>5 DEF F!SubmitNothing, F!PairAnother, F!Reloads, FormInv
<1>6. ASSUME NEW o \in out, F!Succeeds(o)
      PROVE  FormInv'
  <2>1. /\ out' = out \ {o} /\ taken' = taken \cup {o.code} /\ UNCHANGED <<form, signedIn, twice>>
        /\ form = "pair" => paired' /\ says' = says
        /\ form # "pair" => says' = "ok"
    BY <1>6 DEF F!Succeeds, F!Announce
  <2>2. ~twice => out' = {}
    BY <2>1 DEF FormInv
  <2> QED BY <2>1, <2>2 DEF FormInv
<1>7. ASSUME NEW o \in out, F!Refused(o)
      PROVE  FormInv'
  <2>1. PICK what \in F!Problems(o) :
          /\ F!Announce(what)
          /\ taken' \in {taken} \cup (IF what = "failed" /\ o.code \in Good THEN {taken \cup {o.code}} ELSE {})
    BY <1>7 DEF F!Refused
  <2>2. out' = out \ {o} /\ UNCHANGED <<form, signedIn, unheard, twice>>
    BY <1>7 DEF F!Refused
  <2>3. what = "used" => taken # {}
    BY <2>1 DEF F!Problems, F!Problem
  <2>4. taken \subseteq taken' /\ says' = what /\ what # "ok"
    BY <2>1 DEF F!Announce, F!Problems, F!Problem
  <2>5. form = "pair" => (paired => paired')
    BY <2>1 DEF F!Announce
  <2>6. ~twice => out' = {}
    BY <2>2 DEF FormInv
  <2>7. form = "redeem" /\ unheard => twice
    BY DEF FormInv
  <2> QED BY <2>2, <2>3, <2>4, <2>5, <2>6, <2>7 DEF FormInv
<1>8. ASSUME NEW o \in out, F!Unauthorized(o)
      PROVE  FormInv'
  <2>1. /\ form = "pair" /\ out' = out \ {o} /\ signedIn' = "anon"
        /\ UNCHANGED <<form, says, paired, taken, unheard, twice>>
    BY <1>8 DEF F!Unauthorized
  <2>2. ~twice /\ out' = {}
    BY <2>1 DEF FormInv
  <2> QED BY <2>1, <2>2 DEF FormInv
<1> QED BY <1>1, <1>2, <1>3, <1>4, <1>5, <1>6, <1>7, <1>8 DEF F!FormsNext

LEMMA FormStart == Init => FormInv
BY DEF Init, F!FormsInit, FormInv

LEMMA FormHonest == FormInv => F!SuccessIsSaid
BY DEF FormInv, F!SuccessIsSaid

(***************************************************************************)
(* Signing in by a popup.                                                  *)
(***************************************************************************)
(* The attempt that is under way, if there is one, is the last, it alone has  *)
(* a listener and a poll, and it has not been told anything.                 *)
PopupInv ==
    /\ logins \in Nat /\ (pending <=> cleanup # 0)
    /\ listeners = (IF pending THEN {cleanup} ELSE {}) /\ polls = listeners
    /\ pending => cleanup = logins
    /\ \A s \in answered : s.attempt \in Nat /\ s.attempt <= logins /\ (pending => s.attempt # logins)
    /\ \A s, t \in answered : s.attempt = t.attempt => s = t

LEMMA PopupTold ==
    ASSUME PopupInv, pending, NEW what,
           answered' = answered \cup {[attempt |-> cleanup, what |-> what]},
           listeners' = listeners \ {cleanup}, polls' = polls \ {cleanup}, pending' = FALSE, cleanup' = 0, logins' = logins
    PROVE  PopupInv'
<1>1. PICK new : new = [attempt |-> cleanup, what |-> what]
  OBVIOUS
<1>2. new.attempt = logins /\ answered' = answered \cup {new}
  BY <1>1 DEF PopupInv
<1>3. listeners' = {} /\ polls' = {}
  BY DEF PopupInv
<1> QED BY <1>2, <1>3 DEF PopupInv

LEMMA PopupStep ==
    ASSUME PopupInv, UNCHANGED popupVars \/ Popup!PopupNext
    PROVE  PopupInv'
<1>1. CASE UNCHANGED popupVars
  BY <1>1 DEF popupVars, PopupInv
<1>2. ASSUME NEW blocked \in BOOLEAN, Popup!signIn(blocked)
      PROVE  PopupInv'
  <2>1. logins' = logins + 1 /\ logins \in Nat /\ logins' \in Nat /\ logins + 1 # 0
    BY <1>2 DEF Popup!signIn, PopupInv
  <2>2. listeners \ {cleanup} = {} /\ (IF cleanup = 0 THEN polls ELSE polls \ {cleanup}) = {}
    BY DEF PopupInv
  <2>3. CASE blocked
    <3>1. PICK new : new = [attempt |-> logins + 1, what |-> "cancel"]
      OBVIOUS
    <3>2. /\ listeners' = {} /\ polls' = {} /\ cleanup' = 0 /\ pending' = FALSE
          /\ answered' = answered \cup {new}
      BY <1>2, <2>2, <2>3, <3>1 DEF Popup!signIn, Popup!StopsPoll, Popup!Tell
    <3>3. new.attempt = logins + 1
      BY <3>1
    <3>4. \A s \in answered : s.attempt \in Nat /\ s.attempt <= logins /\ s.attempt # new.attempt
      BY <2>1, <3>3 DEF PopupInv
    <3>5. \A s, t \in answered : s.attempt = t.attempt => s = t
      BY DEF PopupInv
    <3> QED BY <2>1, <3>2, <3>3, <3>4, <3>5 DEF PopupInv
  <2>4. CASE ~blocked
    <3>1. /\ listeners' = {logins + 1} /\ polls' = {logins + 1} /\ cleanup' = logins + 1 /\ pending' = TRUE
          /\ answered' = answered
      BY <1>2, <2>2, <2>4 DEF Popup!signIn, Popup!StopsPoll
    <3> QED BY <2>1, <3>1 DEF PopupInv
  <2> QED BY <2>3, <2>4
<1>3. CASE Popup!Finishes \/ Popup!UserCloses
  BY <1>3 DEF Popup!Finishes, Popup!UserCloses, PopupInv
<1>4. ASSUME NEW m \in posted, Popup!onMessage(m)
      PROVE  PopupInv'
  <2>1. CASE listeners = {}
    BY <1>4, <2>1 DEF Popup!onMessage, PopupInv
  <2>2. CASE listeners # {}
    <3>1. pending /\ listeners = {cleanup}
      BY <2>2 DEF PopupInv
    <3>2. /\ answered' = answered \cup {[attempt |-> cleanup, what |-> "token"]} /\ logins' = logins
          /\ listeners' = listeners \ {cleanup} /\ polls' = polls \ {cleanup} /\ pending' = FALSE /\ cleanup' = 0
      BY <1>4, <2>2, <3>1 DEF Popup!onMessage, Popup!Tell, Popup!CleanUp, Popup!StopsPoll
    <3> QED BY <3>1, <3>2, PopupTold
  <2> QED BY <2>1, <2>2
<1>5. ASSUME NEW k \in polls, Popup!Poll(k)
      PROVE  PopupInv'
  <2>1. pending /\ k = cleanup
    BY DEF PopupInv
  <2>2. /\ answered' = answered \cup {[attempt |-> cleanup, what |-> "cancel"]} /\ logins' = logins
        /\ listeners' = listeners \ {cleanup} /\ polls' = polls \ {cleanup} /\ pending' = FALSE /\ cleanup' = 0
    BY <1>5, <2>1 DEF Popup!Poll, Popup!Tell, Popup!CleanUp, Popup!StopsPoll
  <2> QED BY <2>1, <2>2, PopupTold
<1>6. CASE Popup!Unmount
  <2>1. /\ listeners' = listeners \ {cleanup} /\ polls' = polls \ {cleanup} /\ pending' = FALSE /\ cleanup' = 0
        /\ UNCHANGED <<logins, answered>>
    BY <1>6 DEF Popup!Unmount, Popup!CleanUp, Popup!StopsPoll
  <2>2. listeners' = {} /\ polls' = {}
    BY <2>1 DEF PopupInv
  <2> QED BY <2>1, <2>2 DEF PopupInv
<1> QED BY <1>1, <1>2, <1>3, <1>4, <1>5, <1>6 DEF Popup!PopupNext

LEMMA PopupStart == Init => PopupInv
BY DEF Init, Popup!PopupInit, PopupInv

LEMMA PopupHonest == PopupInv => Popup!OneOutcome
<1> SUFFICES ASSUME PopupInv PROVE Popup!OneOutcome
  OBVIOUS
<1>1. \A k \in listeners : pending /\ k = logins
  BY DEF PopupInv
<1>2. \A k \in listeners : k = logins /\ ~\E t \in answered : t.attempt = k
  BY <1>1 DEF PopupInv
<1> QED BY <1>2 DEF PopupInv, Popup!OneOutcome

(***************************************************************************)
(* Signing in by a provider.                                               *)
(***************************************************************************)
Named3 == {"none", "fallback", "given"}
Requests == [n : Nat, way : Ways, state : [typ : {"state"}, exp : Nat], code : Nat, user : BOOLEAN, again : Nat]
Handlings == [c : Requests, step : {"exchange", "write"}, known : Named3, since : Nat]
Replied == [c : Requests, what : {"denied", "invalid_state", "exchange_failed", "error", "signed_in"}, since : Nat]
Through == {a \in answers : a.what = "signed_in"}
Writing == {h \in handling : h.step = "write"}

ConsentTypes ==
    /\ hour \in Nat /\ starts \in Nat /\ replays \in Nat
    /\ consent \subseteq [n : Nat, way : Ways, state : [typ : {"state"}, exp : Nat]]
    /\ callbacks \subseteq Requests /\ handling \subseteq Handlings /\ answers \subseteq Replied
    /\ called \in [Ways -> Named3]
(* a code is that of its attempt; one that was exchanged is spent *)
CodesOwn ==
    /\ \A c \in callbacks : c.code = 0 \/ c.code = c.n
    /\ \A h \in handling : h.c.code = h.c.n /\ h.since <= h.c.state.exp
    /\ \A a \in answers : a.c.code = 0 \/ a.c.code = a.c.n
    /\ \A h \in Writing : h.c.code \in spent
    /\ \A a \in Through : a.c.code = a.c.n /\ a.c.code \in spent /\ a.since <= a.c.state.exp
OneGetsThrough ==
    /\ \A h, k \in Writing : h.c.n = k.c.n => h = k
    /\ \A h \in Writing : \A a \in Through : h.c.n # a.c.n
    /\ \A a, b \in Through : a.c.n = b.c.n => a = b
Tellers(w) == {a \in Through : a.c.way = w /\ a.c.user}
NamesTold ==
    /\ \A h \in Writing : h.known = "given" => Tellers(h.c.way) # {}
    /\ \A w \in Ways : called[w] = "given" => Tellers(w) # {}
    /\ \A w \in Ways : called[w] # "none" <=> \E a \in Through : a.c.way = w
ConsentInv == ConsentTypes /\ CodesOwn /\ OneGetsThrough /\ NamesTold

LEMMA ConsentHonest == ConsentInv => Consent!OncePerCode
BY DEF ConsentInv, CodesOwn, OneGetsThrough, NamesTold, Tellers, Through, Consent!OncePerCode

LEMMA ConsentStart == Init => ConsentInv
<1> SUFFICES ASSUME Init PROVE ConsentInv
  OBVIOUS
<1>1. /\ hour = 0 /\ starts = 0 /\ consent = {} /\ callbacks = {} /\ handling = {} /\ replays = 0
      /\ called = [w \in Ways |-> "none"] /\ answers = {}
  BY DEF Init, Consent!OAuthInit
<1>2. Through = {} /\ Writing = {}
  BY <1>1 DEF Through, Writing
<1> QED BY <1>1, <1>2 DEF ConsentInv, ConsentTypes, CodesOwn, OneGetsThrough, NamesTold, Named3

(* what leaves the sign-ins in hand and their answers alone *)
LEMMA ConsentRest ==
    ASSUME ConsentInv, ConsentTypes', UNCHANGED <<handling, spent, called, answers>>,
           \A c \in callbacks' : c.code = 0 \/ c.code = c.n
    PROVE  ConsentInv'
<1>1. Through' = Through /\ Writing' = Writing /\ \A w : Tellers(w)' = Tellers(w)
  BY DEF Through, Writing, Tellers
<1>2. CodesOwn'
  BY <1>1 DEF ConsentInv, CodesOwn
<1>3. OneGetsThrough'
  BY <1>1 DEF ConsentInv, OneGetsThrough
<1>4. NamesTold'
  BY <1>1 DEF ConsentInv, NamesTold, Tellers
<1> QED BY <1>2, <1>3, <1>4 DEF ConsentInv

(* an answer that is not a sign-in, of a callback or of one in hand *)
LEMMA ConsentFailed ==
    ASSUME ConsentInv, ConsentTypes', callbacks' \subseteq callbacks, handling' \subseteq handling,
           spent \subseteq spent', called' = called,
           NEW a, answers' = answers \cup {a}, a.what # "signed_in", a.c.code = 0 \/ a.c.code = a.c.n
    PROVE  ConsentInv'
<1>1. Through' = Through /\ Writing' \subseteq Writing /\ \A w : Tellers(w)' = Tellers(w)
  BY DEF Through, Writing, Tellers
<1>2. CodesOwn'
  BY <1>1 DEF ConsentInv, CodesOwn
<1>3. OneGetsThrough'
  BY <1>1 DEF ConsentInv, OneGetsThrough
<1>4. NamesTold'
  BY <1>1 DEF ConsentInv, NamesTold, Tellers
<1> QED BY <1>2, <1>3, <1>4 DEF ConsentInv

LEMMA ConsentTypesKept == ConsentInv /\ Consent!OAuthNext => ConsentTypes'
<1> SUFFICES ASSUME ConsentInv, Consent!OAuthNext PROVE ConsentTypes'
  OBVIOUS
<1> USE DEF ConsentTypes
<1>0. ConsentTypes
  BY DEF ConsentInv
<1>1. ASSUME NEW way \in Ways, Consent!Start(way) PROVE ConsentTypes'
  <2>1. PICK e \in Nat : e = hour + StateTTL
    BY <1>0, PagesAssumption
  <2>2. PICK t \in [typ : {"state"}, exp : Nat] : t = [typ |-> "state", exp |-> e]
    OBVIOUS
  <2>5. PICK k \in Nat : k = starts + 1
    BY <1>0
  <2>3. PICK c \in [n : Nat, way : Ways, state : [typ : {"state"}, exp : Nat]] : c = [n |-> k, way |-> way, state |-> t]
    BY <1>1, <2>2
  <2>4. consent' = consent \cup {c}
    BY <1>1, <2>1, <2>2, <2>5, <2>3 DEF Consent!Start, Consent!signState
  <2> QED BY <1>0, <1>1, <2>4 DEF Consent!Start
<1>2. ASSUME NEW c \in consent, NEW denied \in BOOLEAN, Consent!Consents(c, denied) PROVE ConsentTypes'
  <2>1. PICK user \in BOOLEAN : user = (~denied /\ (c.way = "google" \/ c.way \notin consented))
    OBVIOUS
  <2>8. c \in [n : Nat, way : Ways, state : [typ : {"state"}, exp : Nat]]
    BY <1>0, <1>2
  <2>9. c.n \in Nat /\ c.way \in Ways /\ c.state \in [typ : {"state"}, exp : Nat]
    BY <2>8
  <2>2. PICK code \in Nat : code = (IF denied THEN 0 ELSE c.n)
    BY <2>9
  <2>3. PICK r \in Requests : r = [n |-> c.n, way |-> c.way, state |-> c.state, code |-> code, user |-> user, again |-> 0]
    BY <2>9 DEF Requests
  <2>4. callbacks' = callbacks \cup {r}
    BY <1>2, <2>1, <2>2, <2>3 DEF Consent!Consents
  <2> QED BY <1>0, <1>2, <2>4 DEF Consent!Consents
<1>3. ASSUME NEW c \in callbacks, Consent!Refuse(c) PROVE ConsentTypes'
  <2>3. c \in Requests /\ hour \in Nat
    BY <1>0
  <2>4. PICK what \in {"denied", "invalid_state"} : what = (IF c.code = 0 THEN "denied" ELSE "invalid_state")
    OBVIOUS
  <2>1. PICK a \in Replied : a = [c |-> c, what |-> what, since |-> hour]
    BY <2>3 DEF Replied
  <2>2. answers' = answers \cup {a}
    BY <1>3, <2>1, <2>4 DEF Consent!Refuse, Consent!Answer
  <2> QED BY <1>0, <1>3, <2>2 DEF Consent!Refuse
<1>4. ASSUME NEW c \in callbacks, Consent!Verify(c) PROVE ConsentTypes'
  <2>1. PICK h \in Handlings : h = [c |-> c, step |-> "exchange", known |-> "none", since |-> hour]
    BY <1>0 DEF Handlings, Named3
  <2>2. handling' = handling \cup {h}
    BY <1>4, <2>1 DEF Consent!Verify
  <2> QED BY <1>0, <1>4, <2>2 DEF Consent!Verify
<1>5. ASSUME NEW c \in callbacks \cup {h.c : h \in handling} \cup {a.c : a \in answers}, Consent!Repeats(c)
      PROVE ConsentTypes'
  <2>1. c \in Requests
    BY <1>0 DEF Handlings, Replied
  <2>4. replays' \in Nat
    BY <1>0, <1>5 DEF Consent!Repeats
  <2>2. PICK r \in Requests : r = [c EXCEPT !.again = replays']
    BY <2>1, <2>4 DEF Requests
  <2>3. callbacks' = callbacks \cup {r}
    BY <1>5, <2>2 DEF Consent!Repeats
  <2> QED BY <1>0, <1>5, <2>3 DEF Consent!Repeats
<1>6. ASSUME NEW h \in handling, Consent!onLogin(h) PROVE ConsentTypes'
  <2>1. h \in Handlings /\ h.c.way \in Ways
    BY <1>0 DEF Handlings, Requests
  <2>2. PICK told \in Named3 : told = Consent!NameGiven(h)
    BY DEF Named3, Consent!NameGiven
  <2>3. called' \in [Ways -> Named3]
    BY <1>0, <1>6, <2>2 DEF Consent!onLogin
  <2>4. answers' \subseteq Replied
    BY <1>0, <1>6, <2>1 DEF Consent!onLogin, Consent!Answer, Replied, Handlings
  <2> QED BY <1>0, <1>6, <2>3, <2>4 DEF Consent!onLogin
<1>7. ASSUME NEW h \in handling, NEW reply \in Consent!Replies, Consent!Exchange(h, reply) PROVE ConsentTypes'
  <2>1. h \in Handlings /\ called[h.c.way] \in Named3
    BY <1>0 DEF Handlings, Requests
  <2>2. PICK k \in Handlings : k = [[h EXCEPT !.step = "write"] EXCEPT !.known = called[h.c.way]]
    BY <2>1 DEF Handlings
  <2>3. handling' \subseteq handling \cup {k}
    BY <1>7, <2>1, <2>2 DEF Consent!Exchange, Handlings
  <2>4. answers' \subseteq Replied
    BY <1>0, <1>7, <2>1 DEF Consent!Exchange, Consent!Answer, Replied, Handlings
  <2> QED BY <1>0, <1>7, <2>3, <2>4 DEF Consent!Exchange
<1>8. CASE Consent!OAuthTick
  BY <1>0, <1>8 DEF Consent!OAuthTick
<1> QED BY <1>1, <1>2, <1>3, <1>4, <1>5, <1>6, <1>7, <1>8 DEF Consent!OAuthNext

LEMMA ConsentStep == ConsentInv /\ Consent!OAuthNext => ConsentInv'
<1> SUFFICES ASSUME ConsentInv, Consent!OAuthNext PROVE ConsentInv'
  OBVIOUS
<1>0. ConsentTypes /\ ConsentTypes' /\ CodesOwn
  BY ConsentTypesKept DEF ConsentInv
<1>1. ASSUME NEW way \in Ways, Consent!Start(way) PROVE ConsentInv'
  <2>1. UNCHANGED <<handling, spent, called, answers>> /\ callbacks' = callbacks
    BY <1>1 DEF Consent!Start
  <2> QED BY <1>0, <2>1, ConsentRest DEF CodesOwn
<1>2. ASSUME NEW c \in consent, NEW denied \in BOOLEAN, Consent!Consents(c, denied) PROVE ConsentInv'
  <2>1. UNCHANGED <<handling, spent, called, answers>>
    BY <1>2 DEF Consent!Consents
  <2>2. \A d \in callbacks' : d.code = 0 \/ d.code = d.n
    BY <1>0, <1>2 DEF Consent!Consents, CodesOwn
  <2> QED BY <1>0, <2>1, <2>2, ConsentRest
<1>3. ASSUME NEW c \in callbacks, Consent!Refuse(c) PROVE ConsentInv'
  <2>1. PICK a : a = [c |-> c, what |-> IF c.code = 0 THEN "denied" ELSE "invalid_state", since |-> hour]
    OBVIOUS
  <2>2. a.c = c /\ a.what # "signed_in"
    BY <2>1
  <2>3. answers' = answers \cup {a} /\ callbacks' \subseteq callbacks /\ handling' = handling /\ spent' = spent /\ called' = called
    BY <1>3, <2>1 DEF Consent!Refuse, Consent!Answer
  <2>4. a.c.code = 0 \/ a.c.code = a.c.n
    BY <1>0, <1>3, <2>2 DEF CodesOwn
  <2>5. handling' \subseteq handling /\ spent \subseteq spent'
    BY <2>3
  <2> QED BY <1>0, <2>2, <2>3, <2>4, <2>5, ConsentFailed
<1>4. ASSUME NEW c \in callbacks, Consent!Verify(c) PROVE ConsentInv'
  <2>1. PICK h : h = [c |-> c, step |-> "exchange", known |-> "none", since |-> hour]
    OBVIOUS
  <2>2. h.c = c /\ h.step = "exchange" /\ h.since = hour
    BY <2>1
  <2>3. handling' = handling \cup {h} /\ callbacks' \subseteq callbacks /\ spent' = spent /\ called' = called /\ answers' = answers
    BY <1>4, <2>1 DEF Consent!Verify
  <2>4. c \in Requests /\ hour \in Nat
    BY <1>0, <1>4 DEF ConsentTypes
  <2>5. c.state.exp \in Nat /\ ~(c.state.exp < hour)
    BY <1>4, <2>4 DEF Consent!Verify, Consent!verifyState, Requests
  <2>6. h.c.code = h.c.n /\ h.since <= h.c.state.exp
    BY <1>0, <1>4, <2>2, <2>4, <2>5 DEF CodesOwn, Consent!Verify
  <2>7. Through' = Through /\ Writing' = Writing /\ \A w : Tellers(w)' = Tellers(w)
    BY <2>2, <2>3 DEF Through, Writing, Tellers
  <2>8. CodesOwn'
    BY <1>0, <2>3, <2>6, <2>7 DEF CodesOwn
  <2>9. OneGetsThrough'
    BY <2>7 DEF ConsentInv, OneGetsThrough
  <2>10. NamesTold'
    BY <2>3, <2>7 DEF ConsentInv, NamesTold, Tellers
  <2> QED BY <1>0, <2>8, <2>9, <2>10 DEF ConsentInv
<1>5. ASSUME NEW c \in callbacks \cup {h.c : h \in handling} \cup {a.c : a \in answers}, Consent!Repeats(c)
      PROVE ConsentInv'
  <2>1. UNCHANGED <<handling, spent, called, answers>>
    BY <1>5 DEF Consent!Repeats
  <2>2. c \in Requests /\ (c.code = 0 \/ c.code = c.n)
    BY <1>0, <1>5 DEF ConsentTypes, CodesOwn, Handlings, Replied
  <2>3. PICK r : r = [c EXCEPT !.again = replays']
    OBVIOUS
  <2>4. r.code = c.code /\ r.n = c.n
    BY <2>2, <2>3 DEF Requests
  <2>5. callbacks' = callbacks \cup {r}
    BY <1>5, <2>3 DEF Consent!Repeats
  <2>6. \A d \in callbacks' : d.code = 0 \/ d.code = d.n
    BY <1>0, <2>2, <2>4, <2>5 DEF CodesOwn
  <2> QED BY <1>0, <2>1, <2>6, ConsentRest
<1>6. ASSUME NEW h \in handling, Consent!onLogin(h) PROVE ConsentInv'
  <2>0. h \in Writing /\ h.c.way \in Ways /\ h.c.code = h.c.n /\ h.since <= h.c.state.exp /\ h.c.code \in spent
    BY <1>0, <1>6 DEF Consent!onLogin, Writing, CodesOwn, ConsentTypes, Handlings, Requests
  <2>1. handling' = handling \ {h} /\ callbacks' = callbacks /\ spent' = spent
    BY <1>6 DEF Consent!onLogin
  <2>2. CASE h.known = "none" /\ called[h.c.way] # "none"
    <3>1. PICK a : a = [c |-> h.c, what |-> "error", since |-> h.since]
      OBVIOUS
    <3>2. a.c = h.c /\ a.what # "signed_in" /\ answers' = answers \cup {a} /\ called' = called
      BY <1>6, <2>2, <3>1 DEF Consent!onLogin, Consent!Answer
    <3>3. a.c.code = 0 \/ a.c.code = a.c.n
      BY <2>0, <3>2
    <3>4. handling' \subseteq handling /\ spent \subseteq spent' /\ callbacks' \subseteq callbacks
      BY <2>1
    <3> QED BY <1>0, <3>2, <3>3, <3>4, ConsentFailed
  <2>3. CASE ~(h.known = "none" /\ called[h.c.way] # "none")
    <3>1. PICK a : a = [c |-> h.c, what |-> "signed_in", since |-> h.since]
      OBVIOUS
    <3>2. a.c = h.c /\ a.what = "signed_in" /\ a.since = h.since
      BY <3>1
    <3>3. answers' = answers \cup {a} /\ called' = [called EXCEPT ![h.c.way] = Consent!NameGiven(h)]
      BY <1>6, <2>3, <3>1 DEF Consent!onLogin, Consent!Answer
    <3>4. Through' = Through \cup {a} /\ Writing' = Writing \ {h} /\ \A w : Tellers(w) \subseteq Tellers(w)'
      BY <2>1, <3>2, <3>3 DEF Through, Writing, Tellers
    <3>5. CodesOwn'
      BY <1>0, <2>0, <2>1, <3>2, <3>3, <3>4 DEF CodesOwn
    <3>6. OneGetsThrough'
      BY <2>0, <3>2, <3>4 DEF ConsentInv, OneGetsThrough
    <3>7. \A w \in Ways : w # h.c.way => called'[w] = called[w]
      BY <1>0, <3>3 DEF ConsentTypes
    <3>8. called'[h.c.way] = Consent!NameGiven(h)
      BY <1>0, <2>0, <3>3 DEF ConsentTypes
    <3>9. Consent!NameGiven(h) # "none"
      BY DEF Consent!NameGiven
    <3>10. Consent!NameGiven(h) = "given" => Tellers(h.c.way)' # {}
      <4>1. CASE h.c.user
        BY <3>2, <3>4, <4>1 DEF Tellers
      <4>2. CASE ~h.c.user
        BY <2>0, <3>4, <4>2 DEF ConsentInv, NamesTold, Consent!NameGiven
      <4> QED BY <4>1, <4>2
    <3>11. \A k \in Writing' : k.known = "given" => Tellers(k.c.way)' # {}
      BY <3>4 DEF ConsentInv, NamesTold
    <3>12. \A w \in Ways : called'[w] = "given" => Tellers(w)' # {}
      BY <3>4, <3>7, <3>8, <3>10 DEF ConsentInv, NamesTold
    <3>13. \A w \in Ways : called'[w] # "none" <=> \E b \in Through' : b.c.way = w
      BY <3>2, <3>4, <3>7, <3>8, <3>9 DEF ConsentInv, NamesTold
    <3>14. NamesTold'
      BY <3>11, <3>12, <3>13 DEF NamesTold
    <3> QED BY <1>0, <3>5, <3>6, <3>14 DEF ConsentInv
  <2> QED BY <2>2, <2>3
<1>7. ASSUME NEW h \in handling, NEW reply \in Consent!Replies, Consent!Exchange(h, reply) PROVE ConsentInv'
  <2>0. h \in Handlings /\ h.c.way \in Ways /\ h.c.code = h.c.n /\ h.since <= h.c.state.exp
    BY <1>0 DEF CodesOwn, ConsentTypes, Handlings, Requests
  <2>1. spent' = spent \cup {h.c.code} /\ callbacks' = callbacks /\ called' = called
    BY <1>7 DEF Consent!Exchange
  <2>2. CASE h.c.code \notin spent /\ Consent!Taken(h.c.way, reply)
    <3>1. PICK k : k = [[h EXCEPT !.step = "write"] EXCEPT !.known = called[h.c.way]]
      OBVIOUS
    <3>2. k.c = h.c /\ k.step = "write" /\ k.known = called[h.c.way] /\ k.since = h.since
      BY <2>0, <3>1 DEF Handlings
    <3>3. handling' = (handling \ {h}) \cup {k} /\ answers' = answers
      BY <1>7, <2>2, <3>1 DEF Consent!Exchange
    <3>4. h \notin Writing
      BY <1>7 DEF Consent!Exchange, Writing
    <3>5. Through' = Through /\ Writing' = Writing \cup {k} /\ \A w : Tellers(w)' = Tellers(w)
      BY <3>2, <3>3, <3>4 DEF Through, Writing, Tellers
    <3>6. CodesOwn'
      BY <1>0, <2>0, <2>1, <3>2, <3>3, <3>5 DEF CodesOwn
    <3>7. \A j \in Writing : j.c.n # k.c.n
      BY <1>0, <2>0, <2>2, <3>2 DEF CodesOwn, Writing
    <3>8. \A a \in Through : k.c.n # a.c.n
      BY <1>0, <2>0, <2>2, <3>2 DEF CodesOwn
    <3>9. OneGetsThrough'
      BY <3>5, <3>7, <3>8 DEF ConsentInv, OneGetsThrough
    <3>10. NamesTold'
      BY <2>0, <2>1, <3>2, <3>5 DEF ConsentInv, NamesTold, Tellers
    <3> QED BY <1>0, <3>6, <3>9, <3>10 DEF ConsentInv
  <2>3. CASE ~(h.c.code \notin spent /\ Consent!Taken(h.c.way, reply))
    <3>1. PICK a : a = [c |-> h.c, what |-> "exchange_failed", since |-> h.since]
      OBVIOUS
    <3>2. a.c = h.c /\ a.what # "signed_in" /\ answers' = answers \cup {a} /\ handling' = handling \ {h}
      BY <1>7, <2>3, <3>1 DEF Consent!Exchange, Consent!Answer
    <3>3. a.c.code = 0 \/ a.c.code = a.c.n
      BY <2>0, <3>2
    <3>4. handling' \subseteq handling /\ spent \subseteq spent' /\ callbacks' \subseteq callbacks
      BY <2>1, <3>2
    <3> QED BY <1>0, <2>1, <3>2, <3>3, <3>4, ConsentFailed
  <2> QED BY <2>2, <2>3
<1>8. CASE Consent!OAuthTick
  <2>1. UNCHANGED <<handling, spent, called, answers>> /\ callbacks' = callbacks
    BY <1>8 DEF Consent!OAuthTick
  <2> QED BY <1>0, <2>1, ConsentRest DEF CodesOwn
<1> QED BY <1>1, <1>2, <1>3, <1>4, <1>5, <1>6, <1>7, <1>8 DEF Consent!OAuthNext

(***************************************************************************)
(* The buttons, together.                                                  *)
(***************************************************************************)
ButtonsInv == Paced /\ Hinted /\ DeviceInv /\ FormInv /\ PopupInv /\ ConsentInv

LEMMA ButtonsStep == ButtonsInv /\ [Next]_allVars => ButtonsInv'
<1> SUFFICES ASSUME ButtonsInv, [Next]_allVars PROVE ButtonsInv'
  OBVIOUS
<1>1. Paced'
  BY RefreshAlone, PacedStep DEF ButtonsInv
<1>2. Hinted'
  BY RefreshAlone, HintedStep DEF ButtonsInv
<1>3. DeviceInv'
  BY PushAlone, DeviceStep DEF ButtonsInv
<1>4. FormInv'
  BY FormAlone, FormStep DEF ButtonsInv
<1>5. PopupInv'
  BY PopupAlone, PopupStep DEF ButtonsInv
<1>6. ConsentInv'
  <2>1. CASE UNCHANGED oauthVars
    <3>1. UNCHANGED <<handling, spent, called, answers, callbacks, consent, hour, starts, replays>>
      BY <2>1 DEF oauthVars
    <3>2. ConsentTypes' /\ \A c \in callbacks' : c.code = 0 \/ c.code = c.n
      BY <3>1 DEF ButtonsInv, ConsentInv, ConsentTypes, CodesOwn
    <3> QED BY <3>1, <3>2, ConsentRest DEF ButtonsInv
  <2> QED BY <2>1, ConsentAlone, ConsentStep DEF ButtonsInv
<1> QED BY <1>1, <1>2, <1>3, <1>4, <1>5, <1>6 DEF ButtonsInv

LEMMA ButtonsTrue == ButtonsInv => ButtonsHonest
BY RefreshHonest, DeviceHonest, FormHonest, PopupHonest, ConsentHonest DEF ButtonsInv, ButtonsHonest

(* What a button or a form says is what became of it, on every page.        *)
THEOREM ButtonsSay == Spec => []ButtonsHonest
<1>1. Init => ButtonsInv
  BY RefreshStart, DeviceStart, FormStart, PopupStart, ConsentStart DEF ButtonsInv
<1> QED BY <1>1, ButtonsStep, ButtonsTrue, PTL DEF Spec

(***************************************************************************)
(* The pages that read the backend (FeedProofs), as they are open.         *)
(***************************************************************************)
(* The tokens page at rest shows what its owner did and can be used, and an  *)
(* operation that is alone keeps the others away, for every number of tokens, *)
(* machines and operations.                                                  *)
THEOREM OwnWorkKept == Spec => []OwnWork
<1>1. Init => TokensInv
  BY TokensStart DEF Init
<1>2. TokensInv /\ [Next]_allVars => TokensInv'
  <2> SUFFICES ASSUME TokensInv, [Next]_allVars PROVE TokensInv'
    OBVIOUS
  <2>1. CASE UNCHANGED tokensPageVars
    <3>1. UNCHANGED <<state, holder, tokens, machines, view, busy, renaming, confirming, secret, ops, did, trusted, turns>>
      BY <2>1 DEF tokensPageVars, backVars, listVars, uiVars
    <3>2. TokensPageTypeOK'
      <4>1. busy' \in BOOLEAN /\ trusted' \in BOOLEAN
        BY <3>1 DEF TokensInv, TokensPageTypeOK
      <4> QED BY <3>1, <4>1 DEF TokensInv, TokensPageTypeOK
    <3>3. Lonely' /\ Flagged'
      BY <3>1 DEF TokensInv, Lonely, Flagged
    <3>4. ReadSince' /\ OfToks' /\ OfMachs' /\ TokensSo(state)' /\ MachinesSo(holder)'
      BY <3>1 DEF TokensInv, ReadSince, OfToks, OfMachs, TokensSo, MachinesSo
    <3> QED BY <3>1, <3>2, <3>3, <3>4 DEF TokensInv
  <2> QED BY <2>1, TokensAlone, TokensStep
<1>3. TokensInv => OwnWork
  BY TokensHonest DEF OwnWork
<1> QED BY <1>1, <1>2, <1>3, PTL DEF Spec

LEMMA ReadersAlone ==
    [Next]_allVars => \/ UNCHANGED <<open, sharedVars, dashVars, albumVars>>
                      \/ Only("dashboard") /\ DashNext /\ UNCHANGED <<open, page, albumVars>>
                      \/ Only("album") /\ AlbumNext /\ UNCHANGED <<open, page>>
BY DEF Next, EarlierNext, PageNext, allVars, earlierVars, fullPageVars

(* The page that is open keeps what keeps it up to date.                     *)
FeedsInv == (Only("dashboard") => DashInv) /\ (Only("album") => AlbumInv)

LEMMA FeedsKept == Spec => []FeedsInv
<1>1. Init => FeedsInv
  BY DashStart, AlbumStart DEF Init, FeedsInv
<1>2. FeedsInv /\ [Next]_allVars => FeedsInv'
  <2> SUFFICES ASSUME FeedsInv, [Next]_allVars PROVE FeedsInv'
    OBVIOUS
  <2>1. (Only("dashboard") => DashInv) /\ (Only("album") => AlbumInv)
    BY DEF FeedsInv
  <2>2. CASE UNCHANGED <<open, sharedVars, dashVars, albumVars>>
    <3>1. Only("dashboard") <=> Only("dashboard")'
      BY <2>2 DEF Only
    <3>2. Only("album") <=> Only("album")'
      BY <2>2 DEF Only
    <3>3. (DashInv => DashInv') /\ (AlbumInv => AlbumInv')
      BY <2>2, PagesIdle
    <3> QED BY <2>1, <3>1, <3>2, <3>3 DEF FeedsInv
  <2>3. CASE Only("dashboard") /\ DashNext /\ UNCHANGED <<open, page, albumVars>>
    <3>1. DashInv'
      BY <2>1, <2>3, DashStep
    <3>2. ~Only("album")'
      BY <2>3 DEF Only
    <3> QED BY <3>1, <3>2 DEF FeedsInv
  <2>4. CASE Only("album") /\ AlbumNext /\ UNCHANGED <<open, page>>
    <3>1. AlbumInv'
      BY <2>1, <2>4, AlbumStep
    <3>2. ~Only("dashboard")'
      BY <2>4 DEF Only
    <3> QED BY <3>1, <3>2 DEF FeedsInv
  <2> QED BY <2>2, <2>3, <2>4, ReadersAlone
<1> QED BY <1>1, <1>2, PTL DEF Spec

(* Whatever the events of the backend, the losses of the stream, the order of *)
(* the answers and the user do, the page that is open always has a way to     *)
(* hear of changes, and once it has handled what it heard it shows what the   *)
(* backend has: the machines, their details and the attentions of the         *)
(* dashboard, the sessions of Spotlight (useEventStream, useDashboard,        *)
(* reconcileAlbum).                                                           *)
THEOREM PagesCaughtUp == Spec => []PageCaughtUp
<1>1. FeedsInv => PageCaughtUp
  BY DashHonest, AlbumHonest DEF PageCaughtUp, FeedsInv
<1> QED BY <1>1, FeedsKept, PTL

(***************************************************************************)
(* The cards of the dashboard.                                             *)
(***************************************************************************)
(* In the order of last use a card is ahead of another by the bucket of the   *)
(* last change, and in the same bucket by its id.                             *)
Ahead(m, k, act) ==
    \/ act[m] \div Bucket > act[k] \div Bucket
    \/ act[m] \div Bucket = act[k] \div Bucket /\ m < k
Ranking(act) == {p \in Named \X Named : Ahead(p[1], p[2], act)}
CardsInv ==
    /\ active \in [Named -> Nat] /\ now \in Nat
    /\ mode = "recent" => LaysOut(order, Named, Ranking(active))

LEMMA AheadOrders ==
    ASSUME NEW act \in [Named -> Nat]
    PROVE  /\ \A m \in Named : ~Ahead(m, m, act)
           /\ \A m, k \in Named : m = k \/ Ahead(m, k, act) \/ Ahead(k, m, act)
           /\ \A m, k \in Named : Ahead(m, k, act) => ~Ahead(k, m, act)
           /\ \A m, k, l \in Named : Ahead(m, k, act) /\ Ahead(k, l, act) => Ahead(m, l, act)
<1>1. \A m \in Named : m \in Nat /\ act[m] \div Bucket \in Int
  <2>1. Named \subseteq Nat /\ Bucket \in Nat \ {0}
    BY PagesAssumption
  <2> QED BY <2>1
<1>2. PICK b : b = [m \in Named |-> act[m] \div Bucket]
  OBVIOUS
<1>3. \A m \in Named : b[m] \in Int
  BY <1>1, <1>2
<1>4. \A m, k \in Named : Ahead(m, k, act) <=> b[m] > b[k] \/ (b[m] = b[k] /\ m < k)
  BY <1>2 DEF Ahead
<1> QED BY <1>1, <1>3, <1>4

LEMMA RankingSorts ==
    ASSUME NEW act \in [Named -> Nat]
    PROVE  /\ Cardinality(Named) \in Nat
           /\ \E f : LaysOut(f, Named, Ranking(act))
           /\ \A h : LaysOut(h, Named, Ranking(act)) => \A m \in Named : \E k \in 1..Cardinality(Named) : h[k] = m
<1>1. \A m, k \in Named : <<m, k>> \in Ranking(act) <=> Ahead(m, k, act)
  BY DEF Ranking
<1>2. /\ \A m \in Named : <<m, m>> \notin Ranking(act)
      /\ \A m, k \in Named : m = k \/ <<m, k>> \in Ranking(act) \/ <<k, m>> \in Ranking(act)
      /\ \A m, k, l \in Named : <<m, k>> \in Ranking(act) /\ <<k, l>> \in Ranking(act) => <<m, l>> \in Ranking(act)
  BY <1>1, AheadOrders
<1>3. IsFiniteSet(Named)
  BY PagesAssumption
<1> QED BY <1>2, <1>3, Sorted, Zenon

(* The place of a card says how it ranks.                                   *)
LEMMA PlacesTell ==
    ASSUME NEW act \in [Named -> Nat], NEW o, LaysOut(o, Named, Ranking(act)), NEW m \in Named, NEW k \in Named
    PROVE  V!Index(m, o) < V!Index(k, o) <=> Ahead(m, k, act)
<1>1. PICK n \in Nat : n = Cardinality(Named)
  BY RankingSorts
<1>2. o \in [1..n -> Named] /\ \A i, j \in 1..n : i < j => Ahead(o[i], o[j], act)
  <2>1. o \in [1..n -> Named] /\ \A i, j \in 1..n : i < j => <<o[i], o[j]>> \in Ranking(act)
    BY <1>1 DEF LaysOut
  <2> QED BY <2>1 DEF Ranking
<1>3. \A x \in Named : V!Index(x, o) \in 1..n /\ o[V!Index(x, o)] = x
  <2> TAKE x \in Named
  <2>1. \E i \in DOMAIN o : o[i] = x
    BY <1>1, <1>2, RankingSorts
  <2>2. V!Index(x, o) \in DOMAIN o /\ o[V!Index(x, o)] = x
    BY <2>1 DEF V!Index
  <2> QED BY <1>2, <2>2
<1>4. PICK i \in 1..n, j \in 1..n : i = V!Index(m, o) /\ j = V!Index(k, o) /\ o[i] = m /\ o[j] = k
  BY <1>3
<1>5. i < j => Ahead(m, k, act)
  BY <1>2, <1>4
<1>6. j < i => Ahead(k, m, act)
  BY <1>2, <1>4
<1>7. i = j => m = k
  BY <1>4
<1>8. i < j \/ i = j \/ j < i
  BY <1>1
<1>9. i \in Nat /\ j \in Nat
  BY <1>1
<1> QED BY <1>4, <1>5, <1>6, <1>7, <1>8, <1>9, AheadOrders

LEMMA ViewsCount == ASSUME NEW S PROVE V!Cardinality(S) = Cardinality(S)
BY Zenon DEF V!Cardinality, Cardinality

LEMMA NamedCounts == V!Cardinality(Named) = Cardinality(Named)
BY ViewsCount

(* The cards, or the machines as they are listed, leave none out.           *)
Everyone(o) ==
    /\ o \in [1..Cardinality(Named) -> Named]
    /\ \A m \in Named : \E k \in 1..Cardinality(Named) : o[k] = m

(* What is laid out by an order of the machines is in that order, and has     *)
(* them all.                                                                 *)
LEMMA LaidByOrder ==
    ASSUME NEW ranks, NEW pairs,
           \A m \in Named : <<m, m>> \notin ranks,
           \A m, k \in Named : m = k \/ <<m, k>> \in ranks \/ <<k, m>> \in ranks,
           \A m, k, l \in Named : <<m, k>> \in ranks /\ <<k, l>> \in ranks => <<m, l>> \in ranks,
           \A m, k \in Named : m # k => (<<m, k>> \in pairs <=> <<m, k>> \in ranks)
    PROVE  LaysOut(V!LaidOut(pairs), Named, ranks) /\ Everyone(V!LaidOut(pairs))
<1>1. /\ Cardinality(Named) \in Nat
      /\ \E f : LaysOut(f, Named, ranks)
      /\ \A h : LaysOut(h, Named, ranks) => \A m \in Named : \E k \in 1..Cardinality(Named) : h[k] = m
  <2>1. IsFiniteSet(Named)
    BY PagesAssumption
  <2> QED BY <2>1, Sorted, Zenon
<1>2. PICK n \in Nat : n = Cardinality(Named) /\ n = V!Cardinality(Named)
  BY <1>1, NamedCounts
<1>3. PICK f : LaysOut(f, Named, ranks)
  BY <1>1
<1>4. f \in [1..n -> Named] /\ \A i, j \in 1..n : i < j => <<f[i], f[j]>> \in ranks
  BY <1>2, <1>3 DEF LaysOut
<1>5. \A i, j \in 1..n : i < j => f[i] # f[j] /\ <<f[i], f[j]>> \in pairs
  <2> SUFFICES ASSUME NEW i \in 1..n, NEW j \in 1..n, i < j PROVE f[i] # f[j] /\ <<f[i], f[j]>> \in pairs
    OBVIOUS
  <2>1. f[i] \in Named /\ f[j] \in Named /\ <<f[i], f[j]>> \in ranks
    BY <1>4
  <2> QED BY <2>1
<1>6. PICK o : o = V!LaidOut(pairs)
  OBVIOUS
<1>7. o \in [1..n -> Named] /\ \A i, j \in 1..n : i < j => o[i] # o[j] /\ <<o[i], o[j]>> \in pairs
  <2>1. f \in [1..V!Cardinality(Named) -> Named] /\ V!InTurn(f, pairs)
    BY <1>2, <1>4, <1>5 DEF V!InTurn
  <2>2. o \in [1..V!Cardinality(Named) -> Named] /\ V!InTurn(o, pairs)
    BY <1>6, <2>1, Zenon DEF V!LaidOut
  <2> QED BY <1>2, <2>2 DEF V!InTurn
<1>8. \A i, j \in 1..n : i < j => <<o[i], o[j]>> \in ranks
  <2> SUFFICES ASSUME NEW i \in 1..n, NEW j \in 1..n, i < j PROVE <<o[i], o[j]>> \in ranks
    OBVIOUS
  <2>1. o[i] \in Named /\ o[j] \in Named /\ o[i] # o[j] /\ <<o[i], o[j]>> \in pairs
    BY <1>7
  <2> QED BY <2>1
<1>9. LaysOut(o, Named, ranks)
  BY <1>2, <1>7, <1>8 DEF LaysOut
<1>10. \A m \in Named : \E k \in 1..n : o[k] = m
  BY <1>1, <1>2, <1>9
<1> QED BY <1>2, <1>6, <1>7, <1>9, <1>10 DEF Everyone

LEMMA LaidByRank ==
    ASSUME NEW act \in [Named -> Nat], NEW pairs,
           \A m, k \in Named : m # k => (<<m, k>> \in pairs <=> Ahead(m, k, act))
    PROVE  LaysOut(V!LaidOut(pairs), Named, Ranking(act))
<1>1. \A m, k \in Named : <<m, k>> \in Ranking(act) <=> Ahead(m, k, act)
  BY DEF Ranking
<1>2. /\ \A m \in Named : <<m, m>> \notin Ranking(act)
      /\ \A m, k \in Named : m = k \/ <<m, k>> \in Ranking(act) \/ <<k, m>> \in Ranking(act)
      /\ \A m, k, l \in Named : <<m, k>> \in Ranking(act) /\ <<k, l>> \in Ranking(act) => <<m, l>> \in Ranking(act)
  BY <1>1, AheadOrders
<1>3. \A m, k \in Named : m # k => (<<m, k>> \in pairs <=> <<m, k>> \in Ranking(act))
  BY <1>1
<1> QED BY <1>2, <1>3, LaidByOrder

LEMMA RecentSorts ==
    ASSUME NEW act \in [Named -> Nat], NEW was
    PROVE  LaysOut(V!sortMachines("recent", act, was), Named, Ranking(act))
<1>1. PICK pairs : pairs = {p \in Named \X Named : V!Outranks("recent", p[1], p[2], act, was)}
  OBVIOUS
<1>2. ASSUME NEW m \in Named, NEW k \in Named, m # k PROVE <<m, k>> \in pairs <=> Ahead(m, k, act)
  <2>1. <<m, k>> \in pairs <=> V!Outranks("recent", m, k, act, was)
    BY <1>1
  <2>2. PICK x \in Int, y \in Int : x = act[m] \div Bucket /\ y = act[k] \div Bucket
    BY PagesAssumption
  <2>3. V!Compared("recent", m, k, act) <=> x > y
    BY <2>2 DEF V!Compared
  <2>4. V!Compared("recent", k, m, act) <=> y > x
    BY <2>2 DEF V!Compared
  <2>5. m \in Nat /\ k \in Nat /\ (m < k \/ k < m)
    BY <1>2, PagesAssumption
  <2>6. V!Before("recent", m, k, act) <=> x > y \/ (~(y > x) /\ m < k)
    BY <2>3, <2>4 DEF V!Before, V!ById
  <2>7. V!Before("recent", k, m, act) <=> y > x \/ (~(x > y) /\ k < m)
    BY <2>3, <2>4 DEF V!Before, V!ById
  <2>8. V!Outranks("recent", m, k, act, was) <=> V!Before("recent", m, k, act)
    BY <2>2, <2>5, <2>6, <2>7 DEF V!Outranks
  <2>9. Ahead(m, k, act) <=> x > y \/ (x = y /\ m < k)
    BY <2>2 DEF Ahead
  <2> QED BY <2>1, <2>2, <2>6, <2>8, <2>9
<1>3. LaysOut(V!LaidOut(pairs), Named, Ranking(act))
  BY <1>2, LaidByRank
<1> QED BY <1>1, <1>3 DEF V!sortMachines

LEMMA CardsStart == Init => CardsInv
<1> SUFFICES ASSUME Init PROVE CardsInv
  OBVIOUS
<1>1. V!ViewsInit
  BY DEF Init
<1>2. active = [m \in Named |-> 0] /\ now = 0 /\ order = seen /\ seen = V!LaidOut({p \in Named \X Named : p[1] < p[2]})
  BY <1>1 DEF V!ViewsInit
<1>3. active \in [Named -> Nat] /\ now \in Nat
  BY <1>2
<1>4. PICK pairs : pairs = {p \in Named \X Named : p[1] < p[2]}
  OBVIOUS
<1>5. \A m, k \in Named : <<m, k>> \in pairs <=> m < k
  BY <1>4
<1>6. \A m, k \in Named : Ahead(m, k, active) <=> m < k
  <2> SUFFICES ASSUME NEW m \in Named, NEW k \in Named PROVE Ahead(m, k, active) <=> m < k
    OBVIOUS
  <2>1. PICK x \in Int : x = active[m] \div Bucket /\ x = active[k] \div Bucket
    BY <1>2, PagesAssumption
  <2> QED BY <2>1 DEF Ahead
<1>7. LaysOut(V!LaidOut(pairs), Named, Ranking(active))
  BY <1>3, <1>5, <1>6, LaidByRank
<1> QED BY <1>2, <1>3, <1>4, <1>7 DEF CardsInv

LEMMA CardsIdle == ASSUME CardsInv, UNCHANGED <<mode, active, order, now>> PROVE CardsInv' /\ V!PlacesKept
<1>1. CardsInv'
  BY DEF CardsInv
<1>2. V!PlacesKept
  BY DEF V!PlacesKept
<1> QED BY <1>1, <1>2

LEMMA CardsStep == ASSUME CardsInv, V!CardsNext PROVE CardsInv' /\ V!PlacesKept
<1>1. active \in [Named -> Nat] /\ now \in Nat /\ (mode = "recent" => LaysOut(order, Named, Ranking(active)))
  BY DEF CardsInv
<1>2. SUFFICES CardsInv'
  <2>1. active' \in [Named -> Nat] /\ (mode' = "recent" => LaysOut(order', Named, Ranking(active')))
    BY <1>2 DEF CardsInv
  <2>2. ASSUME mode = "recent", mode' = "recent", NEW m \in Named, NEW k \in Named, active'[m] = active[m], active'[k] = active[k]
        PROVE  V!Index(m, order) < V!Index(k, order) <=> V!Index(m, order') < V!Index(k, order')
    <3>1. V!Index(m, order) < V!Index(k, order) <=> Ahead(m, k, active)
      BY <1>1, <2>2, PlacesTell
    <3>2. V!Index(m, order') < V!Index(k, order') <=> Ahead(m, k, active')
      BY <2>1, <2>2, PlacesTell
    <3>3. Ahead(m, k, active) <=> Ahead(m, k, active')
      BY <2>2 DEF Ahead
    <3> QED BY <3>1, <3>2, <3>3
  <2>3. V!PlacesKept
    BY <2>2 DEF V!PlacesKept
  <2> QED BY <1>2, <2>3
<1>3. ASSUME NEW m \in Named, NEW t \in 0..now, V!Hear(m, t) PROVE CardsInv'
  <2>1. active' \in [Named -> Nat] /\ now' \in Nat
    BY <1>1, <1>3 DEF V!Hear
  <2>2. mode' = mode /\ order' = V!sortMachines(mode, active', seen)
    BY <1>3 DEF V!Hear
  <2>3. LaysOut(V!sortMachines("recent", active', seen), Named, Ranking(active'))
    BY <2>1, RecentSorts
  <2> QED BY <2>1, <2>2, <2>3 DEF CardsInv
<1>4. ASSUME NEW md, V!Choose(md) PROVE CardsInv'
  <2>1. active' = active /\ now' = now /\ mode' = md /\ order' = V!sortMachines(md, active, seen)
    BY <1>4 DEF V!Choose
  <2>2. LaysOut(V!sortMachines("recent", active, seen), Named, Ranking(active))
    BY <1>1, RecentSorts
  <2> QED BY <1>1, <2>1, <2>2 DEF CardsInv
<1>5. CASE V!ViewsTick
  BY <1>1, <1>5 DEF V!ViewsTick, CardsInv
<1>6. CASE V!Relist
  <2>1. active' = active /\ now' = now /\ mode' = mode /\ order' = V!sortMachines(mode, active, seen')
    BY <1>6 DEF V!Relist
  <2>2. LaysOut(V!sortMachines("recent", active, seen'), Named, Ranking(active))
    BY <1>1, RecentSorts
  <2> QED BY <1>1, <2>1, <2>2 DEF CardsInv
<1> QED BY <1>3, <1>4, <1>5, <1>6 DEF V!CardsNext

LEMMA ViewsAlone ==
    [Next]_allVars => \/ UNCHANGED <<mode, active, order, now>>
                      \/ V!CardsNext
BY DEF Next, EarlierNext, ViewNext, allVars, earlierVars, viewsVars, V!ReportNext, V!Report, V!Dies, V!AttendNext, V!Attend,
       V!SentNext, V!Fan, V!Becomes

(* Nothing moves under the user: a photo of Spotlight stays where it is and   *)
(* keeps the last frame it showed, and only a completed one leaves, when it   *)
(* is cleared (reconcileAlbum, clearCompleted); and of machines that only     *)
(* report, none passes another (sortMachines).                                *)
THEOREM NothingMoves == Spec => NothingJumps
<1>1. FeedsInv /\ [Next]_allVars => [PhotosKept]_album
  <2> SUFFICES ASSUME FeedsInv, [Next]_allVars PROVE album' = album \/ PhotosKept
    OBVIOUS
  <2>1. CASE UNCHANGED <<open, sharedVars, dashVars, albumVars>>
    BY <2>1 DEF albumVars
  <2>2. CASE Only("dashboard") /\ DashNext /\ UNCHANGED <<open, page, albumVars>>
    BY <2>2 DEF albumVars
  <2>3. CASE Only("album") /\ AlbumNext /\ UNCHANGED <<open, page>>
    BY <2>3, PhotosStep DEF FeedsInv
  <2> QED BY <2>1, <2>2, <2>3, ReadersAlone
<1>2. Init => CardsInv
  BY CardsStart
<1>3. CardsInv /\ [Next]_allVars => CardsInv' /\ [V!PlacesKept]_(V!viewsVars)
  BY ViewsAlone, CardsIdle, CardsStep
<1> QED BY <1>1, <1>2, <1>3, FeedsKept, PTL DEF Spec, NothingJumps, PhotosStay, V!NoJitter

(***************************************************************************)
(* What two parts make of the same data.                                   *)
(***************************************************************************)
(* Each machine has a place of its own.                                     *)
LEMMA OwnPlaces ==
    ASSUME NEW o, Everyone(o), NEW m \in Named, NEW k \in Named
    PROVE  V!Index(m, o) \in Nat /\ V!Index(k, o) \in Nat /\ (V!Index(m, o) = V!Index(k, o) => m = k)
<1>1. PICK n \in Nat : n = Cardinality(Named)
  BY PagesAssumption, FS_CardinalityType
<1>2. o \in [1..n -> Named] /\ \A x \in Named : \E i \in 1..n : o[i] = x
  BY <1>1 DEF Everyone
<1>3. \A x \in Named : V!Index(x, o) \in 1..n /\ o[V!Index(x, o)] = x
  <2> TAKE x \in Named
  <2>1. \E i \in DOMAIN o : o[i] = x
    BY <1>2
  <2>2. V!Index(x, o) \in DOMAIN o /\ o[V!Index(x, o)] = x
    BY <2>1 DEF V!Index
  <2> QED BY <1>2, <2>2
<1>4. PICK i \in 1..n, j \in 1..n : i = V!Index(m, o) /\ j = V!Index(k, o) /\ o[i] = m /\ o[j] = k
  BY <1>3
<1> QED BY <1>4

(* Any order of the list has everyone in it.                                *)
LEMMA ListedAll == ASSUME NEW o \in V!Orders PROVE Everyone(o)
<1>1. o \in [1..V!Cardinality(Named) -> Named] /\ V!ToSet(o) = Named
  BY DEF V!Orders
<1>2. V!ToSet(o) = {o[i] : i \in DOMAIN o}
  BY DEF V!ToSet
<1>3. o \in [1..Cardinality(Named) -> Named]
  BY <1>1, NamedCounts
<1>4. \A m \in Named : \E i \in 1..Cardinality(Named) : o[i] = m
  BY <1>1, <1>2, <1>3
<1> QED BY <1>3, <1>4 DEF Everyone

(* However they are compared, the cards leave no machine out.               *)
LEMMA AllCards ==
    ASSUME NEW act \in [Named -> Nat], NEW was, Everyone(was),
           name \in [Named -> Nat], needs' \in [Named -> 0..1], NEW md \in {"recent", "name", "attention"}
    PROVE  Everyone(V!sortMachines(md, act, was))
<1>1. PICK where : where = [k \in Named |-> V!Index(k, was)]
  OBVIOUS
<1>2. where \in [Named -> Nat] /\ \A j, k \in Named : where[j] = where[k] => j = k
  BY <1>1, OwnPlaces
<1>3. PICK ranks : ranks = {p \in Named \X Named : V!Outranks(md, p[1], p[2], act, was)}
  OBVIOUS
<1>4. \A m, k \in Named : <<m, k>> \in ranks <=> V!Outranks(md, m, k, act, was)
  BY <1>3
<1>5. CASE md = "name"
  <2>1. \A m, k \in Named : V!Compared("name", m, k, act) <=> name[m] # 0 /\ (name[k] = 0 \/ name[m] < name[k])
    BY DEF V!Compared
  <2>2. \A m, k \in Named : V!Before("name", m, k, act) <=> V!Compared("name", m, k, act)
    BY DEF V!Before
  <2>3. \A m, k \in Named : <<m, k>> \in ranks <=> \/ name[m] # 0 /\ (name[k] = 0 \/ name[m] < name[k])
                                               \/ /\ ~(name[k] # 0 /\ (name[m] = 0 \/ name[k] < name[m]))
                                                  /\ where[m] < where[k]
    BY <1>1, <1>4, <1>5, <2>1, <2>2 DEF V!Outranks
  <2>4. \A m \in Named : <<m, m>> \notin ranks
    BY <1>2, <2>3
  <2>5. ASSUME NEW m \in Named, NEW k \in Named PROVE m = k \/ <<m, k>> \in ranks \/ <<k, m>> \in ranks
    <3>1. PICK x \in Nat, y \in Nat : x = where[m] /\ y = where[k] /\ (x = y => m = k)
      BY <1>2
    <3>2. PICK a \in Nat, b \in Nat : a = name[m] /\ b = name[k]
      OBVIOUS
    <3>3. (x = y \/ x < y \/ y < x) /\ (a = b \/ a < b \/ b < a)
      OBVIOUS
    <3> QED BY <2>3, <3>1, <3>2, <3>3
  <2>6. ASSUME NEW m \in Named, NEW k \in Named, NEW l \in Named, <<m, k>> \in ranks, <<k, l>> \in ranks
        PROVE  <<m, l>> \in ranks
    <3>1. PICK x \in Nat, y \in Nat, z \in Nat : x = where[m] /\ y = where[k] /\ z = where[l]
      BY <1>2
    <3>2. PICK a \in Nat, b \in Nat, c \in Nat : a = name[m] /\ b = name[k] /\ c = name[l]
      OBVIOUS
    <3> QED BY <2>3, <2>6, <3>1, <3>2
  <2>7. Everyone(V!LaidOut(ranks))
    BY <2>4, <2>5, <2>6, LaidByOrder
  <2> QED BY <1>3, <2>7 DEF V!sortMachines
<1>6. CASE md = "attention"
  <2>1. \A m, k \in Named : V!Compared("attention", m, k, act) <=> needs'[m] > needs'[k]
    BY DEF V!Compared
  <2>2. \A m, k \in Named : V!Before("attention", m, k, act) <=> V!Compared("attention", m, k, act)
    BY DEF V!Before
  <2>3. \A m, k \in Named : <<m, k>> \in ranks <=> needs'[m] > needs'[k] \/ (~(needs'[k] > needs'[m]) /\ where[m] < where[k])
    BY <1>1, <1>4, <1>6, <2>1, <2>2 DEF V!Outranks
  <2>4. \A m \in Named : <<m, m>> \notin ranks
    BY <1>2, <2>3
  <2>5. ASSUME NEW m \in Named, NEW k \in Named PROVE m = k \/ <<m, k>> \in ranks \/ <<k, m>> \in ranks
    <3>1. PICK x \in Nat, y \in Nat : x = where[m] /\ y = where[k] /\ (x = y => m = k)
      BY <1>2
    <3>2. PICK a \in Nat, b \in Nat : a = needs'[m] /\ b = needs'[k]
      OBVIOUS
    <3>3. (x = y \/ x < y \/ y < x) /\ (a = b \/ a < b \/ b < a)
      OBVIOUS
    <3> QED BY <2>3, <3>1, <3>2, <3>3
  <2>6. ASSUME NEW m \in Named, NEW k \in Named, NEW l \in Named, <<m, k>> \in ranks, <<k, l>> \in ranks
        PROVE  <<m, l>> \in ranks
    <3>1. PICK x \in Nat, y \in Nat, z \in Nat : x = where[m] /\ y = where[k] /\ z = where[l]
      BY <1>2
    <3>2. PICK a \in Nat, b \in Nat, c \in Nat : a = needs'[m] /\ b = needs'[k] /\ c = needs'[l]
      OBVIOUS
    <3> QED BY <2>3, <2>6, <3>1, <3>2
  <2>7. Everyone(V!LaidOut(ranks))
    BY <2>4, <2>5, <2>6, LaidByOrder
  <2> QED BY <1>3, <2>7 DEF V!sortMachines
<1>7. CASE md = "recent"
  <2>1. PICK o : o = V!sortMachines("recent", act, was)
    OBVIOUS
  <2>2. LaysOut(o, Named, Ranking(act))
    BY <2>1, RecentSorts
  <2>3. o \in [1..Cardinality(Named) -> Named] /\ \A m \in Named : \E k \in 1..Cardinality(Named) : o[k] = m
    BY <2>2, RankingSorts DEF LaysOut
  <2> QED BY <1>7, <2>1, <2>3 DEF Everyone
<1> QED BY <1>5, <1>6, <1>7

(* A loop over 1..n comes to an end: there is what it has after each turn.   *)
LoopOver(f, S, n, a, turn) ==
    f \in [0..n -> S] /\ f[0] = a /\ \A i \in 1..n : f[i] = turn[<<f[i - 1], i>>]

LEMMA LoopRuns ==
    ASSUME NEW S, NEW n \in Nat, NEW a \in S, NEW turn \in [S \X (1..n) -> S]
    PROVE  \E f : LoopOver(f, S, n, a, turn)
<1> DEFINE Runs(f, k) == f[0] = a /\ \A i \in 1..k : f[i] = turn[<<f[i - 1], i>>]
<1>1. PICK stuck : stuck = {k \in 0..n : ~\E f \in [0..n -> S] : Runs(f, k)}
  OBVIOUS
<1>2. stuck = {}
  <2> SUFFICES ASSUME stuck # {} PROVE FALSE
    OBVIOUS
  <2>1. stuck \subseteq Nat
    BY <1>1
  <2>2. PICK k \in stuck : \A j \in stuck : k <= j
    BY <2>1, Earliest
  <2>3. k \in 0..n /\ ~\E f \in [0..n -> S] : Runs(f, k)
    BY <1>1
  <2>4. k # 0
    <3>1. PICK f : f = [i \in 0..n |-> a]
      OBVIOUS
    <3>2. f \in [0..n -> S] /\ Runs(f, 0)
      BY <3>1
    <3> QED BY <2>3, <3>2
  <2>5. k \in 1..n /\ k - 1 \in 0..n /\ k - 1 \notin stuck
    BY <2>2, <2>3, <2>4
  <2>6. PICK f \in [0..n -> S] : Runs(f, k - 1)
    BY <1>1, <2>5
  <2>7. PICK g : g = [f EXCEPT ![k] = turn[<<f[k - 1], k>>]]
    OBVIOUS
  <2>8. g \in [0..n -> S]
    <3>1. f[k - 1] \in S /\ <<f[k - 1], k>> \in S \X (1..n)
      BY <2>5, <2>6
    <3> QED BY <2>6, <2>7, <3>1
  <2>9. \A i \in 0..n : g[i] = IF i = k THEN turn[<<f[k - 1], k>>] ELSE f[i]
    BY <2>6, <2>7
  <2>10. g[0] = a
    BY <2>4, <2>6, <2>9
  <2>11. ASSUME NEW i \in 1..k PROVE g[i] = turn[<<g[i - 1], i>>]
    <3>1. i \in 0..n /\ i - 1 \in 0..n /\ i - 1 # k
      BY <2>3
    <3>2. g[i - 1] = f[i - 1]
      BY <2>9, <3>1
    <3>3. CASE i = k
      BY <2>9, <3>1, <3>2, <3>3
    <3>4. CASE i # k
      <4>1. i \in 1..(k - 1)
        BY <2>3, <3>4
      <4>2. f[i] = turn[<<f[i - 1], i>>]
        BY <2>6, <4>1
      <4> QED BY <2>9, <3>1, <3>2, <3>4, <4>2
    <3> QED BY <3>3, <3>4
  <2>12. Runs(g, k)
    BY <2>10, <2>11
  <2> QED BY <2>3, <2>8, <2>12
<1>3. \E f \in [0..n -> S] : Runs(f, n)
  <2>1. n \in 0..n /\ n \notin stuck
    BY <1>2
  <2> HIDE DEF Runs
  <2> QED BY <1>1, <2>1
<1> QED BY <1>3 DEF LoopOver

Statuses == {"pending", "delivered", "failed", "expired"}
Sendings == [channel : V!Channels, status : Statuses]

(* What became of some deliveries, and what a badge of them says.           *)
Fits(best, of) ==
    /\ best \in Statuses \cup {"none"}
    /\ best = "none" <=> of = {}
    /\ best = "delivered" <=> "delivered" \in of
    /\ "pending" \in of => best \in {"delivered", "pending"}

LEMMA Better ==
    ASSUME NEW prev, NEW had, Fits(prev, had), NEW st \in Statuses
    PROVE  Fits(V!betterStatus(prev, st), had \cup {st})
<1>1. /\ V!Rank("delivered") = 3 /\ V!Rank("pending") = 2 /\ V!Rank("failed") = 1 /\ V!Rank("expired") = 0
      /\ V!Rank("none") = -1
  BY DEF V!Rank
<1>2. \A a, b \in Statuses \cup {"none"} : V!betterStatus(a, b) = IF V!Rank(b) > V!Rank(a) THEN b ELSE a
  BY DEF V!betterStatus
<1> QED BY <1>1, <1>2 DEF Fits, Statuses

(* The badge of a channel: none without a delivery of it, and the best of    *)
(* what became of them.                                                      *)
LEMMA BestOf ==
    ASSUME sent \in Seq(Sendings), NEW c \in V!Channels
    PROVE  LET best == V!listRecentNotifications(c)
               of == {sent[i].status : i \in {j \in 1..Len(sent) : sent[j].channel = c}}
           IN  /\ best \in Statuses \cup {"none"}
               /\ best = "none" <=> of = {}
               /\ best = "delivered" <=> "delivered" \in of
               /\ "pending" \in of => best \in {"delivered", "pending"}
<1> DEFINE n == Len(sent)
           S == Statuses \cup {"none"}
           next(prev, i) == IF sent[i].channel = c THEN V!betterStatus(prev, sent[i].status) ELSE prev
           of(k) == {sent[i].status : i \in {j \in 1..k : sent[j].channel = c}}
           step == [p \in S \X (1..n) |-> next(p[1], p[2])]
<1>1. n \in Nat /\ \A i \in 1..n : sent[i] \in Sendings
  OBVIOUS
<1>2. \A s \in S, i \in 1..n : next(s, i) \in S
  BY <1>1 DEF V!betterStatus, Sendings
<1>3. step \in [S \X (1..n) -> S]
  BY <1>2
<1>4. PICK f \in [0..n -> S] : f[0] = "none" /\ \A i \in 1..n : f[i] = step[<<f[i - 1], i>>]
  <2>1. n \in Nat /\ "none" \in S
    BY <1>1
  <2>2. PICK U, m, t : U = S /\ m = n /\ t = step
    OBVIOUS
  <2> HIDE DEF step, S, n
  <2>3. m \in Nat /\ "none" \in U /\ t \in [U \X (1..m) -> U]
    BY <1>3, <2>1, <2>2, Zenon
  <2>4. \E f : LoopOver(f, U, m, "none", t)
    BY <2>3, LoopRuns
  <2> QED BY <2>2, <2>4 DEF LoopOver
<1>5. f = [i \in 0..n |-> IF i = 0 THEN "none" ELSE LET prev == f[i - 1] IN
               IF sent[i].channel = c THEN V!betterStatus(prev, sent[i].status) ELSE prev]
  <2>1. ASSUME NEW i \in 1..n PROVE f[i] = next(f[i - 1], i)
    <3>1. <<f[i - 1], i>> \in S \X (1..n)
      BY <1>4
    <3> QED BY <1>4, <3>1
  <2> QED BY <1>4, <2>1
<1>6. PICK run : /\ run = CHOOSE best : best = [i \in 0..Len(sent) |-> IF i = 0 THEN "none" ELSE LET prev == best[i - 1] IN
                       IF sent[i].channel = c THEN V!betterStatus(prev, sent[i].status) ELSE prev]
  OBVIOUS
<1>7. run = [i \in 0..n |-> IF i = 0 THEN "none" ELSE LET prev == run[i - 1] IN
               IF sent[i].channel = c THEN V!betterStatus(prev, sent[i].status) ELSE prev]
  BY <1>5, <1>6, Zenon
<1>8. V!listRecentNotifications(c) = run[n]
  BY <1>6, Zenon DEF V!listRecentNotifications
<1>9. ASSUME NEW i \in 1..n PROVE run[i] = next(run[i - 1], i)
  <2>1. i \in 0..n /\ i # 0
    BY <1>1
  <2> QED BY <1>7, <2>1, Zenon
<1>10. run[0] = "none"
  BY <1>1, <1>7
<1>11. PICK wrong : wrong = {k \in 0..n : ~Fits(run[k], of(k))}
  OBVIOUS
<1>12. wrong = {}
  <2> SUFFICES ASSUME wrong # {} PROVE FALSE
    OBVIOUS
  <2>1. wrong \subseteq Nat
    BY <1>11
  <2>2. PICK k \in wrong : \A j \in wrong : k <= j
    BY <2>1, Earliest
  <2>3. k \in 0..n /\ ~Fits(run[k], of(k))
    BY <1>11
  <2>4. k # 0
    <3>1. of(0) = {}
      OBVIOUS
    <3>2. Fits("none", {})
      BY DEF Fits
    <3> QED BY <1>10, <2>3, <3>1, <3>2
  <2>5. k \in 1..n /\ k - 1 \in 0..n /\ k - 1 \notin wrong
    BY <2>2, <2>3, <2>4
  <2>6. Fits(run[k - 1], of(k - 1))
    BY <1>11, <2>5
  <2>7. of(k) = of(k - 1) \cup (IF sent[k].channel = c THEN {sent[k].status} ELSE {})
    <3>1. \A j \in 1..k : j \in 1..(k - 1) \/ j = k
      BY <2>3
    <3>2. \A j \in 1..(k - 1) : j \in 1..k
      BY <2>3
    <3> QED BY <2>5, <3>1, <3>2
  <2>8. sent[k].status \in Statuses
    BY <1>1, <2>5 DEF Sendings
  <2>9. run[k] = next(run[k - 1], k)
    BY <1>9, <2>5
  <2> HIDE DEF of
  <2>10. PICK prev, had, st : prev = run[k - 1] /\ had = of(k - 1) /\ st = sent[k].status
    OBVIOUS
  <2>11. CASE sent[k].channel = c
    <3>1. run[k] = V!betterStatus(prev, st) /\ of(k) = had \cup {st}
      BY <2>7, <2>9, <2>10, <2>11
    <3>2. Fits(V!betterStatus(prev, st), had \cup {st})
      BY <2>6, <2>8, <2>10, Better
    <3> QED BY <2>3, <3>1, <3>2
  <2>12. CASE sent[k].channel # c
    <3>1. run[k] = run[k - 1] /\ of(k) = of(k - 1)
      BY <2>7, <2>9, <2>12
    <3> QED BY <2>3, <2>6, <3>1
  <2> QED BY <2>11, <2>12
<1>13. Fits(run[n], of(n))
  <2>1. n \in 0..n /\ n \notin wrong
    BY <1>1, <1>12
  <2> QED BY <1>11, <2>1
<1> QED BY <1>8, <1>13 DEF Fits

(* As many marks for each s of a finite set as there are elements of its set, *)
(* which the sets of the others do not share, are as many as the elements.    *)
LEMMA MarksCount ==
    ASSUME NEW S, IsFiniteSet(S), NEW A, IsFiniteSet(A), NEW part \in [S -> SUBSET A],
           \A s, t \in S : s # t => part[s] \cap part[t] = {}
    PROVE  Cardinality({p \in S \X (1..Cardinality(A)) : p[2] <= Cardinality(part[p[1]])})
             = Cardinality(UNION {part[s] : s \in S})
<1> DEFINE c(s) == Cardinality(part[s])
           marks == {p \in S \X (1..Cardinality(A)) : p[2] <= c(p[1])}
           all == UNION {part[s] : s \in S}
<1>1. Cardinality(A) \in Nat
  BY FS_CardinalityType
<1>2. \A s \in S : c(s) \in Nat /\ c(s) <= Cardinality(A) /\ ExistsBijection(1..c(s), part[s])
  <2> SUFFICES ASSUME NEW s \in S PROVE c(s) \in Nat /\ c(s) <= Cardinality(A) /\ ExistsBijection(1..c(s), part[s])
    OBVIOUS
  <2>1. IsFiniteSet(part[s]) /\ Cardinality(part[s]) <= Cardinality(A)
    BY FS_Subset
  <2> QED BY <2>1, FS_CardinalityType
<1>3. IsFiniteSet(marks)
  <2>1. IsFiniteSet(1..Cardinality(A))
    BY <1>1, FS_Interval
  <2>2. IsFiniteSet(S \X (1..Cardinality(A)))
    BY <2>1, FS_Product
  <2>3. marks \subseteq S \X (1..Cardinality(A))
    OBVIOUS
  <2> QED BY <2>2, <2>3, FS_Subset
<1>4. PICK tell : tell = [s \in S |-> CHOOSE f : f \in Bijection(1..c(s), part[s])]
  OBVIOUS
<1>5. \A s \in S : tell[s] \in Bijection(1..c(s), part[s])
  <2> SUFFICES ASSUME NEW s \in S PROVE tell[s] \in Bijection(1..c(s), part[s])
    OBVIOUS
  <2>1. \E f : f \in Bijection(1..c(s), part[s])
    BY <1>2 DEF ExistsBijection
  <2> HIDE DEF c
  <2> QED BY <1>4, <2>1
<1>6. \A s \in S : /\ tell[s] \in [1..c(s) -> part[s]]
                   /\ \A i, j \in 1..c(s) : tell[s][i] = tell[s][j] => i = j
                   /\ \A a \in part[s] : \E i \in 1..c(s) : tell[s][i] = a
  <2> SUFFICES ASSUME NEW s \in S
               PROVE  /\ tell[s] \in [1..c(s) -> part[s]]
                      /\ \A i, j \in 1..c(s) : tell[s][i] = tell[s][j] => i = j
                      /\ \A a \in part[s] : \E i \in 1..c(s) : tell[s][i] = a
    OBVIOUS
  <2>1. PICK f, n : f = tell[s] /\ n = c(s)
    OBVIOUS
  <2>2. f \in Bijection(1..n, part[s])
    BY <1>5, <2>1
  <2>3. /\ f \in [1..n -> part[s]]
        /\ \A i, j \in 1..n : f[i] = f[j] => i = j
        /\ \A a \in part[s] : \E i \in 1..n : f[i] = a
    BY <2>2 DEF Bijection, Injection, Surjection, IsInjective
  <2> QED BY <2>1, <2>3
<1>7. PICK mark : mark = [p \in marks |-> tell[p[1]][p[2]]]
  OBVIOUS
<1>8. \A p \in marks : p[1] \in S /\ p[2] \in 1..c(p[1]) /\ p = <<p[1], p[2]>>
  BY <1>1, <1>2
<1>9. ASSUME NEW p \in marks
      PROVE  \E s \in S : \E i \in 1..c(s) : p = <<s, i>> /\ mark[p] = tell[s][i] /\ tell[s][i] \in part[s]
  <2>1. PICK s \in S : s = p[1]
    BY <1>8
  <2>2. PICK i \in 1..c(s) : i = p[2]
    BY <1>8, <2>1
  <2>3. p = <<s, i>>
    BY <1>8, <2>1, <2>2
  <2>4. tell[s] \in [1..c(s) -> part[s]]
    BY <1>6
  <2>5. mark[p] = tell[s][i]
    BY <1>7, <2>1, <2>2
  <2> HIDE DEF c
  <2>6. tell[s][i] \in part[s]
    BY <2>4
  <2> QED BY <2>3, <2>5, <2>6
<1>10. mark \in [marks -> all] /\ \A p, q \in marks : mark[p] = mark[q] => p = q
  <2>1. \A p \in marks : mark[p] \in all
    <3> HIDE DEF marks, c
    <3> QED BY <1>9
  <2>2. ASSUME NEW p \in marks, NEW q \in marks, mark[p] = mark[q] PROVE p = q
    <3>1. PICK s \in S : \E i \in 1..c(s) : p = <<s, i>> /\ mark[p] = tell[s][i] /\ tell[s][i] \in part[s]
      BY <1>9
    <3>2. PICK i \in 1..c(s) : p = <<s, i>> /\ mark[p] = tell[s][i] /\ tell[s][i] \in part[s]
      BY <3>1
    <3>3. PICK t \in S : \E j \in 1..c(t) : q = <<t, j>> /\ mark[q] = tell[t][j] /\ tell[t][j] \in part[t]
      BY <1>9
    <3>4. PICK j \in 1..c(t) : q = <<t, j>> /\ mark[q] = tell[t][j] /\ tell[t][j] \in part[t]
      BY <3>3
    <3> HIDE DEF c, marks
    <3>5. s = t
      BY <2>2, <3>2, <3>4
    <3>6. i = j
      BY <1>6, <2>2, <3>2, <3>4, <3>5
    <3> QED BY <3>2, <3>4, <3>5, <3>6
  <2> QED BY <1>7, <2>1, <2>2
<1>11. ASSUME NEW a \in all PROVE \E p \in marks : mark[p] = a
  <2>1. PICK s \in S : a \in part[s]
    OBVIOUS
  <2>2. PICK i \in 1..c(s) : tell[s][i] = a
    BY <1>6, <2>1
  <2>3. <<s, i>> \in marks
    BY <1>1, <1>2
  <2> QED BY <1>7, <2>2, <2>3
<1>12. ExistsBijection(marks, all)
  <2> HIDE DEF marks, all
  <2>1. mark \in Bijection(marks, all)
    BY <1>10, <1>11 DEF Bijection, Injection, Surjection, IsInjective
  <2> QED BY <2>1 DEF ExistsBijection
<1> HIDE DEF marks, all
<1>13. Cardinality(all) = Cardinality(marks)
  BY <1>3, <1>12, FS_Bijection
<1> QED BY <1>13 DEF marks, all

(* The number on a card is that of the badges of its sessions, and one for    *)
(* the machine's silence.                                                    *)
LEMMA BadgesAdd ==
    ASSUME badges \subseteq V!Attentions, IsFiniteSet(badges)
    PROVE  V!attentionCount = V!Cardinality(V!Marks) + (IF V!machineIdle THEN 1 ELSE 0)
<1>1. IsFiniteSet(Sids) /\ 0 \notin Sids
  BY PagesAssumption
<1>2. PICK part : part = [s \in Sids |-> V!OfSession(s)]
  OBVIOUS
<1>3. \A s \in Sids : part[s] = {a \in badges : a.sid = s /\ a.type \notin {"claude.idle", "claude.thinking"}}
  BY <1>2 DEF V!OfSession
<1>4. part \in [Sids -> SUBSET badges] /\ \A s, t \in Sids : s # t => part[s] \cap part[t] = {}
  BY <1>2, <1>3
<1>5. PICK all : all = UNION {part[s] : s \in Sids}
  OBVIOUS
<1>6. V!Cardinality(V!Marks) = Cardinality(all)
  <2>1. V!Marks = {p \in Sids \X (1..Cardinality(badges)) : p[2] <= Cardinality(part[p[1]])}
    BY <1>2, ViewsCount DEF V!Marks, V!sessionAttentions
  <2>2. Cardinality({p \in Sids \X (1..Cardinality(badges)) : p[2] <= Cardinality(part[p[1]])}) = Cardinality(all)
    BY <1>1, <1>4, <1>5, MarksCount
  <2> QED BY <2>1, <2>2, ViewsCount
<1>7. PICK idle : idle = {a \in badges : a.type = "claude.idle"}
  OBVIOUS
<1>8. {a \in badges : V!Needing(a)} = all \cup idle
  <2>1. \A a \in badges : a.sid \in Sids \/ (a.sid = 0 /\ a.type \in {"claude.idle", "machine.offline"})
    BY DEF V!Attentions, V!Machine
  <2>2. \A a \in badges : a.sid \in Sids => a.type \notin {"claude.idle", "machine.offline"}
    BY <1>1 DEF V!Attentions, V!Machine
  <2>3. \A a \in badges : a \in all <=> a.sid \in Sids /\ a.type \notin {"claude.idle", "claude.thinking"}
    BY <1>3, <1>4, <1>5
  <2>4. all \subseteq badges
    BY <1>4, <1>5
  <2> QED BY <1>7, <2>1, <2>2, <2>3, <2>4 DEF V!Needing
<1>9. all \cap idle = {}
  BY <1>3, <1>4, <1>5, <1>7
<1>10. IsFiniteSet(all) /\ IsFiniteSet(idle)
  BY <1>4, <1>5, <1>7, FS_Subset
<1>11. Cardinality(idle) = IF V!machineIdle THEN 1 ELSE 0
  <2>1. \A a, b \in idle : a = b
    BY <1>1, <1>7 DEF V!Attentions, V!Machine
  <2>2. CASE idle = {}
    BY <1>7, <2>2, FS_EmptySet DEF V!machineIdle
  <2>3. CASE idle # {}
    <3>1. PICK a \in idle : TRUE
      BY <2>3
    <3>2. idle = {a} /\ V!machineIdle
      BY <1>7, <2>1, <3>1 DEF V!machineIdle
    <3> QED BY <3>2, FS_Singleton
  <2> QED BY <2>2, <2>3
<1>12. Cardinality(all \cup idle) = Cardinality(all) + Cardinality(idle)
  <2>1. Cardinality(all \cup idle) = Cardinality(all) + Cardinality(idle) - Cardinality(all \cap idle)
    BY <1>10, FS_Union
  <2>2. Cardinality(all \cap idle) = 0
    BY <1>9, FS_EmptySet
  <2>3. Cardinality(all) \in Nat /\ Cardinality(idle) \in Nat
    BY <1>10, FS_CardinalityType
  <2> QED BY <2>1, <2>2, <2>3
<1>13. V!attentionCount = Cardinality(all \cup idle)
  BY <1>8, ViewsCount DEF V!attentionCount
<1> QED BY <1>6, <1>11, <1>12, <1>13

(* A pane that the plugin has judged not to be Claude's does not look it.    *)
Judged == row.claude = "other" => ~V!hasClaudeMarker(row.name) /\ row.command # "claude"
ViewsInv ==
    /\ row \in [name : V!Titles \cup {"null"}, command : V!Commands, claude : V!Verdicts, exited : BOOLEAN,
                state : {"live", "resurrectable"}]
    /\ Judged
    /\ badges \subseteq V!Attentions /\ IsFiniteSet(badges) /\ mode \in {"recent", "name", "attention"}
    /\ sent \in Seq(Sendings)
    /\ Everyone(seen) /\ Everyone(order)
    /\ active \in [Named -> 0..MaxClock] /\ needs \in [Named -> 0..1] /\ now \in 0..MaxClock /\ name \in [Named -> Names]

LEMMA ViewsOnly ==
    [Next]_allVars => UNCHANGED viewsVars \/ V!ReportNext \/ V!AttendNext \/ V!SentNext \/ V!CardsNext
BY DEF Next, EarlierNext, ViewNext, allVars, earlierVars

LEMMA ViewsStart == Init => ViewsInv
<1> SUFFICES ASSUME Init PROVE ViewsInv
  OBVIOUS
<1>1. /\ row = V!Dead /\ badges = {} /\ mode = "recent" /\ now = 0 /\ sent = <<>>
      /\ active = [m \in Named |-> 0] /\ needs = [m \in Named |-> 0] /\ name \in [Named -> Names]
      /\ order = seen /\ seen = V!LaidOut({p \in Named \X Named : p[1] < p[2]})
  BY DEF Init, V!ViewsInit
<1>2. Everyone(seen)
  <2>1. PICK ranks : ranks = {p \in Named \X Named : p[1] < p[2]}
    OBVIOUS
  <2>2. Named \subseteq Nat /\ \A m, k \in Named : <<m, k>> \in ranks <=> m < k
    BY <2>1, PagesAssumption
  <2>3. /\ \A m \in Named : <<m, m>> \notin ranks
        /\ \A m, k \in Named : m = k \/ <<m, k>> \in ranks \/ <<k, m>> \in ranks
        /\ \A m, k, l \in Named : <<m, k>> \in ranks /\ <<k, l>> \in ranks => <<m, l>> \in ranks
    BY <2>2
  <2>4. Everyone(V!LaidOut(ranks))
    BY <2>3, LaidByOrder
  <2> QED BY <1>1, <2>1, <2>4
<1>3. row \in [name : V!Titles \cup {"null"}, command : V!Commands, claude : V!Verdicts, exited : BOOLEAN,
                state : {"live", "resurrectable"}] /\ Judged
  BY <1>1 DEF V!Dead, V!Commands, V!Verdicts, Judged
<1>4. 0 \in 0..MaxClock
  BY PagesAssumption
<1> QED BY <1>1, <1>2, <1>3, <1>4, FS_EmptySet DEF ViewsInv

LEMMA ReportKept == ASSUME ViewsInv, V!ReportNext PROVE ViewsInv'
<1>1. UNCHANGED <<badges, mode, seen, active, name, needs, order, now, sent>>
  BY DEF V!ReportNext, V!Report, V!Dies
<1>2. row' \in [name : V!Titles \cup {"null"}, command : V!Commands, claude : V!Verdicts, exited : BOOLEAN,
                state : {"live", "resurrectable"}] /\ Judged'
  <2>1. CASE V!Dies
    BY <2>1 DEF V!Dies, V!Dead, V!Commands, V!Verdicts, Judged
  <2>2. ASSUME NEW title \in V!Titles, NEW command \in V!Commands, NEW footer \in BOOLEAN, NEW hidden \in BOOLEAN,
               NEW old \in BOOLEAN, NEW exited \in BOOLEAN, V!Report(title, command, footer, hidden, old, exited)
        PROVE  row' \in [name : V!Titles \cup {"null"}, command : V!Commands, claude : V!Verdicts, exited : BOOLEAN,
                         state : {"live", "resurrectable"}] /\ Judged'
    BY <2>2 DEF V!Report, V!Reported, V!Commands, V!Titles, V!Verdicts, V!hasClaudeMarker, Judged
  <2> QED BY <2>1, <2>2 DEF V!ReportNext
<1> QED BY <1>1, <1>2 DEF ViewsInv, Everyone

LEMMA AttendKept == ASSUME ViewsInv, V!AttendNext PROVE ViewsInv'
<1>1. PICK a \in V!Attentions : V!Attend(a)
  BY DEF V!AttendNext
<1>2. badges' = (IF a \in badges THEN badges \ {a} ELSE badges \cup {a})
      /\ UNCHANGED <<row, mode, seen, active, name, needs, order, now, sent>>
  BY <1>1 DEF V!Attend
<1>3. badges' \subseteq V!Attentions /\ IsFiniteSet(badges')
  <2>1. badges \subseteq V!Attentions /\ IsFiniteSet(badges)
    BY DEF ViewsInv
  <2> QED BY <1>2, <2>1, FS_AddElement, FS_RemoveElement
<1> QED BY <1>2, <1>3 DEF ViewsInv, Judged, Everyone

LEMMA SentKept == ASSUME ViewsInv, V!SentNext PROVE ViewsInv'
<1>1. sent \in Seq(Sendings)
  BY DEF ViewsInv
<1>2. UNCHANGED <<row, badges, mode, seen, active, name, needs, order, now>>
  BY DEF V!SentNext, V!Fan, V!Becomes
<1>3. sent' \in Seq(Sendings)
  <2>1. ASSUME NEW c \in V!Channels, V!Fan(c) PROVE sent' \in Seq(Sendings)
    BY <1>1, <2>1 DEF V!Fan, Sendings, Statuses
  <2>2. ASSUME NEW i \in DOMAIN sent, NEW st \in {"delivered", "failed", "expired"}, V!Becomes(i, st)
        PROVE  sent' \in Seq(Sendings)
    <3>1. sent' = [sent EXCEPT ![i] = [sent[i] EXCEPT !.status = st]]
      BY <2>2 DEF V!Becomes
    <3>2. [sent[i] EXCEPT !.status = st] \in Sendings
      <4>1. sent[i] \in Sendings
        BY <1>1, <2>2
      <4> QED BY <2>2, <4>1 DEF Sendings, Statuses
    <3> QED BY <1>1, <3>1, <3>2
  <2> QED BY <2>1, <2>2 DEF V!SentNext
<1> QED BY <1>2, <1>3 DEF ViewsInv, Judged, Everyone

LEMMA OrderKept == ASSUME ViewsInv, V!CardsNext PROVE ViewsInv'
<1>1. /\ Everyone(seen) /\ Everyone(order) /\ active \in [Named -> Nat] /\ name \in [Named -> Nat]
      /\ active \in [Named -> 0..MaxClock] /\ needs \in [Named -> 0..1] /\ now \in 0..MaxClock /\ name \in [Named -> Names]
      /\ MaxClock \in Nat /\ mode \in {"recent", "name", "attention"}
  <2>1. MaxClock \in Nat /\ Names \subseteq Nat
    BY PagesAssumption
  <2>2. /\ Everyone(seen) /\ Everyone(order) /\ mode \in {"recent", "name", "attention"}
        /\ active \in [Named -> 0..MaxClock] /\ needs \in [Named -> 0..1] /\ now \in 0..MaxClock /\ name \in [Named -> Names]
    BY DEF ViewsInv
  <2>3. active \in [Named -> Nat]
    <3>1. \A x \in 0..MaxClock : x \in Nat
      BY <2>1
    <3> QED BY <2>2, <3>1
  <2>4. name \in [Named -> Nat]
    BY <2>1, <2>2
  <2> QED BY <2>1, <2>2, <2>3, <2>4
<1>2. /\ Everyone(seen') /\ Everyone(order') /\ mode' \in {"recent", "name", "attention"}
      /\ active' \in [Named -> 0..MaxClock] /\ needs' \in [Named -> 0..1] /\ now' \in 0..MaxClock
      /\ UNCHANGED <<row, badges, name, sent>>
  <2>1. ASSUME NEW m \in Named, NEW t \in 0..now, V!Hear(m, t)
        PROVE  /\ Everyone(seen') /\ Everyone(order') /\ mode' \in {"recent", "name", "attention"}
               /\ active' \in [Named -> 0..MaxClock] /\ needs' \in [Named -> 0..1] /\ now' \in 0..MaxClock
               /\ UNCHANGED <<row, badges, name, sent>>
    <3>1. /\ active' = [active EXCEPT ![m] = t] /\ needs' = needs /\ order' = V!sortMachines(mode, active', seen)
          /\ UNCHANGED <<row, badges, mode, seen, name, now, sent>>
      BY <2>1 DEF V!Hear
    <3>2. Everyone(seen')
      BY <1>1, <3>1
    <3>3. t \in 0..MaxClock /\ active' \in [Named -> 0..MaxClock] /\ active' \in [Named -> Nat]
      BY <1>1, <3>1
    <3>4. needs' \in [Named -> 0..1]
      BY <1>1, <3>1
    <3>5. Everyone(order')
      BY <1>1, <3>1, <3>2, <3>3, <3>4, AllCards
    <3> QED BY <1>1, <3>1, <3>2, <3>3, <3>4, <3>5
  <2>2. ASSUME NEW md \in {"recent", "name", "attention"}, V!Choose(md)
        PROVE  /\ Everyone(seen') /\ Everyone(order') /\ mode' \in {"recent", "name", "attention"}
               /\ active' \in [Named -> 0..MaxClock] /\ needs' \in [Named -> 0..1] /\ now' \in 0..MaxClock
               /\ UNCHANGED <<row, badges, name, sent>>
    <3>1. /\ mode' = md /\ needs' = needs /\ order' = V!sortMachines(md, active, seen)
          /\ UNCHANGED <<row, badges, seen, active, name, now, sent>>
      BY <2>2 DEF V!Choose
    <3>2. Everyone(order')
      BY <1>1, <3>1, AllCards
    <3>3. Everyone(seen')
      BY <1>1, <3>1
    <3> QED BY <1>1, <3>1, <3>2, <3>3
  <2>3. CASE V!ViewsTick
    BY <1>1, <2>3 DEF V!ViewsTick, Everyone
  <2>4. CASE V!Relist
    <3>1. /\ seen' \in V!Orders /\ needs' \in [Named -> 0..1] /\ order' = V!sortMachines(mode, active, seen')
          /\ UNCHANGED <<row, badges, mode, active, name, now, sent>>
      BY <2>4 DEF V!Relist
    <3>2. Everyone(seen')
      BY <3>1, ListedAll
    <3>3. Everyone(order')
      BY <1>1, <3>1, <3>2, AllCards
    <3> QED BY <1>1, <3>1, <3>2, <3>3
  <2> QED BY <2>1, <2>2, <2>3, <2>4 DEF V!CardsNext
<1> QED BY <1>2 DEF ViewsInv, Judged

LEMMA ViewsKept == ViewsInv /\ [Next]_allVars => ViewsInv'
<1>1. ASSUME ViewsInv, UNCHANGED viewsVars PROVE ViewsInv'
  BY <1>1 DEF viewsVars, ViewsInv, Judged, Everyone
<1> QED BY <1>1, ViewsOnly, ReportKept, AttendKept, SentKept, OrderKept

LEMMA ViewsTypesHold == ViewsInv => V!ViewsTypeOK
<1> SUFFICES ASSUME ViewsInv PROVE V!ViewsTypeOK
  OBVIOUS
<1>1. \A o : Everyone(o) => o \in [1..V!Cardinality(Named) -> Named] /\ V!ToSet(o) = Named
  <2> SUFFICES ASSUME NEW o, Everyone(o) PROVE o \in [1..V!Cardinality(Named) -> Named] /\ V!ToSet(o) = Named
    OBVIOUS
  <2>1. o \in [1..Cardinality(Named) -> Named] /\ \A m \in Named : \E k \in 1..Cardinality(Named) : o[k] = m
    BY DEF Everyone
  <2>2. V!ToSet(o) = {o[i] : i \in DOMAIN o}
    BY DEF V!ToSet
  <2>3. {o[i] : i \in DOMAIN o} = Named
    BY <2>1
  <2> QED BY <2>1, <2>2, <2>3, NamedCounts
<1>2. sent \in Seq([channel : V!Channels, status : {"pending", "delivered", "failed", "expired"}])
  BY DEF ViewsInv, Sendings, Statuses
<1> QED BY <1>1, <1>2 DEF ViewsInv, V!Orders, V!ViewsTypeOK

LEMMA ReadingsHold == ViewsInv => V!ReadingsAgree
<1> SUFFICES ASSUME ViewsInv PROVE V!ReadingsAgree
  OBVIOUS
<1>1. V!KeptByFilter(row) => row.exited \/ V!InRoster(row)
  BY DEF ViewsInv, Judged, V!Verdicts, V!KeptByFilter, V!InRoster, V!isClaudePane
<1>2. V!attentionCount = V!Cardinality(V!Marks) + (IF V!machineIdle THEN 1 ELSE 0)
  BY BadgesAdd DEF ViewsInv
<1>3. sent \in Seq(Sendings)
  BY DEF ViewsInv
<1>4. V!SentNotifications.badges = {b \in {V!ChannelBadge(c) : c \in V!Channels} : b.status # "none"}
  BY DEF V!SentNotifications
<1>5. ASSUME NEW c \in V!Channels
      PROVE  LET best == V!listRecentNotifications(c)
             IN  {b.status : b \in {x \in V!SentNotifications.badges : x.channel = c}}
                   = IF best = "none" THEN {} ELSE {best}
  <2>1. PICK all : all = V!SentNotifications.badges
    OBVIOUS
  <2>2. PICK best : best = V!listRecentNotifications(c)
    OBVIOUS
  <2>3. \A x \in all : \E k \in V!Channels : x = [channel |-> k, status |-> V!listRecentNotifications(k)] /\ x.status # "none"
    BY <1>4, <2>1 DEF V!ChannelBadge
  <2>4. \A x \in all : x.channel = c => x.status = best /\ best # "none"
    BY <2>2, <2>3
  <2>5. best # "none" => [channel |-> c, status |-> best] \in all
    BY <1>4, <2>1, <2>2 DEF V!ChannelBadge
  <2>6. PICK marked : marked = {x \in all : x.channel = c}
    OBVIOUS
  <2>7. best # "none" => \E x \in marked : x.status = best
    BY <2>5, <2>6
  <2>8. {b.status : b \in marked} = IF best = "none" THEN {} ELSE {best}
    BY <2>4, <2>6, <2>7
  <2> QED BY <2>1, <2>2, <2>6, <2>8
<1>6. V!SentNotifications.notSent = (sent = <<>>)
  <2>1. PICK all : all = V!SentNotifications.badges
    OBVIOUS
  <2>2. V!SentNotifications.notSent = (all = {})
    BY <2>1 DEF V!SentNotifications
  <2>3. \A c \in V!Channels : (V!listRecentNotifications(c) = "none") <=> ~\E i \in 1..Len(sent) : sent[i].channel = c
    BY <1>3, BestOf
  <2>4. all = {} <=> \A c \in V!Channels : V!listRecentNotifications(c) = "none"
    <3>1. ASSUME NEW c \in V!Channels, V!listRecentNotifications(c) # "none" PROVE V!ChannelBadge(c) \in all
      BY <1>4, <2>1, <3>1 DEF V!ChannelBadge
    <3>2. ASSUME NEW x \in all PROVE \E c \in V!Channels : V!listRecentNotifications(c) # "none"
      BY <1>4, <2>1 DEF V!ChannelBadge
    <3> QED BY <3>1, <3>2
  <2>5. ASSUME NEW i \in 1..Len(sent) PROVE sent[i].channel \in V!Channels
    <3>1. sent[i] \in Sendings
      BY <1>3
    <3> QED BY <3>1 DEF Sendings
  <2>6. sent = <<>> <=> 1..Len(sent) = {}
    <3>1. Len(sent) \in Nat /\ (sent = <<>> <=> Len(sent) = 0)
      BY <1>3, EmptySeq
    <3>2. Len(sent) # 0 => 1 \in 1..Len(sent)
      BY <3>1
    <3>3. Len(sent) = 0 => 1..Len(sent) = {}
      BY <3>1
    <3> QED BY <3>1, <3>2, <3>3
  <2> QED BY <2>2, <2>3, <2>4, <2>5, <2>6
<1>7. ASSUME NEW c \in V!Channels
      PROVE  LET of == {d.status : d \in {x \in V!ToSet(sent) : x.channel = c}}
                 told == {b.status : b \in {x \in V!SentNotifications.badges : x.channel = c}}
             IN  /\ "delivered" \in of <=> told = {"delivered"}
                 /\ "pending" \in of => told \subseteq {"delivered", "pending"}
  <2>1. PICK best : best = V!listRecentNotifications(c)
    OBVIOUS
  <2>2. PICK of : of = {sent[i].status : i \in {j \in 1..Len(sent) : sent[j].channel = c}}
    OBVIOUS
  <2>3. Fits(best, of)
    BY <1>3, <2>1, <2>2, BestOf DEF Fits
  <2>4. of = {d.status : d \in {x \in V!ToSet(sent) : x.channel = c}}
    BY <1>3, <2>2 DEF V!ToSet
  <2>5. {b.status : b \in {x \in V!SentNotifications.badges : x.channel = c}} = IF best = "none" THEN {} ELSE {best}
    BY <1>5, <2>1
  <2> QED BY <2>3, <2>4, <2>5 DEF Fits
<1> QED BY <1>1, <1>2, <1>6, <1>7 DEF V!ReadingsAgree

(***************************************************************************)
(* The colours of pane output.                                             *)
(***************************************************************************)
(* applySgr, turn by turn.                                                  *)
SgrTurn(acc, cs, i) ==
    IF acc.skip > 0 THEN [acc EXCEPT !.skip = @ - 1]
    ELSE [style |-> Colours!Painted(acc.style, cs, i), skip |-> Colours!Consumed(cs, i)]
SgrRun(s, cs) ==
    CHOOSE sgr : sgr = [i \in 0..Len(cs) |->
        IF i = 0 THEN [style |-> s, skip |-> 0]
        ELSE LET acc == sgr[i - 1] IN
             IF acc.skip > 0 THEN [acc EXCEPT !.skip = @ - 1]
             ELSE [style |-> Colours!Painted(acc.style, cs, i), skip |-> Colours!Consumed(cs, i)]]

(* A turn of applySgr has left the style b, and k codes to skip.             *)
Left(s, cs, j, b, k) == SgrRun(s, cs)[j] = [style |-> b, skip |-> k]

LEMMA SgrRuns ==
    ASSUME NEW s, NEW cs \in Seq(Codes)
    PROVE  /\ Colours!applySgr(s, cs) = SgrRun(s, cs)[Len(cs)].style
           /\ SgrRun(s, cs)[0] = [style |-> s, skip |-> 0]
           /\ \A i \in 1..Len(cs) : SgrRun(s, cs)[i] = SgrTurn(SgrRun(s, cs)[i - 1], cs, i)
<1>1. PICK n \in Nat : n = Len(cs)
  OBVIOUS
<1> DEFINE Runs(f, k) == f = [i \in 0..k |-> IF i = 0 THEN [style |-> s, skip |-> 0] ELSE SgrTurn(f[i - 1], cs, i)]
<1>2. PICK stuck : stuck = {k \in 0..n : ~\E f : Runs(f, k)}
  OBVIOUS
<1>3. stuck = {}
  <2> SUFFICES ASSUME stuck # {} PROVE FALSE
    OBVIOUS
  <2>1. stuck \subseteq Nat
    BY <1>2
  <2>2. PICK k \in stuck : \A j \in stuck : k <= j
    BY <2>1, Earliest
  <2>3. k \in 0..n /\ ~\E f : Runs(f, k)
    BY <1>2
  <2>4. k # 0
    <3>1. PICK f : f = [i \in 0..0 |-> [style |-> s, skip |-> 0]]
      OBVIOUS
    <3>2. Runs(f, 0)
      BY <3>1
    <3> QED BY <2>3, <3>2
  <2>5. k \in 1..n /\ k - 1 \in 0..n /\ k - 1 \notin stuck
    BY <2>2, <2>3, <2>4
  <2>6. PICK f : Runs(f, k - 1)
    BY <1>2, <2>5
  <2>7. PICK g : g = [i \in 0..k |-> IF i = k THEN SgrTurn(f[k - 1], cs, k) ELSE f[i]]
    OBVIOUS
  <2>8. ASSUME NEW i \in 0..k PROVE g[i] = IF i = 0 THEN [style |-> s, skip |-> 0] ELSE SgrTurn(g[i - 1], cs, i)
    <3>1. CASE i = 0
      BY <2>4, <2>5, <2>6, <2>7, <3>1
    <3>2. CASE i = k
      <4>1. g[k - 1] = f[k - 1]
        BY <2>5, <2>7
      <4> QED BY <2>4, <2>7, <3>2, <4>1
    <3>3. CASE i # 0 /\ i # k
      <4>1. i \in 0..(k - 1) /\ i - 1 \in 0..(k - 1) /\ i - 1 \in 0..k /\ i - 1 # k
        BY <2>5, <3>3
      <4>2. g[i] = f[i] /\ g[i - 1] = f[i - 1]
        BY <2>7, <3>3, <4>1
      <4>3. f[i] = SgrTurn(f[i - 1], cs, i)
        BY <2>6, <3>3, <4>1
      <4> QED BY <3>3, <4>2, <4>3
    <3> QED BY <3>1, <3>2, <3>3
  <2>9. Runs(g, k)
    BY <2>7, <2>8
  <2> QED BY <2>3, <2>9
<1>4. \E f : Runs(f, n)
  <2>1. n \in 0..n /\ n \notin stuck
    BY <1>3
  <2> HIDE DEF Runs
  <2> QED BY <1>2, <2>1
<1>5. PICK sgr : sgr = SgrRun(s, cs)
  OBVIOUS
<1>6. sgr = [i \in 0..n |-> IF i = 0 THEN [style |-> s, skip |-> 0] ELSE LET acc == sgr[i - 1] IN
             IF acc.skip > 0 THEN [acc EXCEPT !.skip = @ - 1]
             ELSE [style |-> Colours!Painted(acc.style, cs, i), skip |-> Colours!Consumed(cs, i)]]
  <2>1. PICK f : f = [i \in 0..n |-> IF i = 0 THEN [style |-> s, skip |-> 0] ELSE LET acc == f[i - 1] IN
             IF acc.skip > 0 THEN [acc EXCEPT !.skip = @ - 1]
             ELSE [style |-> Colours!Painted(acc.style, cs, i), skip |-> Colours!Consumed(cs, i)]]
    BY <1>4 DEF SgrTurn
  <2> QED BY <1>1, <1>5, <2>1, Zenon DEF SgrRun
<1>7. Colours!applySgr(s, cs) = sgr[n].style
  BY <1>1, <1>5, Zenon DEF Colours!applySgr, SgrRun
<1>8. sgr[0] = [style |-> s, skip |-> 0]
  BY <1>6
<1>9. ASSUME NEW i \in 1..n PROVE sgr[i] = SgrTurn(sgr[i - 1], cs, i)
  <2>1. i \in 0..n /\ i # 0
    OBVIOUS
  <2>2. \A j \in 0..n : sgr[j] = IF j = 0 THEN [style |-> s, skip |-> 0] ELSE SgrTurn(sgr[j - 1], cs, j)
    BY <1>6, Zenon DEF SgrTurn
  <2> QED BY <2>1, <2>2
<1> QED BY <1>1, <1>5, <1>7, <1>8, <1>9

(* What a terminal shows that has the style base and is in the middle of t.   *)
Screen(base, t) ==
    IF Len(t) < 2 \/ t[2] = 5 THEN base
    ELSE [base EXCEPT ![Colours!Target(t[1])] = [k \in 1..3 |-> IF k + 2 \in DOMAIN t THEN t[k + 2] ELSE 0]]

(* The codes before the parameters that are being taken are done with,        *)
(* whatever comes after them.                                                 *)
Follows(cs) == cs \in Seq(Codes) /\ Len(codes) <= Len(cs) /\ \A i \in 1..Len(codes) : cs[i] = codes[i]
Taking ==
    /\ codes \in Seq(Codes) /\ taking \in Seq(Codes) /\ Len(taking) <= Len(codes) /\ Len(taking) \in 0..4
    /\ \A k \in 1..Len(taking) : taking[k] = codes[Len(codes) - Len(taking) + k]
    /\ Len(taking) > 0 => taking[1] \in Colours!Extended
    /\ Len(taking) > 1 => taking[2] \in {2, 5}
    /\ Len(taking) > 2 => taking[2] = 2
DoneWith(base) ==
    \A cs : Follows(cs) => Left(before, cs, Len(codes) - Len(taking), base, 0)
ColoursInv == Taking /\ \E base : DoneWith(base) /\ look = Screen(base, taking)

LEMMA ColoursAlone == [Next]_allVars => UNCHANGED ansiVars \/ Colours!AnsiNext
BY DEF Next, EarlierNext, allVars, earlierVars, ansiVars

LEMMA ColoursStart == Init => ColoursInv
<1> SUFFICES ASSUME Init PROVE ColoursInv
  OBVIOUS
<1>1. codes = <<>> /\ taking = <<>> /\ look = before
  BY DEF Init, Colours!AnsiInit
<1>2. Taking
  BY <1>1 DEF Taking
<1>3. DoneWith(before)
  <2> SUFFICES ASSUME NEW cs, Follows(cs) PROVE SgrRun(before, cs)[0] = [style |-> before, skip |-> 0]
    BY <1>1 DEF DoneWith, Left
  <2> QED BY SgrRuns DEF Follows
<1>4. look = Screen(before, taking)
  BY <1>1 DEF Screen
<1> QED BY <1>2, <1>3, <1>4 DEF ColoursInv

LEMMA Skips ==
    ASSUME NEW s, NEW cs \in Seq(Codes), NEW i \in 1..Len(cs), NEW j, j = i - 1, NEW b, NEW k \in 1..4, Left(s, cs, j, b, k)
    PROVE  Left(s, cs, i, b, k - 1)
<1>1. PICK acc : acc = [style |-> b, skip |-> k]
  OBVIOUS
<1>2. SgrRun(s, cs)[i] = SgrTurn(acc, cs, i)
  BY <1>1, SgrRuns DEF Left
<1>3. acc.skip > 0 /\ [acc EXCEPT !.skip = @ - 1] = [style |-> b, skip |-> k - 1]
  BY <1>1
<1> QED BY <1>2, <1>3 DEF SgrTurn, Left

LEMMA Reads ==
    ASSUME NEW s, NEW cs \in Seq(Codes), NEW i \in 1..Len(cs), NEW j, j = i - 1, NEW b, Left(s, cs, j, b, 0)
    PROVE  Left(s, cs, i, Colours!Painted(b, cs, i), Colours!Consumed(cs, i))
<1>1. PICK acc : acc = [style |-> b, skip |-> 0]
  OBVIOUS
<1>2. SgrRun(s, cs)[i] = SgrTurn(acc, cs, i)
  BY <1>1, SgrRuns DEF Left
<1>3. ~(acc.skip > 0) /\ acc.style = b
  BY <1>1
<1> QED BY <1>2, <1>3 DEF SgrTurn, Left

(* A code that stands alone, and one whose parameters are missing.           *)
LEMMA AloneTurn ==
    ASSUME NEW s, NEW cs \in Seq(Codes), NEW i \in 1..Len(cs), NEW j, j = i - 1, NEW b, Left(s, cs, j, b, 0)
    PROVE  /\ cs[i] \notin Colours!Extended => Left(s, cs, i, Colours!Basic(b, cs[i]), 0)
           /\ cs[i] \in Colours!Extended /\ (i = Len(cs) \/ cs[i + 1] \notin {2, 5}) => Left(s, cs, i, b, 0)
<1>1. Left(s, cs, i, Colours!Painted(b, cs, i), Colours!Consumed(cs, i))
  BY Reads
<1>2. DOMAIN cs = 1..Len(cs) /\ Len(cs) \in Nat
  OBVIOUS
<1>3. cs[i] \notin Colours!Extended => Colours!Painted(b, cs, i) = Colours!Basic(b, cs[i]) /\ Colours!Consumed(cs, i) = 0
  BY DEF Colours!Painted, Colours!Consumed
<1>4. (i = Len(cs) \/ cs[i + 1] \notin {2, 5}) => Colours!Mode(cs, i + 1) # 2 /\ Colours!Mode(cs, i + 1) # 5
  <2>1. CASE i = Len(cs)
    <3>1. i + 1 \notin DOMAIN cs
      BY <1>2, <2>1
    <3>2. Colours!Mode(cs, i + 1) = -1
      BY <3>1 DEF Colours!Mode
    <3> QED BY <3>2
  <2>2. CASE i # Len(cs)
    <3>1. i + 1 \in DOMAIN cs
      <4>1. PICK n \in Nat : n = Len(cs)
        BY <1>2
      <4>2. i \in 1..n /\ i # n
        BY <2>2, <4>1
      <4>3. i + 1 \in 1..n
        BY <4>2
      <4> QED BY <1>2, <4>1, <4>3
    <3>2. Colours!Mode(cs, i + 1) = cs[i + 1]
      BY <3>1 DEF Colours!Mode
    <3> QED BY <2>2, <3>2
  <2> QED BY <2>1, <2>2
<1>5. cs[i] \in Colours!Extended /\ (i = Len(cs) \/ cs[i + 1] \notin {2, 5})
        => Colours!Painted(b, cs, i) = b /\ Colours!Consumed(cs, i) = 0
  BY <1>4 DEF Colours!Painted, Colours!Consumed
<1> QED BY <1>1, <1>3, <1>5

(* An extended colour with a number, which may be missing, or with parts, of  *)
(* which those that are missing are 0.                                       *)
LEMMA NumberTurn ==
    ASSUME NEW s, NEW cs \in Seq(Codes), NEW i \in 1..Len(cs), NEW j, j = i - 1, NEW b, Left(s, cs, j, b, 0),
           cs[i] \in Colours!Extended, i + 1 <= Len(cs), cs[i + 1] = 5
    PROVE  /\ i + 1 = Len(cs) => Left(s, cs, i + 1, b, 1)
           /\ i + 2 <= Len(cs) =>
                Left(s, cs, i + 2, [b EXCEPT ![Colours!Target(cs[i])] = Colours!xterm256(cs[i + 2])], 0)
<1>1. Left(s, cs, i, Colours!Painted(b, cs, i), Colours!Consumed(cs, i))
  BY Reads
<1>2. DOMAIN cs = 1..Len(cs) /\ Len(cs) \in Nat /\ i \in Nat
  OBVIOUS
<1>3. Colours!Mode(cs, i + 1) = 5
  BY <1>2 DEF Colours!Mode
<1>4. PICK z : z = Colours!Painted(b, cs, i)
  OBVIOUS
<1>5. Left(s, cs, i, z, 2)
  <2>1. Colours!Consumed(cs, i) = 2
    BY <1>3 DEF Colours!Consumed
  <2> QED BY <1>1, <1>4, <2>1
<1>6. Left(s, cs, i + 1, z, 1)
  <2>1. i + 1 \in 1..Len(cs) /\ i = (i + 1) - 1 /\ 2 \in 1..4 /\ 2 - 1 = 1
    BY <1>2
  <2> QED BY <1>5, <2>1, Skips
<1>7. i + 1 = Len(cs) => z = b
  BY <1>2, <1>3, <1>4 DEF Colours!Painted
<1>8. ASSUME i + 2 <= Len(cs)
      PROVE  Left(s, cs, i + 2, [b EXCEPT ![Colours!Target(cs[i])] = Colours!xterm256(cs[i + 2])], 0)
  <2>1. i + 2 \in 1..Len(cs) /\ i + 1 = (i + 2) - 1 /\ 1 \in 1..4 /\ 1 - 1 = 0
    BY <1>2, <1>8
  <2>2. Left(s, cs, i + 2, z, 0)
    BY <1>6, <2>1, Skips
  <2>3. z = [b EXCEPT ![Colours!Target(cs[i])] = Colours!xterm256(cs[i + 2])]
    BY <1>2, <1>3, <1>4, <2>1 DEF Colours!Painted
  <2> QED BY <2>2, <2>3
<1> QED BY <1>6, <1>7, <1>8

LEMMA PartsTurn ==
    ASSUME NEW s, NEW cs \in Seq(Codes), NEW i \in 1..Len(cs), NEW j, j = i - 1, NEW b, Left(s, cs, j, b, 0),
           cs[i] \in Colours!Extended, i + 1 <= Len(cs), cs[i + 1] = 2
    PROVE  LET z == [b EXCEPT ![Colours!Target(cs[i])] =
                       <<Colours!Part(cs, i + 2), Colours!Part(cs, i + 3), Colours!Part(cs, i + 4)>>]
           IN  \A k \in 1..4 : i + k <= Len(cs) => Left(s, cs, i + k, z, 4 - k)
<1>1. Left(s, cs, i, Colours!Painted(b, cs, i), Colours!Consumed(cs, i))
  BY Reads
<1>2. DOMAIN cs = 1..Len(cs) /\ Len(cs) \in Nat /\ i \in Nat
  OBVIOUS
<1>3. Colours!Mode(cs, i + 1) = 2
  BY <1>2 DEF Colours!Mode
<1>4. PICK z : z = [b EXCEPT ![Colours!Target(cs[i])] =
                      <<Colours!Part(cs, i + 2), Colours!Part(cs, i + 3), Colours!Part(cs, i + 4)>>]
  OBVIOUS
<1>5. Left(s, cs, i, z, 4)
  <2>1. Colours!Consumed(cs, i) = 4
    BY <1>3 DEF Colours!Consumed
  <2>2. Colours!Painted(b, cs, i) = z
    BY <1>3, <1>4 DEF Colours!Painted
  <2> QED BY <1>1, <2>1, <2>2
<1>6. i + 1 <= Len(cs) => Left(s, cs, i + 1, z, 3)
  <2>1. i + 1 <= Len(cs) => i + 1 \in 1..Len(cs) /\ i = (i + 1) - 1
    BY <1>2
  <2>2. 4 \in 1..4 /\ 4 - 1 = 3
    OBVIOUS
  <2> QED BY <1>5, <2>1, <2>2, Skips
<1>7. i + 2 <= Len(cs) => Left(s, cs, i + 2, z, 2)
  <2>1. i + 2 <= Len(cs) => i + 1 <= Len(cs) /\ i + 2 \in 1..Len(cs) /\ i + 1 = (i + 2) - 1
    BY <1>2
  <2>2. 3 \in 1..4 /\ 3 - 1 = 2
    OBVIOUS
  <2> QED BY <1>6, <2>1, <2>2, Skips
<1>8. i + 3 <= Len(cs) => Left(s, cs, i + 3, z, 1)
  <2>1. i + 3 <= Len(cs) => i + 2 <= Len(cs) /\ i + 3 \in 1..Len(cs) /\ i + 2 = (i + 3) - 1
    BY <1>2
  <2>2. 2 \in 1..4 /\ 2 - 1 = 1
    OBVIOUS
  <2> QED BY <1>7, <2>1, <2>2, Skips
<1>9. i + 4 <= Len(cs) => Left(s, cs, i + 4, z, 0)
  <2>1. i + 4 <= Len(cs) => i + 3 <= Len(cs) /\ i + 4 \in 1..Len(cs) /\ i + 3 = (i + 4) - 1
    BY <1>2
  <2>2. 1 \in 1..4 /\ 1 - 1 = 0
    OBVIOUS
  <2> QED BY <1>8, <2>1, <2>2, Skips
<1>10. \A k \in 1..4 : i + k <= Len(cs) => Left(s, cs, i + k, z, 4 - k)
  <2> SUFFICES ASSUME NEW k \in 1..4, i + k <= Len(cs) PROVE Left(s, cs, i + k, z, 4 - k)
    OBVIOUS
  <2>1. k = 1 \/ k = 2 \/ k = 3 \/ k = 4
    OBVIOUS
  <2> QED BY <1>6, <1>7, <1>8, <1>9, <2>1
<1> QED BY <1>4, <1>10

(* The style that applySgr arrives at is the one a terminal would have.       *)
LEMMA ColoursHold == ColoursInv => Colours!AsTerminal
<1> SUFFICES ASSUME ColoursInv PROVE Colours!AsTerminal
  OBVIOUS
<1>1. PICK base : DoneWith(base) /\ look = Screen(base, taking)
  BY DEF ColoursInv
<1>2. PICK n \in Nat, t \in 0..4, p \in Nat : n = Len(codes) /\ t = Len(taking) /\ p = n - t
  <2>1. codes \in Seq(Codes) /\ Len(taking) \in 0..4 /\ Len(taking) <= Len(codes)
    BY DEF ColoursInv, Taking
  <2>2. Len(codes) \in Nat
    BY <2>1
  <2>3. Len(codes) - Len(taking) \in Nat
    BY <2>1, <2>2
  <2> QED BY <2>1, <2>2, <2>3
<1>3. codes \in Seq(Codes) /\ Left(before, codes, p, base, 0)
  BY <1>1, <1>2 DEF ColoursInv, Taking, Follows, DoneWith
<1>4. Colours!applySgr(before, codes) = SgrRun(before, codes)[n].style
  BY <1>2, <1>3, SgrRuns
<1>5. \A k \in 1..t : taking[k] = codes[p + k] /\ p + k \in 1..n
  BY <1>2 DEF ColoursInv, Taking
<1>6. SUFFICES \E k : Left(before, codes, n, look, k)
  BY <1>4 DEF Left, Colours!AsTerminal
<1>7. CASE t = 0
  BY <1>1, <1>2, <1>3, <1>7 DEF Screen
<1>8. CASE t = 1
  <2>1. p + 1 = n /\ n \in 1..Len(codes) /\ p = n - 1 /\ codes[n] \in Colours!Extended /\ look = base
    BY <1>1, <1>2, <1>5, <1>8 DEF ColoursInv, Taking, Screen
  <2>2. Left(before, codes, n, base, 0)
    BY <1>2, <1>3, <2>1, AloneTurn
  <2> QED BY <2>1, <2>2
<1>9. CASE t > 1
  <2>1. PICK i \in 1..Len(codes) : i = p + 1
    BY SMTT(30), <1>2, <1>5, <1>9
  <2>2. p = i - 1 /\ codes[i] = taking[1] /\ codes[i + 1] = taking[2] /\ i + 1 <= Len(codes) /\ codes[i] \in Colours!Extended
    <3>1. 1 \in 1..t /\ 2 \in 1..t
      BY <1>2, <1>9
    <3>2. taking[1] = codes[p + 1] /\ taking[2] = codes[p + 2] /\ p + 2 \in 1..n /\ (p + 1) + 1 = p + 2
      BY <1>2, <1>5, <3>1
    <3> QED BY <1>2, <1>9, <2>1, <3>2 DEF ColoursInv, Taking
  <2>3. CASE taking[2] = 5
    <3>1. t = 2 /\ i + 1 = Len(codes) /\ look = base
      BY <1>1, <1>2, <1>9, <2>1, <2>3 DEF ColoursInv, Taking, Screen
    <3>2. Left(before, codes, i + 1, base, 1)
      BY <1>3, <2>1, <2>2, <2>3, <3>1, NumberTurn
    <3> QED BY <1>2, <3>1, <3>2
  <2>4. CASE taking[2] = 2
    <3>1. PICK z : z = [base EXCEPT ![Colours!Target(codes[i])] =
                         <<Colours!Part(codes, i + 2), Colours!Part(codes, i + 3), Colours!Part(codes, i + 4)>>]
      OBVIOUS
    <3>2. \A k \in 1..4 : i + k <= Len(codes) => Left(before, codes, i + k, z, 4 - k)
      BY <1>3, <2>1, <2>2, <2>4, <3>1, PartsTurn
    <3>3. PICK m \in 1..4 : m = t - 1 /\ i + m = n
      BY <1>2, <1>9, <2>1
    <3>4. Left(before, codes, n, z, 4 - m)
      <4>1. i + m <= Len(codes)
        BY <1>2, <3>3
      <4>2. Left(before, codes, i + m, z, 4 - m)
        BY <3>2, <4>1
      <4> QED BY <3>3, <4>2
    <3>5. ASSUME NEW k \in 1..3
          PROVE  Colours!Part(codes, i + 1 + k) = IF k + 2 \in DOMAIN taking THEN taking[k + 2] ELSE 0
      <4>1. DOMAIN taking = 1..t /\ DOMAIN codes = 1..n
        BY <1>2, <1>3 DEF ColoursInv, Taking
      <4>2. k + 2 \in 1..t <=> i + 1 + k \in 1..n
        BY <1>2, <2>1
      <4>3. k + 2 \in 1..t => taking[k + 2] = codes[p + (k + 2)]
        BY <1>5
      <4>4. p + (k + 2) = i + 1 + k
        BY <2>1
      <4> QED BY <4>1, <4>2, <4>3, <4>4 DEF Colours!Part
    <3>6. [k \in 1..3 |-> IF k + 2 \in DOMAIN taking THEN taking[k + 2] ELSE 0]
            = <<Colours!Part(codes, i + 2), Colours!Part(codes, i + 3), Colours!Part(codes, i + 4)>>
      BY <3>5
    <3>7. look = z
      BY <1>1, <1>2, <1>9, <2>2, <2>4, <3>1, <3>6 DEF Screen
    <3> QED BY <3>4, <3>7
  <2> QED BY <1>2, <1>9, <2>3, <2>4 DEF ColoursInv, Taking
<1> QED BY <1>2, <1>7, <1>8, <1>9

(* Another code: what is done with stays so, and what the code completes is   *)
(* done with as the terminal does it.                                        *)
LEMMA ColoursKept == ASSUME ColoursInv, Colours!AnsiNext PROVE ColoursInv'
<1>1. PICK c \in Codes : Colours!Feed(c)
  BY DEF Colours!AnsiNext
<1>2. PICK base : DoneWith(base) /\ look = Screen(base, taking)
  BY DEF ColoursInv
<1>3. PICK n \in Nat, t \in 0..4, p \in Nat : n = Len(codes) /\ t = Len(taking) /\ p = n - t
  <2>1. codes \in Seq(Codes) /\ Len(taking) \in 0..4 /\ Len(taking) <= Len(codes)
    BY DEF ColoursInv, Taking
  <2>2. Len(codes) \in Nat
    BY <2>1
  <2>3. Len(codes) - Len(taking) \in Nat
    BY <2>1, <2>2
  <2> QED BY <2>1, <2>2, <2>3
<1>4. /\ codes \in Seq(Codes) /\ taking \in Seq(Codes)
      /\ \A k \in 1..t : taking[k] = codes[p + k]
      /\ t > 0 => taking[1] \in Colours!Extended
      /\ t > 1 => taking[2] \in {2, 5}
      /\ t > 2 => taking[2] = 2
  BY <1>3 DEF ColoursInv, Taking
<1>5. codes' = Append(codes, c) /\ before' = before
  BY <1>1 DEF Colours!Feed
<1>6. /\ codes' \in Seq(Codes) /\ Len(codes') = n + 1 /\ codes'[n + 1] = c
      /\ \A k \in 1..n : codes'[k] = codes[k]
  BY <1>3, <1>4, <1>5
(* what comes after the codes with c *)
<1> DEFINE Coming(cs) == cs \in Seq(Codes) /\ n + 1 <= Len(cs) /\ \A i \in 1..(n + 1) : cs[i] = codes'[i]
<1>7. ASSUME NEW cs, Coming(cs)
      PROVE  /\ Left(before, cs, p, base, 0) /\ cs[n + 1] = c /\ Len(cs) \in Nat
             /\ \A k \in 1..t : cs[p + k] = taking[k] /\ p + k \in 1..n
  <2>1. Follows(cs)
    BY <1>3, <1>6, <1>7 DEF Follows
  <2>2. Left(before, cs, p, base, 0)
    BY <1>2, <1>3, <2>1 DEF DoneWith
  <2>3. ASSUME NEW k \in 1..t PROVE cs[p + k] = taking[k] /\ p + k \in 1..n
    <3>1. p + k \in 1..n
      BY <1>3
    <3>2. p + k \in 1..(n + 1)
      BY <3>1
    <3> QED BY <1>4, <1>6, <1>7, <3>1, <3>2
  <2>4. n + 1 \in 1..(n + 1)
    OBVIOUS
  <2> QED BY <1>6, <1>7, <2>2, <2>3, <2>4
<1>8. SUFFICES Taking' /\ \E next : /\ \A cs : Coming(cs) => Left(before, cs, Len(codes') - Len(taking'), next, 0)
                                   /\ look' = Screen(next, taking')
  BY <1>5, <1>6 DEF ColoursInv, DoneWith, Follows, Left
<1>9. ASSUME t < 2, ~(t = 1 /\ c \in {2, 5}) PROVE look = base /\ \A cs : Coming(cs) => Left(before, cs, n, base, 0)
  <2>1. look = base
    BY <1>2, <1>3, <1>9 DEF Screen
  <2>2. ASSUME NEW cs, Coming(cs) PROVE Left(before, cs, n, base, 0)
    <3>1. CASE t = 0
      BY <1>3, <1>7, <2>2, <3>1
    <3>2. CASE t = 1
      <4>1. 1 \in 1..t /\ p + 1 = n
        BY <1>3, <3>2
      <4>2. Left(before, cs, p, base, 0) /\ cs[n] = taking[1] /\ n \in 1..n /\ cs[n + 1] = c
        BY <1>7, <2>2, <4>1
      <4>3. n \in 1..Len(cs) /\ p = n - 1 /\ n # Len(cs)
        BY <1>3, <1>7, <2>2, <4>1, <4>2
      <4>4. cs[n] \in Colours!Extended /\ cs[n + 1] \notin {2, 5}
        BY <1>4, <1>9, <3>2, <4>2
      <4> QED BY <2>2, <4>2, <4>3, <4>4, AloneTurn
    <3> QED BY <1>3, <1>9, <3>1, <3>2
  <2> QED BY <2>1, <2>2
<1> HIDE DEF Coming
<1> DEFINE Goes(next) == /\ \A cs : Coming(cs) => Left(before, cs, Len(codes') - Len(taking'), next, 0)
                         /\ look' = Screen(next, taking')
<1>10. CASE t < 2 /\ ~(t = 1 /\ c \in {2, 5}) /\ c \in Colours!Extended
  <2>1. taking' = <<c>> /\ look' = look
    BY <1>1, <1>3, <1>10 DEF Colours!Feed, Colours!Starts
  <2>2. Len(taking') = 1 /\ Len(codes') - Len(taking') = n
    BY <1>3, <1>6, <2>1
  <2>3. look' = Screen(base, taking')
    BY <1>9, <1>10, <2>1, <2>2 DEF Screen
  <2>4. Goes(base)
    BY <1>9, <1>10, <2>2, <2>3
  <2>5. Taking'
    BY <1>3, <1>6, <1>10, <2>1, <2>2 DEF Taking
  <2> QED BY <2>4, <2>5
<1>11. CASE t < 2 /\ ~(t = 1 /\ c \in {2, 5}) /\ c \notin Colours!Extended
  <2>1. taking' = <<>> /\ look' = Colours!Basic(look, c)
    BY <1>1, <1>3, <1>11 DEF Colours!Feed, Colours!Plainly
  <2>2. Len(taking') = 0 /\ Len(codes') - Len(taking') = n + 1
    BY <1>3, <1>6, <2>1
  <2>3. look' = Screen(look', taking')
    BY <2>2 DEF Screen
  <2>4. ASSUME NEW cs, Coming(cs) PROVE Left(before, cs, n + 1, look', 0)
    <3>1. Left(before, cs, n, base, 0) /\ look = base
      BY <1>9, <1>11, <2>4
    <3>2. cs \in Seq(Codes) /\ n + 1 \in 1..Len(cs) /\ n = (n + 1) - 1 /\ cs[n + 1] = c
      BY <1>7, <2>4 DEF Coming
    <3>3. Left(before, cs, n + 1, Colours!Basic(base, cs[n + 1]), 0)
      BY <1>11, <3>1, <3>2, AloneTurn
    <3> QED BY <2>1, <3>1, <3>2, <3>3
  <2>5. Goes(look')
    BY <2>2, <2>3, <2>4
  <2>6. Taking'
    BY <1>3, <1>6, <2>1, <2>2 DEF Taking
  <2> QED BY <2>5, <2>6
<1>12. PICK tt : tt = Append(taking, c)
  OBVIOUS
<1>13. tt \in Seq(Codes) /\ Len(tt) = t + 1 /\ tt[t + 1] = c /\ \A k \in 1..t : tt[k] = taking[k]
  BY <1>3, <1>4, <1>12
<1>14. ASSUME t > 1 \/ (t = 1 /\ c \in {2, 5})
       PROVE  /\ taking' = (IF Len(tt) = (IF tt[2] = 5 THEN 3 ELSE 5) THEN <<>> ELSE tt)
              /\ look' = (IF tt[2] = 2 \/ Len(tt) = 3 THEN Colours!Paint(tt) ELSE look)
              /\ tt[1] = taking[1] /\ tt[1] \in Colours!Extended /\ tt[2] \in {2, 5} /\ (t > 1 => tt[2] = taking[2])
  <2>1. Colours!Takes(c)
    BY <1>1, <1>3, <1>14 DEF Colours!Feed
  <2>2. 1 \in 1..t /\ (t > 1 => 2 \in 1..t)
    BY <1>14
  <2>3. tt[1] = taking[1] /\ (t > 1 => tt[2] = taking[2]) /\ (t = 1 => tt[2] = c)
    BY <1>13, <2>2
  <2>4. /\ taking' = (IF Len(tt) = (IF tt[2] = 5 THEN 3 ELSE 5) THEN <<>> ELSE tt)
        /\ look' = (IF tt[2] = 2 \/ Len(tt) = 3 THEN Colours!Paint(tt) ELSE look)
    BY <1>12, <2>1 DEF Colours!Takes
  <2>5. tt[1] \in Colours!Extended /\ tt[2] \in {2, 5}
    BY <1>3, <1>4, <1>14, <2>3
  <2> QED BY <2>3, <2>4, <2>5
<1>15. ASSUME t > 1 \/ (t = 1 /\ c \in {2, 5}), taking' = tt PROVE Taking' /\ Len(codes') - Len(taking') = p
  <2>1. Len(taking') = t + 1 /\ Len(codes') = n + 1 /\ (n + 1) - (t + 1) = p
    BY <1>3, <1>6, <1>13, <1>15
  <2>2. t + 1 \in 0..4
    <3>1. ASSUME t = 4 PROVE FALSE
      <4>1. tt[2] = 2 /\ Len(tt) = 5
        BY <1>4, <1>13, <1>14, <3>1
      <4>2. taking' = <<>>
        BY <1>14, <3>1, <4>1
      <4> QED BY <1>15, <4>1, <4>2
    <3> QED BY <3>1
  <2>3. ASSUME NEW k \in 1..(t + 1) PROVE tt[k] = codes'[p + k]
    <3>1. CASE k = t + 1
      BY <1>3, <1>6, <1>13, <3>1
    <3>2. CASE k # t + 1
      <4>1. k \in 1..t /\ p + k \in 1..n
        BY <1>3, <3>2
      <4> QED BY <1>4, <1>6, <1>13, <4>1
    <3> QED BY <3>1, <3>2
  <2>4. Len(tt) > 2 => tt[2] = 2
    <3>1. tt[2] = 5 => Len(tt) # 3
      BY <1>14, <1>15, <1>13, EmptySeq
    <3>2. tt[2] = 5 => t < 3
      BY <1>4, <1>14
    <3>3. Len(tt) = t + 1 /\ tt[2] \in {2, 5}
      BY <1>13, <1>14, <1>15
    <3> QED BY <3>1, <3>2, <3>3
  <2>5. /\ codes' \in Seq(Codes) /\ taking' \in Seq(Codes) /\ Len(taking') <= Len(codes') /\ Len(taking') \in 0..4
        /\ \A k \in 1..Len(taking') : taking'[k] = codes'[Len(codes') - Len(taking') + k]
    <3>1. t + 1 <= n + 1
      BY <1>3
    <3> QED BY <1>6, <1>13, <1>15, <2>1, <2>2, <2>3, <3>1
  <2>6. Taking'
    BY <1>13, <1>14, <1>15, <2>4, <2>5 DEF Taking
  <2> QED BY <2>1, <2>6
<1>16. ASSUME t > 1 \/ (t = 1 /\ c \in {2, 5}), taking' = tt, look' = Screen(base, tt)
       PROVE  Taking' /\ Goes(base)
  <2>1. Taking' /\ Len(codes') - Len(taking') = p
    BY <1>15, <1>16
  <2>2. Goes(base)
    BY <1>7, <1>16, <2>1
  <2> QED BY <2>1, <2>2
<1>17. ASSUME taking' = <<>>, \A cs : Coming(cs) => Left(before, cs, n + 1, look', 0)
       PROVE  Taking' /\ Goes(look')
  <2>1. Len(taking') = 0 /\ Len(codes') - Len(taking') = n + 1
    BY <1>6, <1>17
  <2>2. look' = Screen(look', taking')
    BY <2>1 DEF Screen
  <2>3. Goes(look')
    BY <1>17, <2>1, <2>2
  <2>4. Taking'
    BY <1>3, <1>6, <1>17, <2>1 DEF Taking
  <2> QED BY <2>3, <2>4
<1>18. CASE t = 1 /\ c \in {2, 5}
  <2>1. Len(tt) = 2 /\ tt[2] = c /\ look = base
    BY <1>2, <1>3, <1>13, <1>18 DEF Screen
  <2>2. taking' = tt
    BY <1>14, <1>18, <2>1
  <2>3. look' = Screen(base, tt)
    BY <1>14, <1>18, <2>1 DEF Screen, Colours!Paint
  <2> QED BY <1>16, <1>18, <2>2, <2>3
<1>19. CASE t > 1 /\ taking[2] = 5
  <2>1. t = 2 /\ tt[2] = 5 /\ Len(tt) = 3 /\ tt[3] = c /\ look = base
    BY <1>2, <1>3, <1>4, <1>13, <1>14, <1>19 DEF Screen
  <2>2. taking' = <<>> /\ look' = [base EXCEPT ![Colours!Target(taking[1])] = Colours!xterm256(c)]
    BY <1>14, <1>19, <2>1 DEF Colours!Paint
  <2>3. ASSUME NEW cs, Coming(cs) PROVE Left(before, cs, n + 1, look', 0)
    <3>1. 1 \in 1..t /\ 2 \in 1..t /\ p + 1 = n - 1 /\ p + 2 = n
      BY <1>3, <2>1
    <3>2. cs \in Seq(Codes) /\ Left(before, cs, p, base, 0) /\ cs[n - 1] = taking[1] /\ cs[n] = 5 /\ cs[n + 1] = c
      BY <1>7, <1>19, <2>3, <3>1 DEF Coming
    <3>3. PICK i \in 1..Len(cs) : i = n - 1 /\ p = i - 1 /\ i + 1 = n /\ i + 2 = n + 1 /\ i + 2 <= Len(cs) /\ i + 1 <= Len(cs)
      BY <1>3, <1>7, <2>1, <2>3, <3>1 DEF Coming
    <3>4. cs[i] \in Colours!Extended
      BY <1>4, <1>19, <3>2, <3>3
    <3>5. Left(before, cs, i + 2, [base EXCEPT ![Colours!Target(cs[i])] = Colours!xterm256(cs[i + 2])], 0)
      BY <3>2, <3>3, <3>4, NumberTurn
    <3> QED BY <2>2, <3>2, <3>3, <3>5
  <2> QED BY <1>17, <2>2, <2>3
<1>20. CASE t > 1 /\ taking[2] = 2
  <2>1. tt[1] = taking[1] /\ tt[2] = 2 /\ Len(tt) = t + 1
    BY <1>13, <1>14, <1>20
  <2>2. look' = Screen(base, tt)
    <3>1. PICK x : x = Colours!Target(taking[1])
      OBVIOUS
    <3>2. PICK u, v : /\ u = [k \in 1..3 |-> IF k + 2 \in DOMAIN taking THEN taking[k + 2] ELSE 0]
                      /\ v = [k \in 1..3 |-> IF k + 2 \in DOMAIN tt THEN tt[k + 2] ELSE 0]
      OBVIOUS
    <3>3. look = [base EXCEPT ![x] = u]
      <4>1. ~(Len(taking) < 2 \/ taking[2] = 5)
        BY <1>3, <1>20
      <4> QED BY <1>2, <3>1, <3>2, <4>1 DEF Screen
    <3>4. look' = [look EXCEPT ![x] = v]
      <4>1. look' = Colours!Paint(tt) /\ tt[2] # 5
        BY <1>14, <1>20, <2>1
      <4> QED BY <2>1, <3>1, <3>2, <4>1 DEF Colours!Paint
    <3>5. Screen(base, tt) = [base EXCEPT ![x] = v]
      <4>1. ~(Len(tt) < 2 \/ tt[2] = 5)
        BY <1>20, <2>1
      <4> QED BY <2>1, <3>1, <3>2, <4>1 DEF Screen
    <3> QED BY <3>3, <3>4, <3>5
  <2>3. CASE t < 4
    <3>1. taking' = tt
      BY <1>14, <1>20, <2>1, <2>3
    <3> QED BY <1>16, <1>20, <2>2, <3>1
  <2>4. CASE t = 4
    <3>1. taking' = <<>>
      BY <1>14, <1>20, <2>1, <2>4
    <3>2. ASSUME NEW cs, Coming(cs) PROVE Left(before, cs, n + 1, look', 0)
      <4>1. 1 \in 1..t /\ 2 \in 1..t /\ 3 \in 1..t /\ 4 \in 1..t /\ p = n - 4 /\ n >= 4
        BY <1>3, <2>4
      <4>2. /\ cs \in Seq(Codes) /\ Left(before, cs, p, base, 0) /\ cs[p + 1] = taking[1] /\ cs[p + 2] = 2
            /\ cs[p + 3] = taking[3] /\ cs[p + 4] = taking[4] /\ cs[n + 1] = c
        BY <1>7, <1>20, <3>2, <4>1 DEF Coming
      <4>3. PICK i \in 1..Len(cs) : i = p + 1 /\ i + 4 = n + 1 /\ i + 4 <= Len(cs)
        BY <1>3, <1>7, <3>2, <4>1 DEF Coming
      <4>4. p = i - 1 /\ i + 1 = p + 2 /\ i + 2 = p + 3 /\ i + 3 = p + 4 /\ i + 4 = n + 1
        BY <4>1, <4>3
      <4>5. cs[i] \in Colours!Extended /\ i + 1 <= Len(cs) /\ cs[i + 1] = 2
        BY <1>4, <1>7, <1>20, <3>2, <4>2, <4>3, <4>4
      <4>6. PICK z : z = [base EXCEPT ![Colours!Target(cs[i])] =
                           <<Colours!Part(cs, i + 2), Colours!Part(cs, i + 3), Colours!Part(cs, i + 4)>>]
        OBVIOUS
      <4>7. \A k \in 1..4 : i + k <= Len(cs) => Left(before, cs, i + k, z, 4 - k)
        BY <4>2, <4>4, <4>5, <4>6, PartsTurn
      <4>8. Left(before, cs, n + 1, z, 0)
        <5>1. Left(before, cs, i + 4, z, 4 - 4)
          BY <4>3, <4>7
        <5> QED BY <4>4, <5>1
      <4>9. z = look'
        <5>1. Colours!Part(cs, i + 2) = taking[3] /\ Colours!Part(cs, i + 3) = taking[4] /\ Colours!Part(cs, i + 4) = c
          <6>1. DOMAIN cs = 1..Len(cs) /\ Len(cs) \in Nat
            BY <4>2
          <6>2. i + 2 \in 1..Len(cs) /\ i + 3 \in 1..Len(cs) /\ i + 4 \in 1..Len(cs)
            BY <4>3, <6>1
          <6> QED BY <4>2, <4>4, <6>1, <6>2 DEF Colours!Part
        <5>2. [k \in 1..3 |-> IF k + 2 \in DOMAIN tt THEN tt[k + 2] ELSE 0] = <<taking[3], taking[4], c>>
          <6>1. DOMAIN tt = 1..5 /\ tt[3] = taking[3] /\ tt[4] = taking[4] /\ tt[5] = c
            BY <1>13, <2>4, <4>1
          <6> QED BY <6>1
        <5>3. Screen(base, tt) = [base EXCEPT ![Colours!Target(taking[1])] = <<taking[3], taking[4], c>>]
          <6>1. ~(Len(tt) < 2 \/ tt[2] = 5)
            BY <2>1, <2>4
          <6>2. Screen(base, tt) = [base EXCEPT ![Colours!Target(tt[1])] = [k \in 1..3 |-> IF k + 2 \in DOMAIN tt THEN tt[k + 2] ELSE 0]]
            BY <6>1, Zenon DEF Screen
          <6> QED BY <2>1, <5>2, <6>2
        <5>4. cs[i] = taking[1]
          BY <4>2, <4>3
        <5> QED BY <2>2, <4>6, <5>1, <5>3, <5>4
      <4> QED BY <4>8, <4>9
    <3> QED BY <1>17, <3>1, <3>2
  <2> QED BY <1>3, <2>3, <2>4
<1> QED BY <1>3, <1>4, <1>10, <1>11, <1>18, <1>19, <1>20

(***************************************************************************)
(* The rows of a machine.                                                  *)
(***************************************************************************)
LEMMA RowsAlone == [Next]_allVars => UNCHANGED rowsVars \/ R!RowsNext
BY DEF Next, EarlierNext, LaterNext, allVars, laterVars, rowsVars

LEMMA RowsCount == ASSUME NEW S PROVE R!Cardinality(S) = Cardinality(S)
BY Zenon DEF R!Cardinality, Cardinality

(* Only a live session has panes; who reads the clock is who is on the page,  *)
(* and has read it this second, or the timer has yet to fire.                 *)
Readers == IF mounted THEN {<<0>>, <<0, 0>>} \cup R!OnPage ELSE {}
RowsTyped ==
    /\ session \in [R!SessionsOf -> {"live", "resurrectable", "gone"}] /\ panes \in [RowPanes -> {"none", "running", "exited"}]
    /\ changed \in [RowPanes -> Nat] /\ alerts \subseteq R!Alerts /\ time \in 0..MaxTime /\ ahead \in 0..1 /\ mounted \in BOOLEAN
PanesLive == \A p \in RowPanes : panes[p] # "none" => session[p[1]] = "live"
Timed ==
    /\ nows \in [Readers -> Nat] /\ timer = (Readers # {}) /\ due \in BOOLEAN /\ (due => timer)
    /\ \A u \in Readers : nows[u] = time \/ (due /\ nows[u] + 1 = time)
RowsInv == RowsTyped /\ PanesLive /\ Timed

LEMMA RowsStart == R!RowsInit => RowsInv
<1> SUFFICES ASSUME R!RowsInit PROVE RowsInv
  OBVIOUS
<1> USE PagesAssumption
<1>1. RowsTyped
  <2>1. R!Unseen \in Nat /\ 0 \in 0..MaxTime
    BY DEF R!Unseen
  <2>2. /\ session = [s \in R!SessionsOf |-> "live"] /\ panes = [p \in RowPanes |-> "running"]
        /\ changed = [p \in RowPanes |-> R!Unseen] /\ alerts = {} /\ mounted = FALSE /\ time = 0 /\ ahead \in 0..1
    BY DEF R!RowsInit
  <2> QED BY <2>1, <2>2 DEF RowsTyped
<1>2. \A p \in RowPanes : p[1] \in R!SessionsOf
  BY DEF R!SessionsOf
<1>3. PanesLive
  BY <1>2 DEF R!RowsInit, PanesLive
<1>4. Timed
  BY DEF R!RowsInit, Timed, Readers
<1> QED BY <1>1, <1>3, <1>4 DEF RowsInv

LEMMA Rendered ==
    ASSUME RowsInv, R!Renders, time' = time
    PROVE  Timed'
<1>1. PICK users : users = Readers'
  OBVIOUS
<1>2. PICK stay : stay = users \cap DOMAIN nows
  OBVIOUS
<1>3. /\ nows' = [u \in users |-> IF u \in stay THEN nows[u] ELSE time] /\ timer' = (users # {}) /\ due' = (due /\ stay # {})
  BY <1>1, <1>2 DEF R!Renders, Readers
<1>4. time \in Nat /\ nows \in [Readers -> Nat] /\ due \in BOOLEAN
  BY PagesAssumption DEF RowsInv, RowsTyped, Timed
<1>5. \A u \in stay : nows[u] \in Nat /\ (nows[u] = time \/ (due /\ nows[u] + 1 = time))
  BY <1>2, <1>4 DEF RowsInv, Timed
<1>6. nows' \in [users -> Nat] /\ \A u \in users : nows'[u] = time \/ (due' /\ nows'[u] + 1 = time)
  BY <1>3, <1>4, <1>5
<1>7. due' => timer'
  BY <1>2, <1>3
<1> QED BY <1>1, <1>3, <1>4, <1>6, <1>7 DEF Timed

LEMMA RowsKept == RowsInv /\ (UNCHANGED rowsVars \/ R!RowsNext) => RowsInv'
<1> SUFFICES ASSUME RowsInv, UNCHANGED rowsVars \/ R!RowsNext PROVE RowsInv'
  OBVIOUS
<1> USE PagesAssumption
<1>0. /\ session \in [R!SessionsOf -> {"live", "resurrectable", "gone"}] /\ panes \in [RowPanes -> {"none", "running", "exited"}]
      /\ changed \in [RowPanes -> Nat] /\ alerts \subseteq R!Alerts /\ time \in 0..MaxTime /\ ahead \in 0..1 /\ mounted \in BOOLEAN
      /\ PanesLive /\ Timed /\ R!Unseen \in Nat /\ time + ahead \in Nat /\ RowsTyped
      /\ \A p \in RowPanes : p[1] \in R!SessionsOf
  BY DEF RowsInv, RowsTyped, R!Unseen, R!SessionsOf
<1>1. ASSUME NEW p \in RowPanes, NEW as \in {"none", "running", "exited"}, NEW moved \in BOOLEAN, R!Report(p, as, moved) PROVE RowsInv'
  <2>1. /\ session[p[1]] = "live" /\ panes' = [panes EXCEPT ![p] = as]
        /\ changed' = [changed EXCEPT ![p] = IF as = "none" THEN R!Unseen ELSE IF moved THEN time + ahead ELSE @]
        /\ UNCHANGED <<session, alerts, onlyClaude, mounted, time, ahead>> /\ R!Renders
    BY <1>1 DEF R!Report
  <2>2. RowsTyped' /\ PanesLive'
    BY <1>0, <2>1 DEF RowsTyped, PanesLive
  <2> QED BY <2>1, <2>2, Rendered DEF RowsInv
<1>2. ASSUME NEW s \in R!SessionsOf, NEW what \in {"live", "resurrectable", "gone"}, R!Becomes(s, what) PROVE RowsInv'
  <2>1. /\ session' = [session EXCEPT ![s] = what] /\ panes' = [p \in RowPanes |-> IF p[1] = s THEN "none" ELSE panes[p]]
        /\ changed' = [p \in RowPanes |-> IF p[1] = s THEN R!Unseen ELSE changed[p]]
        /\ UNCHANGED <<alerts, onlyClaude, mounted, time, ahead>> /\ R!Renders
    BY <1>2 DEF R!Becomes
  <2>2. RowsTyped' /\ PanesLive'
    BY <1>0, <2>1 DEF RowsTyped, PanesLive
  <2> QED BY <2>1, <2>2, Rendered DEF RowsInv
<1>3. ASSUME NEW a \in R!Alerts, R!Alert(a) PROVE RowsInv'
  <2>1. /\ alerts' = (IF a \in alerts THEN alerts \ {a} ELSE alerts \cup {a}) /\ R!Renders
        /\ UNCHANGED <<session, panes, changed, onlyClaude, mounted, time, ahead>>
    BY <1>3 DEF R!Alert
  <2>2. RowsTyped' /\ PanesLive'
    BY <1>0, <2>1 DEF RowsTyped, PanesLive
  <2> QED BY <2>1, <2>2, Rendered DEF RowsInv
<1>4. CASE R!Filter
  <2>1. R!Renders /\ UNCHANGED <<session, panes, changed, alerts, mounted, time, ahead>>
    BY <1>4 DEF R!Filter
  <2>2. RowsTyped' /\ PanesLive'
    BY <1>0, <2>1 DEF RowsTyped, PanesLive
  <2> QED BY <2>1, <2>2, Rendered DEF RowsInv
<1>5. CASE R!Visit
  <2>1. R!Renders /\ mounted' = ~mounted /\ UNCHANGED <<session, panes, changed, alerts, onlyClaude, time, ahead>>
    BY <1>5 DEF R!Visit
  <2>2. RowsTyped' /\ PanesLive'
    BY <1>0, <2>1 DEF RowsTyped, PanesLive
  <2> QED BY <2>1, <2>2, Rendered DEF RowsInv
<1>6. ASSUME UNCHANGED <<session, panes, changed, alerts, onlyClaude, mounted, ahead>> PROVE Readers' = Readers /\ PanesLive' /\ (time' \in 0..MaxTime => RowsTyped')
  BY <1>0, <1>6 DEF Readers, PanesLive, RowsTyped, R!OnPage, R!Cards, R!RowsOf, R!Kept
<1>7. CASE R!Fires
  <2>1. due' = FALSE /\ nows' = [u \in DOMAIN nows |-> time] /\ UNCHANGED <<session, panes, changed, alerts, onlyClaude, mounted, time, ahead, timer>>
    BY <1>7 DEF R!Fires
  <2>2. nows' \in [Readers -> Nat] /\ \A u \in Readers : nows'[u] = time
    BY <1>0, <2>1 DEF Timed
  <2>3. Timed'
    BY <1>0, <1>6, <2>1, <2>2 DEF Timed
  <2> QED BY <1>0, <1>6, <2>1, <2>3 DEF RowsInv
<1>8. CASE R!Second
  <2>1. ~due /\ time' = time + 1 /\ time < MaxTime /\ due' = timer /\ UNCHANGED <<session, panes, changed, alerts, onlyClaude, mounted, ahead, timer, nows>>
    BY <1>8 DEF R!Second
  <2>2. \A u \in Readers : timer /\ nows[u] = time /\ nows[u] \in Nat
    BY <1>0, <2>1 DEF Timed
  <2>3. due' \in BOOLEAN
    BY <1>0, <2>1 DEF Timed
  <2>4. Timed'
    BY <1>0, <1>6, <2>1, <2>2, <2>3 DEF Timed
  <2>5. time' \in 0..MaxTime
    BY <1>0, <2>1
  <2> QED BY <1>6, <2>1, <2>4, <2>5 DEF RowsInv
<1>9. CASE UNCHANGED rowsVars
  <2>1. UNCHANGED <<session, panes, changed, alerts, onlyClaude, mounted, time, ahead, timer, due, nows>>
    BY <1>9 DEF rowsVars
  <2>2. Timed'
    BY <1>0, <1>6, <2>1 DEF Timed
  <2> QED BY <1>0, <1>6, <2>1, <2>2 DEF RowsInv
<1> QED BY <1>1, <1>2, <1>3, <1>4, <1>5, <1>7, <1>8, <1>9 DEF R!RowsNext

(* The backend counts what the page lists. *)
LEMMA CountsAgree ==
    ASSUME RowsInv, ~onlyClaude
    PROVE  /\ R!countsOf.sessions = R!Cardinality(R!Cards) + R!Cardinality(R!Leaves)
           /\ R!countsOf.panes = R!Cardinality(R!OnPage)
<1>1. session \in [R!SessionsOf -> {"live", "resurrectable", "gone"}] /\ PanesLive
  BY DEF RowsInv, RowsTyped
<1>2. PICK L : L = R!Cards
  OBVIOUS
<1>3. PICK D : D = R!Leaves
  OBVIOUS
<1>4. L = {s \in R!SessionsOf : session[s] = "live"} /\ D = {s \in R!SessionsOf : session[s] = "resurrectable"}
  BY <1>2, <1>3 DEF R!Cards, R!Leaves
<1>5. PICK A : A = {s \in R!SessionsOf : session[s] # "gone"}
  OBVIOUS
<1>6. A = L \cup D /\ L \cap D = {}
  BY <1>1, <1>4, <1>5
<1>7. IsFiniteSet(R!SessionsOf)
  <2>1. IsFiniteSet(RowPanes)
    BY PagesAssumption
  <2>2. PICK f : f = [p \in RowPanes |-> p[1]]
    OBVIOUS
  <2>3. f \in Surjection(RowPanes, R!SessionsOf)
    BY <2>2 DEF R!SessionsOf, Surjection
  <2> QED BY <2>1, <2>3, FS_Surjection
<1>8. IsFiniteSet(L) /\ IsFiniteSet(D) /\ Cardinality(L) \in Nat /\ Cardinality(D) \in Nat
  BY <1>4, <1>7, FS_Subset, FS_CardinalityType
<1>9. Cardinality(A) = Cardinality(L) + Cardinality(D)
  <2>1. Cardinality(L \cup D) = Cardinality(L) + Cardinality(D) - Cardinality(L \cap D)
    BY <1>8, FS_Union
  <2>2. Cardinality(L \cap D) = 0
    BY <1>6, FS_EmptySet
  <2> QED BY <1>6, <1>8, <2>1, <2>2
<1>10. R!Cardinality(A) = Cardinality(A) /\ R!Cardinality(L) = Cardinality(L) /\ R!Cardinality(D) = Cardinality(D)
  BY RowsCount
<1>11. R!OnPage = {p \in RowPanes : panes[p] # "none"}
  <2>1. \A p \in RowPanes : p[1] \in R!SessionsOf
    BY DEF R!SessionsOf
  <2>2. \A s \in R!SessionsOf : R!RowsOf(s) = {p \in RowPanes : p[1] = s /\ panes[p] # "none"}
    BY DEF R!RowsOf, R!InSession, R!Kept
  <2>3. ASSUME NEW p PROVE p \in R!OnPage <=> p \in RowPanes /\ panes[p] # "none"
    BY <1>1, <1>2, <1>4, <2>1, <2>2 DEF R!OnPage, PanesLive
  <2> QED BY <2>3
<1>12. R!countsOf.sessions = R!Cardinality(A) /\ R!countsOf.panes = R!Cardinality({p \in RowPanes : panes[p] # "none"})
  BY <1>5 DEF R!countsOf
<1> QED BY <1>2, <1>3, <1>9, <1>10, <1>11, <1>12

(* A pane's attention is one of its session's. *)
LEMMA BadgesCover ==
    ASSUME RowsInv, NEW s \in R!SessionsOf
    PROVE  R!Cardinality({p \in R!RowsOf(s) : R!paneNeedsAttention(p)}) <= R!sessionAttentions(s)
<1>1. PICK P : P = {p \in R!RowsOf(s) : R!paneNeedsAttention(p)}
  OBVIOUS
<1>2. PICK A : A = {a \in alerts : a.at[1] = s /\ a.type # "thinking"}
  OBVIOUS
<1>3. IsFiniteSet(alerts)
  <2>1. IsFiniteSet(RowPanes)
    BY PagesAssumption
  <2>2. PICK X : X = {"needs-input", "thinking"} \X RowPanes
    OBVIOUS
  <2>3. IsFiniteSet({"needs-input", "thinking"}) /\ IsFiniteSet(X)
    <3>1. IsFiniteSet({"needs-input"}) /\ IsFiniteSet({"thinking"})
      BY FS_Singleton
    <3>2. IsFiniteSet({"needs-input"} \cup {"thinking"})
      BY <3>1, FS_Union
    <3>3. {"needs-input", "thinking"} = {"needs-input"} \cup {"thinking"}
      OBVIOUS
    <3> QED BY <2>1, <2>2, <3>2, <3>3, FS_Product
  <2>4. PICK B : B = [type : {"needs-input", "thinking"}, at : RowPanes]
    OBVIOUS
  <2>5. IsFiniteSet(B)
    <3>1. PICK f : f = [x \in X |-> [type |-> x[1], at |-> x[2]]]
      OBVIOUS
    <3>2. f \in Surjection(X, B)
      <4>1. \A b \in B : \E x \in X : f[x] = b
        <5> TAKE b \in B
        <5>1. PICK t \in {"needs-input", "thinking"}, p \in RowPanes : b = [type |-> t, at |-> p]
          BY <2>4
        <5>2. <<t, p>> \in X /\ f[<<t, p>>] = b
          BY <2>2, <3>1, <5>1
        <5> QED BY <5>2
      <4>2. f \in [X -> B]
        BY <2>2, <2>4, <3>1
      <4> QED BY <4>1, <4>2 DEF Surjection
    <3> QED BY <2>3, <3>2, FS_Surjection
  <2>6. PICK C : C = [type : {"detached"}, at : {<<x>> : x \in R!SessionsOf}]
    OBVIOUS
  <2>7. IsFiniteSet(C)
    <3>1. PICK g : g = [p \in RowPanes |-> [type |-> "detached", at |-> <<p[1]>>]]
      OBVIOUS
    <3>2. \A c \in C : \E p \in RowPanes : g[p] = c
      <4> TAKE c \in C
      <4>1. PICK x \in R!SessionsOf : c = [type |-> "detached", at |-> <<x>>]
        BY <2>6
      <4>2. PICK p \in RowPanes : x = p[1]
        BY <4>1 DEF R!SessionsOf
      <4> QED BY <3>1, <4>1, <4>2
    <3>3. g \in [RowPanes -> C]
      BY <2>6, <3>1 DEF R!SessionsOf
    <3>4. g \in Surjection(RowPanes, C)
      BY <3>2, <3>3 DEF Surjection
    <3> QED BY <2>1, <3>4, FS_Surjection
  <2>8. alerts \in SUBSET (B \cup C)
    BY <2>4, <2>6 DEF RowsInv, RowsTyped, R!Alerts
  <2> QED BY <2>5, <2>7, <2>8, FS_Union, FS_Subset
<1>4. IsFiniteSet(A) /\ A \in SUBSET alerts
  BY <1>2, <1>3, FS_Subset
<1>5. PICK f : f = [p \in P |-> [type |-> "needs-input", at |-> p]]
  OBVIOUS
<1>6. f \in Injection(P, A)
  <2>1. ASSUME NEW p \in P PROVE f[p] \in A /\ f[p].at = p
    <3>1. p[1] = s /\ R!paneNeedsAttention(p)
      BY <1>1 DEF R!RowsOf, R!InSession
    <3>2. PICK a \in alerts : a.at = p /\ a.type = "needs-input"
      BY <3>1 DEF R!paneNeedsAttention
    <3>3. a = [type |-> a.type, at |-> a.at]
      BY DEF RowsInv, RowsTyped, R!Alerts
    <3> QED BY <1>2, <1>5, <3>1, <3>2, <3>3
  <2>2. f \in [P -> A] /\ \A p, q \in P : f[p] = f[q] => p = q
    BY <1>5, <2>1
  <2> QED BY <2>2 DEF Injection, IsInjective
<1>7. Cardinality(P) <= Cardinality(A)
  BY <1>4, <1>6, FS_Injection
<1>8. R!Cardinality(P) = Cardinality(P) /\ R!Cardinality(A) = Cardinality(A)
  BY RowsCount
<1> QED BY <1>1, <1>2, <1>7, <1>8 DEF R!sessionAttentions

(* What a row says of its age is true. *)
LEMMA AgesTrue ==
    ASSUME RowsInv, mounted, NEW p \in R!OnPage
    PROVE  LET told == R!paneActivity(p)
               age == R!Ago(changed[p], time + ahead)
           IN  /\ (told.kind = "unknown") => changed[p] = R!Unseen
               /\ told.ago # R!Unseen => told.ago <= age /\ age <= told.ago + 1 + ahead
               /\ told.kind = "fresh" => age <= FreshFor + 1 + ahead
<1> USE PagesAssumption
<1>1. p \in Readers /\ p \in RowPanes
  BY DEF Readers, R!OnPage, R!Cards, R!RowsOf, R!InSession
<1>2. PICK c \in Nat : c = changed[p]
  BY <1>1 DEF RowsInv, RowsTyped
<1>3. PICK n \in Nat : n = nows[p] /\ (n = time \/ n + 1 = time)
  BY <1>1 DEF RowsInv, Timed
<1>4. PICK u \in Nat : u = R!Unseen /\ u > time
  BY DEF R!Unseen, RowsInv, RowsTyped
<1>5. time \in Nat /\ ahead \in 0..1
  BY DEF RowsInv, RowsTyped
<1>6. PICK ago \in Nat : ago = IF c = u THEN u ELSE IF n > c THEN n - c ELSE 0
  BY <1>2, <1>3
<1>7. PICK by \in Nat : by = time + ahead
  BY <1>5
<1>8. PICK age \in Nat : age = R!Ago(changed[p], time + ahead) /\ age = IF by > c THEN by - c ELSE 0
  <2>1. R!Ago(changed[p], time + ahead) = R!Ago(c, by)
    BY ONLY <1>2, <1>7, Zenon
  <2>2. R!Ago(c, by) = IF by > c THEN by - c ELSE 0
    BY DEF R!Ago
  <2>3. (IF by > c THEN by - c ELSE 0) \in Nat
    OBVIOUS
  <2> QED BY <2>1, <2>2, <2>3
<1>9. PICK told : told = R!paneActivity(p)
  OBVIOUS
<1>10. told.ago = ago /\ (told.kind = "unknown" => ago = u) /\ (told.kind = "fresh" => ago # u /\ ago <= FreshFor)
  <2>1. ago = IF changed[p] = R!Unseen THEN R!Unseen ELSE R!Ago(changed[p], nows[p])
    BY <1>2, <1>3, <1>4, <1>6 DEF R!Ago
  <2> QED BY <1>4, <1>9, <2>1 DEF R!paneActivity
<1>11. ago = u => c = u
  BY <1>3, <1>4, <1>5, <1>6
<1>12. ago # u => ago <= age /\ age <= ago + 1 + ahead
  BY <1>3, <1>5, <1>6, <1>7, <1>8
<1>13. told.kind = "fresh" => age <= FreshFor + 1 + ahead
  BY <1>5, <1>10, <1>12
<1> QED BY <1>2, <1>4, <1>8, <1>9, <1>10, <1>11, <1>12, <1>13

LEMMA RowsHold == RowsInv => R!RowsHonest
<1> SUFFICES ASSUME RowsInv PROVE R!RowsHonest
  OBVIOUS
<1>1. R!Message = "none" => R!Cards \cup R!Leaves # {}
  BY DEF R!Message
<1>2. ASSUME NEW s \in R!Cards PROVE (\E p \in R!RowsOf(s) : R!paneThinking(p)) => R!sessionThinking(s)
  BY DEF R!RowsOf, R!InSession, R!paneThinking, R!sessionThinking
<1>3. R!Cards \subseteq R!SessionsOf
  BY DEF R!Cards
<1>4. timer = (DOMAIN nows # {}) /\ (mounted => R!OnPage \subseteq DOMAIN nows)
  BY DEF RowsInv, Timed, Readers
<1> QED BY <1>1, <1>2, <1>3, <1>4, CountsAgree, BadgesCover, AgesTrue DEF R!RowsHonest

(***************************************************************************)
(* The service worker.                                                     *)
(***************************************************************************)
LEMMA WorkerAlone == [Next]_allVars => UNCHANGED workerVars \/ Sw!WorkerNext
BY DEF Next, EarlierNext, LaterNext, allVars, laterVars, workerVars

(* A worker comes with the shell that it fetched, and only its own outlives its *)
(* activation; a cache is named by the first deployment that has it.           *)
Installing(k) == k.step \in {"installing", "installed"} /\ k.cache \in 1..cache /\ k.cache # worker /\ k = [cache |-> k.cache, step |-> k.step]
StoresKnown ==
    /\ site \in 1..MaxDeploys + 1 /\ cache \in 1..site /\ worker \in 0..cache
    /\ coming = Sw!Nobody \/ Installing(coming)
    /\ stores \in [Sw!Caches -> Nat]
    /\ \A n \in Sw!Caches : stores[n] # 0 => n \in {worker, coming.cache} /\ stores[n] >= n
    /\ worker # 0 /\ worker \notin missed => stores[worker] # 0
    /\ coming.step = "installed" /\ coming.cache \notin missed => stores[coming.cache] # 0
AnswersTrue ==
    /\ got.kind = "api" => got.from # "cache"
    /\ got.kind = "page" /\ got.net => got.of = got.now
TrayTrue == windows \in Nat /\ pushed \in Nat /\ tray \in {0, pushed} /\ (focus => windows > 0)
ShellInv == StoresKnown /\ AnswersTrue /\ TrayTrue

LEMMA ShellStart == Sw!WorkerInit => ShellInv
<1> SUFFICES ASSUME Sw!WorkerInit PROVE ShellInv
  OBVIOUS
<1> USE PagesAssumption
<1>1. StoresKnown
  BY DEF Sw!WorkerInit, StoresKnown, Sw!Caches, Sw!Nobody
<1> QED BY <1>1 DEF Sw!WorkerInit, AnswersTrue, TrayTrue, ShellInv

LEMMA StoresKept == StoresKnown /\ (UNCHANGED workerVars \/ Sw!WorkerNext) => StoresKnown'
<1> SUFFICES ASSUME StoresKnown, UNCHANGED workerVars \/ Sw!WorkerNext PROVE StoresKnown'
  OBVIOUS
<1> USE PagesAssumption
<1>0. /\ site \in 1..MaxDeploys + 1 /\ cache \in 1..site /\ worker \in 0..cache
      /\ coming = Sw!Nobody \/ Installing(coming)
      /\ stores \in [Sw!Caches -> Nat]
      /\ \A n \in Sw!Caches : stores[n] # 0 => n \in {worker, coming.cache} /\ stores[n] >= n
      /\ worker # 0 /\ worker \notin missed => stores[worker] # 0
      /\ coming.step = "installed" /\ coming.cache \notin missed => stores[coming.cache] # 0
      /\ Sw!Caches = 1..MaxDeploys + 1 /\ Sw!Nobody.step = "no" /\ Sw!Nobody.cache = 0
  BY DEF StoresKnown, Sw!Caches, Sw!Nobody
<1>1. CASE UNCHANGED <<site, cache, worker, coming, stores, missed>>
  BY <1>0, <1>1 DEF StoresKnown, Installing
<1>2. ASSUME NEW yes \in BOOLEAN, Sw!Deploy(yes) PROVE StoresKnown'
  <2>1. site' = site + 1 /\ cache' \in {cache, site + 1} /\ site <= MaxDeploys /\ UNCHANGED <<worker, coming, stores, missed>>
    BY <1>2 DEF Sw!Deploy
  <2>2. site' \in 1..MaxDeploys + 1 /\ cache' \in 1..site' /\ worker' \in 0..cache' /\ cache <= cache'
    BY <1>0, <2>1
  <2>3. coming' = Sw!Nobody \/ Installing(coming)'
    BY SMTT(30), <1>0, <2>1, <2>2 DEF Installing
  <2> QED BY <1>0, <2>1, <2>2, <2>3 DEF StoresKnown
<1>3. CASE Sw!Update
  <2>1. coming = Sw!Nobody /\ worker # cache /\ coming' = [cache |-> cache, step |-> "installing"] /\ UNCHANGED <<site, cache, worker, stores, missed>>
    BY <1>3 DEF Sw!Update
  <2>2. Installing(coming)' /\ coming'.step # "installed"
    BY <1>0, <2>1 DEF Installing
  <2>3. \A n \in Sw!Caches : stores[n] # 0 => n = worker
    BY <1>0, <2>1
  <2> QED BY <1>0, <2>1, <2>2, <2>3 DEF StoresKnown
<1>4. ASSUME NEW ok \in BOOLEAN, Sw!Install(ok) PROVE StoresKnown'
  <2>1. PICK c \in 1..cache : c # worker /\ coming = [cache |-> c, step |-> "installing"]
    BY <1>0, <1>4 DEF Sw!Install, Installing
  <2>2. coming' = [cache |-> c, step |-> "installed"] /\ UNCHANGED <<site, cache, worker>>
    BY <1>4, <2>1 DEF Sw!Install
  <2>3. /\ stores' = IF ok THEN [stores EXCEPT ![c] = site] ELSE stores
        /\ missed' = IF ok THEN missed \ {c} ELSE missed \cup {c}
    BY <1>4, <2>1 DEF Sw!Install
  <2>4. Installing(coming)' /\ c \in Sw!Caches /\ site >= c /\ site # 0
    BY <1>0, <2>1, <2>2 DEF Installing
  <2>5. stores' \in [Sw!Caches -> Nat] /\ \A n \in Sw!Caches : stores'[n] = IF ok /\ n = c THEN site ELSE stores[n]
    BY <1>0, <2>3
  <2>6. \A n \in Sw!Caches : stores'[n] # 0 => n \in {worker', c} /\ stores'[n] >= n
    BY <1>0, <2>1, <2>2, <2>4, <2>5
  <2>7. worker # 0 => worker \in Sw!Caches
    BY <1>0
  <2>8. (worker' # 0 /\ worker' \notin missed' => stores'[worker'] # 0) /\ (c \notin missed' => stores'[c] # 0)
    BY <1>0, <2>1, <2>2, <2>3, <2>4, <2>5, <2>7
  <2> QED BY <1>0, <2>2, <2>4, <2>5, <2>6, <2>8 DEF StoresKnown
<1>5. CASE Sw!Activate
  <2>1. PICK c \in 1..cache : c # worker /\ coming = [cache |-> c, step |-> "installed"]
    BY <1>0, <1>5 DEF Sw!Activate, Installing
  <2>2. worker' = c /\ coming' = Sw!Nobody /\ stores' = [n \in Sw!Caches |-> IF n = c THEN stores[n] ELSE 0] /\ UNCHANGED <<site, cache, missed>>
    BY <1>5, <2>1 DEF Sw!Activate
  <2>3. c \in Sw!Caches
    BY <1>0, <2>1
  <2>4. stores' \in [Sw!Caches -> Nat] /\ \A n \in Sw!Caches : stores'[n] # 0 => n \in {worker', coming'.cache} /\ stores'[n] >= n
    BY <1>0, <2>2
  <2> QED BY <1>0, <2>1, <2>2, <2>3, <2>4 DEF StoresKnown
<1>6. ASSUME NEW what, Sw!Fetch(what) PROVE UNCHANGED <<site, cache, worker, coming, stores, missed>>
  BY <1>6 DEF Sw!Fetch
<1>7. ASSUME NEW n, Sw!Windows(n) PROVE UNCHANGED <<site, cache, worker, coming, stores, missed>>
  BY <1>7 DEF Sw!Windows
<1>8. UNCHANGED workerVars \/ Sw!Network \/ Sw!Push \/ Sw!Click => UNCHANGED <<site, cache, worker, coming, stores, missed>>
  BY DEF workerVars, Sw!Network, Sw!Push, Sw!Click
<1> QED BY <1>1, <1>2, <1>3, <1>4, <1>5, <1>6, <1>7, <1>8 DEF Sw!WorkerNext

LEMMA ShellKept == ShellInv /\ (UNCHANGED workerVars \/ Sw!WorkerNext) => ShellInv'
<1> SUFFICES ASSUME ShellInv, UNCHANGED workerVars \/ Sw!WorkerNext PROVE AnswersTrue' /\ TrayTrue'
  BY StoresKept DEF ShellInv
<1> USE PagesAssumption
<1>0. AnswersTrue /\ TrayTrue
  BY DEF ShellInv
<1>1. ASSUME NEW what \in {"page", "asset", "api"}, Sw!Fetch(what) PROVE AnswersTrue' /\ TrayTrue'
  <2>1. AnswersTrue'
    BY <1>1 DEF Sw!Fetch, AnswersTrue
  <2> QED BY <1>0, <1>1, <2>1 DEF Sw!Fetch, TrayTrue
<1>2. CASE Sw!Push \/ Sw!Click
  BY <1>0, <1>2 DEF Sw!Push, Sw!Click, AnswersTrue, TrayTrue
<1>3. ASSUME NEW n \in 0..MaxWindows, Sw!Windows(n) PROVE AnswersTrue' /\ TrayTrue'
  <2>1. windows' = n /\ focus' = (n > windows) /\ UNCHANGED <<got, pushed, tray>> /\ n \in Nat /\ windows \in Nat
    BY <1>0, <1>3 DEF Sw!Windows, TrayTrue
  <2>2. AnswersTrue'
    BY <1>0, <2>1 DEF AnswersTrue
  <2>3. focus' => windows' > 0
    <3>1. focus' => n > windows
      BY <2>1, Zenon
    <3> QED BY <2>1, <3>1
  <2> QED BY <1>0, <2>1, <2>2, <2>3 DEF TrayTrue
<1>4. CASE UNCHANGED <<got, windows, focus, pushed, tray>>
  BY <1>0, <1>4 DEF AnswersTrue, TrayTrue
<1>5. ASSUME NEW yes \in BOOLEAN, Sw!Deploy(yes) \/ Sw!Install(yes) PROVE UNCHANGED <<got, windows, focus, pushed, tray>>
  BY <1>5 DEF Sw!Deploy, Sw!Install
<1>6. UNCHANGED workerVars \/ Sw!Network \/ Sw!Update \/ Sw!Activate => UNCHANGED <<got, windows, focus, pushed, tray>>
  BY DEF workerVars, Sw!Network, Sw!Update, Sw!Activate
<1> QED BY <1>1, <1>2, <1>3, <1>4, <1>5, <1>6 DEF Sw!WorkerNext

LEMMA ShellHolds == ShellInv => Sw!ShellSound
<1> SUFFICES ASSUME ShellInv PROVE Sw!ShellSound
  OBVIOUS
<1> USE PagesAssumption
<1>0. /\ worker \in Nat /\ worker \in 0..cache /\ cache \in 1..site /\ site \in 1..MaxDeploys + 1 /\ Sw!Caches = 1..MaxDeploys + 1
      /\ coming = Sw!Nobody \/ Installing(coming)
      /\ stores \in [Sw!Caches -> Nat] /\ Sw!Nobody.cache = 0
      /\ \A n \in Sw!Caches : stores[n] # 0 => n \in {worker, coming.cache} /\ stores[n] >= n
      /\ worker # 0 /\ worker \notin missed => stores[worker] # 0
  BY DEF ShellInv, StoresKnown, Sw!Caches, Sw!Nobody
<1>1. PICK has \in SUBSET Sw!Caches : has = {n \in Sw!Caches : stores[n] # 0}
  OBVIOUS
<1>2. has # {} => \E n \in has : \A k \in has : n <= k
  <2> SUFFICES ASSUME has # {} PROVE \E n \in has : \A k \in has : n <= k
    OBVIOUS
  <2>1. \A n \in has : n \in Nat
    BY <1>0, <1>1
  <2>2. \A n \in has : n \in {worker, coming.cache}
    BY <1>0, <1>1
  <2> QED BY <2>1, <2>2
<1>3. PICK m : m = (CHOOSE n \in has : \A k \in has : n <= k)
  OBVIOUS
<1>4. has # {} => m \in has
  BY <1>2, <1>3
<1>5. Sw!Match = IF has = {} THEN 0 ELSE stores[m]
  BY <1>1, <1>3 DEF Sw!Match
<1>6. worker # 0 /\ worker \notin missed => Sw!Match # 0
  <2> SUFFICES ASSUME worker # 0, worker \notin missed PROVE Sw!Match # 0
    OBVIOUS
  <2>1. worker \in has
    BY <1>0, <1>1
  <2> QED BY <1>1, <1>4, <1>5, <2>1
<1>7. worker # 0 /\ coming = Sw!Nobody /\ Sw!Match # 0 => Sw!Match >= worker
  <2> SUFFICES ASSUME worker # 0, coming = Sw!Nobody, Sw!Match # 0 PROVE Sw!Match >= worker
    OBVIOUS
  <2>1. m \in has /\ Sw!Match = stores[m]
    BY <1>4, <1>5
  <2>2. m = worker
    BY <1>0, <1>1, <2>1
  <2> QED BY <1>0, <1>1, <2>1, <2>2
<1> QED BY <1>6, <1>7 DEF Sw!ShellSound, ShellInv, AnswersTrue, TrayTrue

SameInv == ViewsInv /\ ColoursInv /\ RowsInv /\ ShellInv

(* Two parts of the program that read the same data agree on it: the roster    *)
(* and the filter on which panes are Claude's, the badges and the number on a  *)
(* card, a channel's badge and its deliveries (listRecentNotifications), the   *)
(* colours of a list of codes and of a terminal (applySgr), the rows and the   *)
(* clock (useNow), the shell of the service worker and what is deployed.       *)
THEOREM ReadingsSame == Spec => []SameReading
<1>1. Init => SameInv
  BY ViewsStart, ColoursStart, RowsStart, ShellStart DEF Init, SameInv
<1>2. SameInv /\ [Next]_allVars => SameInv'
  <2> SUFFICES ASSUME SameInv, [Next]_allVars PROVE SameInv'
    OBVIOUS
  <2>1. ViewsInv'
    BY ViewsKept DEF SameInv
  <2>2. ColoursInv'
    <3>1. ASSUME UNCHANGED ansiVars PROVE ColoursInv'
      BY <3>1 DEF SameInv, ansiVars, ColoursInv, Taking, DoneWith, Follows
    <3> QED BY <3>1, ColoursAlone, ColoursKept DEF SameInv
  <2>3. RowsInv'
    BY RowsAlone, RowsKept DEF SameInv
  <2>4. ShellInv'
    BY WorkerAlone, ShellKept DEF SameInv
  <2> QED BY <2>1, <2>2, <2>3, <2>4 DEF SameInv
<1>3. SameInv => SameReading
  BY ViewsTypesHold, ReadingsHold, ColoursHold, RowsHold, ShellHolds DEF SameInv, SameReading
<1> QED BY <1>1, <1>2, <1>3, PTL DEF Spec
=============================================================================
