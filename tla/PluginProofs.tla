---------------------------- MODULE PluginProofs ----------------------------
(***************************************************************************)
(* The plugin, for any number of instances, codes, panes and events, any   *)
(* settings and any choice of the intervals: how the instances of a host   *)
(* come to a token, and what one instance says of its session.             *)
(***************************************************************************)
EXTENDS MCPlugin, FiniteSetTheorems, TLAPS

(* What is on its way has the code and the result of its kind.               *)
Shaped ==
    \A m \in net :
        /\ m.kind \in {"poll", "polled"} => m.code \in Codes
        /\ m.kind = "polled" => m.result \in D!Results
        /\ m.kind # "polled" => m.result = None
HostTyped == D!TypeOK /\ IsFiniteSet(net) /\ Shaped

(* The count of the pairing module is the library's. *)
LEMMA Counts == ASSUME NEW S PROVE D!Cardinality(S) = Cardinality(S)
BY DEF D!Cardinality, Cardinality

(* The names apart from codes; None is one name in both modules.             *)
LEMMA Names == None \notin Codes /\ D!Configured \notin Codes /\ D!None = None /\ D!Configured # None
BY PairingAssumption DEF D!Configured, D!None, None

(* Settings choose an own token or not, the hostname or not.                 *)
LEMMA SettingTyped ==
    ASSUME NEW i \in Instances, NEW set \in Settings[i]
    PROVE  set.own \in BOOLEAN /\ set.wants \in BOOLEAN
BY PairingAssumption

LEMMA HostStarts == D!Init => HostTyped
<1> SUFFICES ASSUME D!Init PROVE HostTyped
  OBVIOUS
<1>1. D!Unloaded \in D!Plugin
  BY Names DEF D!Unloaded, D!Plugin, D!Token, D!Id
<1>2. plugin \in [Instances -> D!Plugin]
  BY <1>1 DEF D!Init
<1>3. IsFiniteSet(net) /\ Shaped
  BY FS_EmptySet DEF D!Init, Shaped
<1>4. 0 \in 0..MaxMishaps
  BY PairingAssumption
<1> QED BY <1>2, <1>3, <1>4 DEF D!Init, HostTyped, D!TypeOK, D!Id

(* What may be sent and answered has its shape. *)
LEMMA StartsShaped ==
    ASSUME NEW i \in Instances, NEW n \in Nat
    PROVE  D!Request("start", i, D!None, n) \in D!Message
BY Names DEF D!Request, D!Message, D!Results

LEMMA AnswersShaped ==
    ASSUME NEW m \in D!Message, NEW kind \in {"started", "polled"}, NEW c \in Codes \cup {None},
           NEW result \in D!Results \cup {None}
    PROVE  /\ D!Answer(m, kind, c, result) \in D!Message
           /\ D!Answer(m, kind, c, result).kind = kind /\ D!Answer(m, kind, c, result).code = c
           /\ D!Answer(m, kind, c, result).result = result
           /\ D!Answer(m, kind, c, result).from = m.from
BY Names DEF D!Answer, D!Message

LEMMA NetChanges ==
    ASSUME IsFiniteSet(net), NEW m, NEW a
    PROVE  IsFiniteSet(net \ {m}) /\ IsFiniteSet((net \ {m}) \cup {a}) /\ IsFiniteSet(net \cup {a})
<1>1. IsFiniteSet(net \ {m})
  BY FS_Subset
<1> QED BY <1>1, FS_AddElement

(* Every step keeps the types. *)
LEMMA TypesKept ==
    ASSUME HostTyped, [D!Next]_host
    PROVE  HostTyped'
<1>0. /\ D!TypeOK /\ IsFiniteSet(net) /\ Shaped
      /\ plugin \in [Instances -> D!Plugin] /\ prompts \in [Instances -> SUBSET {"base", "run"}]
      /\ files \in [token : Codes \cup {None}, id : D!Id] /\ net \subseteq D!Message
      /\ row \in [Codes -> [status : {"unused", "pending", "approved", "expired", "consumed"}, late : BOOLEAN]]
      /\ page \in Codes \cup {None} /\ vouched \cup got \cup lost \subseteq Codes /\ spent \in 0..MaxMishaps
  BY Names DEF HostTyped, D!TypeOK
<1>a. ASSUME NEW i \in Instances, NEW p \in D!Plugin, plugin' = [plugin EXCEPT ![i] = p]
      PROVE  plugin' \in [Instances -> D!Plugin]
  BY <1>0, <1>a
<1>b. ASSUME NEW i \in Instances, NEW s \in SUBSET {"base", "run"}, prompts' = [prompts EXCEPT ![i] = s]
      PROVE  prompts' \in [Instances -> SUBSET {"base", "run"}]
  BY <1>0, <1>b
<1>c. ASSUME D!Spend PROVE spent' \in 0..MaxMishaps
  BY <1>0, <1>c, PairingAssumption DEF D!Spend
<1>d. \A i \in Instances : plugin[i] \in D!Plugin /\ prompts[i] \in SUBSET {"base", "run"}
  BY <1>0
<1>1. ASSUME NEW i \in Instances, NEW set \in Settings[i], D!Load(i, set) PROVE HostTyped'
  <2>1. D!EffectiveToken(set.own) \in D!Token
    BY <1>0, Names DEF D!EffectiveToken, D!Token
  <2>2. PICK p : p = [D!Unloaded EXCEPT !.loaded = TRUE, !.wants = set.wants,
                        !.token = D!EffectiveToken(set.own), !.active = D!EffectiveToken(set.own) = D!None]
    OBVIOUS
  <2>3. p \in D!Plugin
    BY ZenonT(40), <2>1, <2>2, SettingTyped, Names DEF D!Unloaded, D!Plugin, D!Id
  <2>4. plugin' = [plugin EXCEPT ![i] = p] /\ prompts' = [prompts EXCEPT ![i] = {"base"}]
    BY <1>1, <2>2 DEF D!Load
  <2>5. plugin' \in [Instances -> D!Plugin] /\ prompts' \in [Instances -> SUBSET {"base", "run"}]
    BY <2>3, <2>4, <1>a, <1>b
  <2> QED BY <2>5, <1>1, <1>0 DEF D!Load, HostTyped, D!TypeOK, Shaped
<1>2. ASSUME NEW i \in Instances, D!Unload(i) PROVE HostTyped'
  <2>1. D!Unloaded \in D!Plugin
    BY Names DEF D!Unloaded, D!Plugin, D!Token, D!Id
  <2>2. plugin' \in [Instances -> D!Plugin] /\ prompts' \in [Instances -> SUBSET {"base", "run"}]
    BY <2>1, <1>2, <1>0 DEF D!Unload
  <2>3. net' \subseteq net /\ IsFiniteSet(net')
    BY <1>2, <1>0, FS_Subset DEF D!Unload
  <2>4. lost' \subseteq Codes
    BY <1>2, <1>0 DEF D!Unload, D!Mine, Shaped
  <2>5. Shaped'
    BY <2>3, <1>0 DEF Shaped
  <2>6. spent' \in 0..MaxMishaps
    BY <1>2, <1>c DEF D!Unload
  <2> QED BY <2>2, <2>3, <2>4, <2>5, <2>6, <1>2, <1>0 DEF D!Unload, HostTyped, D!TypeOK
<1>3. ASSUME NEW i \in Instances, NEW what \in {"base", "run"}, D!Grant(i, what) PROVE HostTyped'
  <2>1. PICK p : p = [plugin[i] EXCEPT !.granted = TRUE, !.run = IF @ = "asked" THEN "granted" ELSE @]
    OBVIOUS
  <2>2. p \in D!Plugin
    BY ZenonT(40), <2>1, <1>d DEF D!Plugin
  <2>3. PICK q : q = IF D!BeginsPairing(plugin[i]) THEN D!startPairing(i, p) ELSE p
    OBVIOUS
  <2>4. q \in D!Plugin
    BY <2>2, <2>3 DEF D!Plugin, D!startPairing
  <2>5. D!ensured(q) \in D!Plugin
    BY <2>4 DEF D!ensured, D!Plugin
  <2>6. plugin' = [plugin EXCEPT ![i] = D!ensured(q)]
    BY <1>3, <2>1, <2>3 DEF D!Grant
  <2>7. plugin' \in [Instances -> D!Plugin]
    BY <2>5, <2>6, <1>a
  <2>8. prompts' \in [Instances -> SUBSET {"base", "run"}]
    BY <1>3, <1>0 DEF D!Grant
  <2>9. PICK n : n = D!Cardinality(D!Mine(i, {"start", "started"}))
    OBVIOUS
  <2>10. n \in Nat
    <3>1. IsFiniteSet(D!Mine(i, {"start", "started"}))
      BY <1>0, FS_Subset DEF D!Mine
    <3> QED BY <3>1, <2>9, Counts, FS_CardinalityType
  <2>11. PICK r : r = [D!StartRequest(i) EXCEPT !.n = n]
    OBVIOUS
  <2>12. r = D!Request("start", i, D!None, n)
    BY <2>11 DEF D!StartRequest, D!Request
  <2>13. r \in D!Message /\ r.kind = "start" /\ r.result = None
    BY <2>12, <2>10, StartsShaped, Names DEF D!Request
  <2>14. net' = net \cup {r} \/ net' = net
    BY <1>3, <2>9, <2>11 DEF D!Grant
  <2>15. net' \subseteq D!Message /\ IsFiniteSet(net') /\ Shaped'
    BY <2>13, <2>14, <1>0, FS_AddElement DEF Shaped
  <2> QED BY <2>7, <2>8, <2>15, <1>3, <1>0 DEF D!Grant, HostTyped, D!TypeOK
<1>4. ASSUME NEW i \in Instances, NEW what \in {"base", "run"}, D!Deny(i, what) PROVE HostTyped'
  <2>1. PICK p : p = [plugin[i] EXCEPT !.granted = IF D!OptionalDenied(plugin[i]) THEN @ ELSE FALSE]
    OBVIOUS
  <2>2. p \in D!Plugin /\ plugin' = [plugin EXCEPT ![i] = p]
    BY ZenonT(40), <2>1, <1>4, <1>d DEF D!Deny, D!Plugin
  <2>3. plugin' \in [Instances -> D!Plugin] /\ prompts' \in [Instances -> SUBSET {"base", "run"}]
    BY <2>2, <1>a, <1>4, <1>0 DEF D!Deny
  <2> QED BY <2>3, <1>4, <1>0 DEF D!Deny, HostTyped, D!TypeOK, Shaped
<1>5. ASSUME NEW i \in Instances, D!Hostname(i) PROVE HostTyped'
  <2>0. PICK p : p = [plugin[i] EXCEPT !.hostname = TRUE]
    OBVIOUS
  <2>a. p \in D!Plugin /\ plugin' = [plugin EXCEPT ![i] = p]
    BY ZenonT(40), <2>0, <1>5, <1>d DEF D!Hostname, D!Plugin, D!Id
  <2>1. plugin' \in [Instances -> D!Plugin]
    BY <2>a, <1>a
  <2> QED BY <2>1, <1>5, <1>0 DEF D!Hostname, HostTyped, D!TypeOK, Shaped
<1>6. ASSUME NEW i \in Instances, NEW set \in Settings[i], D!Configure(i, set) PROVE HostTyped'
  <2>1. D!EffectiveToken(set.own) \in D!Token
    BY <1>0, Names DEF D!EffectiveToken, D!Token
  <2>2. PICK p : p = [plugin[i] EXCEPT !.token = D!EffectiveToken(set.own), !.wants = set.wants,
                        !.active = IF D!EffectiveToken(set.own) # D!None THEN FALSE ELSE @]
    OBVIOUS
  <2>3. p \in D!Plugin
    BY ZenonT(40), <2>1, <2>2, <1>d, SettingTyped DEF D!Plugin
  <2>4. D!ensured(p) \in D!Plugin
    BY <2>3 DEF D!ensured, D!Plugin
  <2>5. plugin' = [plugin EXCEPT ![i] = D!ensured(p)]
    BY <1>6, <2>2 DEF D!Configure
  <2>6. plugin' \in [Instances -> D!Plugin] /\ prompts' \in [Instances -> SUBSET {"base", "run"}]
    BY <2>4, <2>5, <1>a, <1>6, <1>0 DEF D!Configure
  <2>7. spent' \in 0..MaxMishaps
    BY <1>6, <1>c DEF D!Configure
  <2> QED BY <2>6, <2>7, <1>6, <1>0 DEF D!Configure, HostTyped, D!TypeOK, Shaped
<1>7. ASSUME NEW i \in Instances, D!TimerStart(i) PROVE HostTyped'
  <2>0. PICK p : p = D!startPairing(i, plugin[i])
    OBVIOUS
  <2>a. p \in D!Plugin /\ plugin' = [plugin EXCEPT ![i] = p]
    BY ZenonT(40), <2>0, <1>7, <1>d, Names DEF D!TimerStart, D!Plugin, D!Id, D!startPairing
  <2>1. plugin' \in [Instances -> D!Plugin]
    BY <2>a, <1>a
  <2>2. D!StartRequest(i) \in D!Message /\ D!StartRequest(i).kind = "start" /\ D!StartRequest(i).result = None
    BY StartsShaped, Names DEF D!StartRequest, D!Request
  <2>3. net' \subseteq D!Message /\ IsFiniteSet(net') /\ Shaped'
    BY <2>2, <1>7, <1>0, FS_AddElement DEF D!TimerStart, Shaped
  <2> QED BY <2>1, <2>3, <1>7, <1>0 DEF D!TimerStart, HostTyped, D!TypeOK
<1>8. ASSUME NEW i \in Instances, D!TimerPoll(i) PROVE HostTyped'
  <2>1. PICK n \in 1..MaxPolls[i] : net' = net \cup {D!Request("poll", i, plugin[i].code, n)}
    BY <1>8 DEF D!TimerPoll
  <2>2. n \in Nat
    BY <2>1
  <2>3. plugin[i].code \in Codes
    BY <1>8, <1>d, Names DEF D!TimerPoll, D!Plugin
  <2>4. PICK r : r = D!Request("poll", i, plugin[i].code, n)
    OBVIOUS
  <2>5. r \in D!Message /\ r.kind = "poll" /\ r.result = None /\ r.code \in Codes
    BY <2>2, <2>3, <2>4, Names DEF D!Request, D!Message, D!Results
  <2>6. net' \subseteq D!Message /\ IsFiniteSet(net') /\ Shaped'
    BY <2>1, <2>4, <2>5, <1>0, FS_AddElement DEF Shaped
  <2> QED BY <2>6, <1>8, <1>0 DEF D!TimerPoll, HostTyped, D!TypeOK
<1>9. ASSUME NEW i \in Instances, D!TimerResolve(i) PROVE HostTyped'
  <2>0. PICK p : p = [plugin[i] EXCEPT !.read = files.id]
    OBVIOUS
  <2>a. p \in D!Plugin /\ plugin' = [plugin EXCEPT ![i] = p]
    BY <2>0, <1>9, <1>0, <1>d DEF D!TimerResolve, D!Plugin, D!Id
  <2>1. plugin' \in [Instances -> D!Plugin]
    BY <2>a, <1>a
  <2> QED BY <2>1, <1>9, <1>0 DEF D!TimerResolve, HostTyped, D!TypeOK, Shaped
<1>10. ASSUME NEW i \in Instances, D!Resolved(i) PROVE HostTyped'
  <2>1. PICK id : id = IF plugin[i].read = D!None THEN (IF plugin[i].hostname THEN D!HostId ELSE i)
                       ELSE plugin[i].read
    OBVIOUS
  <2>2. id \in D!Id
    BY <2>1, <1>10, <1>d DEF D!Resolved, D!Plugin, D!Id
  <2>3. plugin' = [plugin EXCEPT ![i].id = id, ![i].read = "unread"]
        /\ files' = IF plugin[i].read = D!None THEN [files EXCEPT !.id = id] ELSE files
    BY <2>1, <1>10 DEF D!Resolved
  <2>a. PICK p : p = [plugin[i] EXCEPT !.id = id, !.read = "unread"]
    OBVIOUS
  <2>b. p \in D!Plugin /\ plugin' = [plugin EXCEPT ![i] = p]
    BY <2>a, <2>2, <2>3, <1>d DEF D!Plugin
  <2>4. plugin' \in [Instances -> D!Plugin]
    BY <2>b, <1>a
  <2>5. files' \in [token : Codes \cup {None}, id : D!Id]
    BY <2>2, <2>3, <1>0
  <2> QED BY <2>4, <2>5, <1>10, <1>0, Names DEF D!Resolved, HostTyped, D!TypeOK, Shaped
<1>11. ASSUME NEW i \in Instances, NEW m \in net, D!OnPairStart(i, m) PROVE HostTyped'
  <2>1. m \in D!Message
    BY <1>0
  <2>a. PICK p : p = IF m.code = D!None THEN D!StartFailed(plugin[i]) ELSE [plugin[i] EXCEPT !.code = m.code]
    OBVIOUS
  <2>b. p \in D!Plugin
    <3>1. CASE m.code = D!None
      <4>1. p = [plugin[i] EXCEPT !.started = FALSE]
        BY <3>1, <2>a DEF D!StartFailed
      <4> QED BY <4>1, <1>d DEF D!Plugin
    <3>2. CASE m.code # D!None
      <4>1. p = [plugin[i] EXCEPT !.code = m.code] /\ m.code \in Codes
        BY <3>2, <2>1, <2>a DEF D!Message
      <4> QED BY <4>1, <1>d DEF D!Plugin
    <3> QED BY <3>1, <3>2
  <2>c. plugin' = [plugin EXCEPT ![i] = p]
    BY <2>a, <1>11 DEF D!OnPairStart
  <2>2. plugin' \in [Instances -> D!Plugin]
    BY <2>b, <2>c, <1>a
  <2>3. net' \subseteq D!Message /\ IsFiniteSet(net') /\ Shaped'
    BY <1>11, <1>0, NetChanges DEF D!OnPairStart, Shaped
  <2> QED BY <2>2, <2>3, <1>11, <1>0 DEF D!OnPairStart, HostTyped, D!TypeOK
<1>12. ASSUME NEW i \in Instances, NEW m \in net, D!OnPairPoll(i, m) PROVE HostTyped'
  <2>1. m.kind = "polled" /\ m.code \in Codes /\ m.result \in D!Results
    BY <1>12, <1>0 DEF D!OnPairPoll, D!Mine, Shaped
  <2>2. PICK q : q = D!AfterPoll(plugin[i], m)
    OBVIOUS
  <2>3. q \in D!Plugin
    <3>1. CASE m.result = "pending"
      BY <3>1, <2>2, <1>d DEF D!AfterPoll
    <3>2. CASE m.result = "approved"
      <4>1. q = D!Accepted(plugin[i], m.code)
        BY <3>2, <2>2 DEF D!AfterPoll
      <4>2. m.code \in D!Token
        BY <2>1 DEF D!Token
      <4>3. q = [plugin[i] EXCEPT !.token = m.code, !.active = FALSE, !.done = TRUE]
        BY <4>1 DEF D!Accepted
      <4> QED BY <4>2, <4>3, <1>d DEF D!Plugin
    <3>3. CASE m.result = "expired"
      <4>1. q = [plugin[i] EXCEPT !.code = D!None, !.started = FALSE]
        BY <3>3, <2>2 DEF D!AfterPoll
      <4> QED BY ZenonT(40), <4>1, <1>d, Names DEF D!Plugin
    <3>4. CASE m.result \in {"cap_reached", "consumed", "error"}
      <4>1. q = [plugin[i] EXCEPT !.done = TRUE]
        BY <3>4, <2>2 DEF D!AfterPoll
      <4> QED BY <4>1, <1>d DEF D!Plugin
    <3> QED BY <3>1, <3>2, <3>3, <3>4, <2>1 DEF D!Results
  <2>4. plugin' \in [Instances -> D!Plugin]
    BY <2>2, <2>3, <1>12, <1>a DEF D!OnPairPoll
  <2>5. net' \subseteq D!Message /\ IsFiniteSet(net') /\ Shaped'
    BY <1>12, <1>0, NetChanges DEF D!OnPairPoll, Shaped
  <2>6. files' \in [token : Codes \cup {None}, id : D!Id] /\ got' \subseteq Codes
    BY <2>1, <1>12, <1>0 DEF D!OnPairPoll
  <2> QED BY <2>4, <2>5, <2>6, <1>12, <1>0, Names DEF D!OnPairPoll, HostTyped, D!TypeOK
<1>13. ASSUME NEW m \in net, NEW c \in Codes, D!startSession(m, c) PROVE HostTyped'
  <2>1. PICK a : a = D!Answer(m, "started", c, D!None)
    OBVIOUS
  <2>2. a \in D!Message /\ a.kind = "started" /\ a.result = None
    BY <2>1, <1>0, AnswersShaped, Names
  <2>3. net' = (net \ {m}) \cup {a}
    BY <2>1, <1>13 DEF D!startSession
  <2>4. net' \subseteq D!Message /\ IsFiniteSet(net') /\ Shaped'
    BY <2>2, <2>3, <1>0, NetChanges DEF Shaped
  <2>5. row' \in [Codes -> [status : {"unused", "pending", "approved", "expired", "consumed"}, late : BOOLEAN]]
    BY <1>13, <1>0 DEF D!startSession
  <2> QED BY <2>4, <2>5, <1>13, <1>0 DEF D!startSession, HostTyped, D!TypeOK
<1>14. ASSUME NEW c \in Codes, D!Expire(c) PROVE HostTyped'
  <2>1. row' \in [Codes -> [status : {"unused", "pending", "approved", "expired", "consumed"}, late : BOOLEAN]]
    BY <1>14, <1>0 DEF D!Expire
  <2> QED BY <2>1, <1>14, <1>0 DEF D!Expire, HostTyped, D!TypeOK, Shaped
<1>15. ASSUME NEW m \in net, NEW r \in D!Results, D!pollPairing(m, r) PROVE HostTyped'
  <2>0. m.code \in Codes /\ m \in D!Message
    BY <1>15, <1>0 DEF D!pollPairing, Shaped
  <2>1. PICK a : a = D!Answer(m, "polled", m.code, r)
    OBVIOUS
  <2>2. a \in D!Message /\ a.kind = "polled" /\ a.result \in D!Results /\ a.code \in Codes
    BY <2>0, <2>1, AnswersShaped
  <2>3. net' = (net \ {m}) \cup {a}
    BY <2>1, <1>15 DEF D!pollPairing
  <2>4. net' \subseteq D!Message /\ IsFiniteSet(net') /\ Shaped'
    BY <2>2, <2>3, <1>0, NetChanges DEF Shaped
  <2>5. row' \in [Codes -> [status : {"unused", "pending", "approved", "expired", "consumed"}, late : BOOLEAN]]
    BY <2>0, <1>15, <1>0 DEF D!pollPairing, D!Settled
  <2> QED BY <2>4, <2>5, <1>15, <1>0 DEF D!pollPairing, HostTyped, D!TypeOK
<1>16. ASSUME NEW m \in net, D!Fail(m) PROVE HostTyped'
  <2>0. m \in D!Message
    BY <1>0
  <2>1. PICK a : a = IF m.kind \in {"start", "started"} THEN D!Answer(m, "started", D!None, D!None)
                     ELSE D!Answer(m, "polled", m.code, "error")
    OBVIOUS
  <2>2. /\ a \in D!Message
        /\ a.kind \in {"poll", "polled"} => a.code \in Codes
        /\ a.kind = "polled" => a.result \in D!Results
        /\ a.kind # "polled" => a.result = None
    <3>1. CASE m.kind \in {"start", "started"}
      BY <3>1, <2>0, <2>1, AnswersShaped, Names
    <3>2. CASE m.kind \in {"poll", "polled"}
      <4>1. m.code \in Codes /\ "error" \in D!Results
        BY <3>2, <1>0 DEF Shaped, D!Results
      <4> QED BY <3>2, <4>1, <2>0, <2>1, AnswersShaped
    <3> QED BY <3>1, <3>2, <2>0 DEF D!Message
  <2>3. net' = (net \ {m}) \cup {a}
    BY <2>1, <1>16 DEF D!Fail
  <2>4. net' \subseteq D!Message /\ IsFiniteSet(net') /\ Shaped'
    BY <2>2, <2>3, <1>0, NetChanges DEF Shaped
  <2>5. lost' \subseteq Codes
    <3>1. m.result = "approved" => m.code \in Codes
      BY <1>0, Names DEF Shaped, None
    <3> QED BY <3>1, <1>16, <1>0 DEF D!Fail
  <2>6. spent' \in 0..MaxMishaps
    BY <1>16, <1>c DEF D!Fail
  <2> QED BY <2>4, <2>5, <2>6, <1>16, <1>0 DEF D!Fail, HostTyped, D!TypeOK
<1>17. ASSUME NEW i \in Instances, D!PageTyped(i) PROVE HostTyped'
  <2>1. page' \in Codes \cup {None}
    BY <1>17, <1>d, Names DEF D!PageTyped, D!Plugin
  <2> QED BY <2>1, <1>17, <1>0, Names DEF D!PageTyped, HostTyped, D!TypeOK, Shaped
<1>18. ASSUME D!approvePairing PROVE HostTyped'
  <2>1. page \in Codes
    BY <1>18, <1>0, Names DEF D!approvePairing
  <2>2. row' \in [Codes -> [status : {"unused", "pending", "approved", "expired", "consumed"}, late : BOOLEAN]]
        /\ vouched' \subseteq Codes /\ page' \in Codes \cup {None}
    BY <2>1, <1>18, <1>0, Names DEF D!approvePairing
  <2> QED BY <2>2, <1>18, <1>0, Names DEF D!approvePairing, HostTyped, D!TypeOK, Shaped
<1>19. CASE UNCHANGED host
  BY <1>19, <1>0 DEF host, HostTyped, D!TypeOK, Shaped
<1> QED BY <1>1, <1>2, <1>3, <1>4, <1>5, <1>6, <1>7, <1>8, <1>9, <1>10, <1>11, <1>12, <1>13, <1>14,
           <1>15, <1>16, <1>17, <1>18, <1>19 DEF D!Next, D!Handles, D!Serves

(* A session that was approved or consumed had its code approved; and what   *)
(* an approved answer, the cache or an instance holds is a consumed session. *)
Sold(c) == row[c].status = "consumed"
Vouched == \A c \in Codes : row[c].status \in {"approved", "consumed"} => c \in vouched
AnswersSold == \A m \in net : m.result = "approved" => Sold(m.code)
CacheSold == files.token # None => Sold(files.token)
TokensSold == \A i \in Instances : plugin[i].token \in Codes => Sold(plugin[i].token) /\ files.token # None
Owed(c) == c \in got \cup lost \/ \E m \in net : m.kind = "polled" /\ m.code = c /\ m.result = "approved"
Accounted == \A c \in Codes : Sold(c) => Owed(c)
SessionsInv == Vouched /\ AnswersSold /\ CacheSold /\ TokensSold /\ Accounted

LEMMA SessionsStart == D!Init => SessionsInv
<1> SUFFICES ASSUME D!Init PROVE SessionsInv
  OBVIOUS
<1>1. \A c \in Codes : row[c].status = "unused"
  BY DEF D!Init
<1>2. net = {} /\ files.token = None /\ \A i \in Instances : plugin[i].token = None
  BY Names DEF D!Init, D!Unloaded
<1> QED BY <1>1, <1>2, Names DEF SessionsInv, Vouched, AnswersSold, CacheSold, TokensSold, Accounted, Sold

(* The token that a configuration ends up with was sold. *)
LEMMA EffectiveSold ==
    ASSUME HostTyped, SessionsInv, NEW own \in BOOLEAN, D!EffectiveToken(own) \in Codes
    PROVE  Sold(D!EffectiveToken(own)) /\ files.token # None
BY Names DEF D!EffectiveToken, SessionsInv, CacheSold

(* A step that sells nothing, loses no answer and changes at most the token  *)
(* of one instance, to one that was sold, keeps all of this.                 *)
LEMMA NothingSold ==
    ASSUME HostTyped, SessionsInv, UNCHANGED <<row, vouched>>,
           NEW i \in Instances, \A j \in Instances \ {i} : plugin'[j].token = plugin[j].token,
           plugin'[i].token = plugin[i].token
             \/ (plugin'[i].token \in Codes => Sold(plugin'[i].token) /\ files'.token # None),
           files'.token = files.token \/ (Sold(files'.token) /\ files'.token # None),
           \A m \in net' : m \in net \/ m.result # "approved",
           \A c \in Codes : Owed(c) => Owed(c)'
    PROVE  SessionsInv'
<1>1. \A c : Sold(c)' = Sold(c)
  BY DEF Sold
<1>2. Vouched' /\ AnswersSold'
  BY <1>1 DEF SessionsInv, Vouched, AnswersSold, Sold
<1>3. CacheSold'
  BY <1>1 DEF SessionsInv, CacheSold, Sold
<1>4. files.token # None => files'.token # None
  OBVIOUS
<1>5. TokensSold'
  <2> SUFFICES ASSUME NEW j \in Instances, plugin'[j].token \in Codes
               PROVE  row'[plugin'[j].token].status = "consumed" /\ files'.token # None
    BY DEF TokensSold, Sold
  <2>1. CASE plugin'[j].token = plugin[j].token
    BY <2>1, <1>4 DEF SessionsInv, TokensSold, Sold
  <2>2. CASE plugin'[j].token # plugin[j].token
    <3>1. j = i
      BY <2>2
    <3> QED BY <2>2, <3>1 DEF Sold
  <2> QED BY <2>1, <2>2
<1>6. Accounted'
  BY DEF SessionsInv, Accounted, Sold
<1> QED BY <1>2, <1>3, <1>5, <1>6 DEF SessionsInv

(* ... and so does one that leaves instances and cache alone, and of whose   *)
(* sessions the consumed stay consumed.                                      *)
LEMMA RowsChange ==
    ASSUME HostTyped, SessionsInv, UNCHANGED <<plugin, files, got>>, lost \subseteq lost',
           \A c \in Codes : Sold(c) => Sold(c)',
           \A c \in Codes : row'[c].status \in {"approved", "consumed"} =>
               c \in vouched' /\ (Sold(c)' => Sold(c) \/ Owed(c)'),
           \A m \in net' : m.result = "approved" => (m \in net /\ m.code \in Codes) \/ Sold(m.code)',
           \A m \in net : m.result = "approved" => m \in net' \/ m.code \in lost'
    PROVE  SessionsInv'
<1>0. files.token \in Codes \cup {None}
  BY Names DEF HostTyped, D!TypeOK
<1>1. Vouched' /\ AnswersSold'
  BY DEF SessionsInv, Vouched, AnswersSold
<1>2. CacheSold' /\ TokensSold'
  <2>1. CacheSold'
    BY <1>0 DEF SessionsInv, CacheSold, Sold
  <2>2. TokensSold'
    BY DEF SessionsInv, TokensSold, Sold
  <2> QED BY <2>1, <2>2
<1>3. \A c \in Codes : Owed(c) => Owed(c)'
  BY DEF Owed
<1>4. Accounted'
  <2> SUFFICES ASSUME NEW c \in Codes, Sold(c)' PROVE Owed(c)'
    BY DEF Accounted
  <2>1. row'[c].status = "consumed"
    BY DEF Sold
  <2>2. Sold(c) \/ Owed(c)'
    BY <2>1
  <2> QED BY <2>2, <1>3 DEF SessionsInv, Accounted
<1> QED BY <1>1, <1>2, <1>4 DEF SessionsInv

LEMMA SessionsKept ==
    ASSUME HostTyped, SessionsInv, [D!Next]_host
    PROVE  SessionsInv'
<1>0. /\ \A i \in Instances : plugin[i] \in D!Plugin
      /\ files.token \in Codes \cup {None} /\ net \subseteq D!Message /\ Shaped
      /\ plugin \in [Instances -> D!Plugin]
      /\ files \in [token : Codes \cup {None}, id : D!Id]
      /\ row \in [Codes -> [status : {"unused", "pending", "approved", "expired", "consumed"}, late : BOOLEAN]]
      /\ page \in Codes \cup {None}
  BY Names DEF HostTyped, D!TypeOK
<1>a. ASSUME UNCHANGED <<got, lost>>, \A m \in net : m.kind = "polled" /\ m.result = "approved" => m \in net'
      PROVE  \A c \in Codes : Owed(c) => Owed(c)'
  BY <1>a DEF Owed
<1>1. ASSUME NEW i \in Instances, NEW set \in Settings[i], D!Load(i, set) PROVE SessionsInv'
  <2>1. plugin'[i].token = D!EffectiveToken(set.own) /\ \A j \in Instances \ {i} : plugin'[j] = plugin[j]
    BY <1>1, <1>0 DEF D!Load, D!Unloaded
  <2>2. plugin'[i].token \in Codes => Sold(plugin'[i].token) /\ files'.token # None
    BY <2>1, <1>1, EffectiveSold, SettingTyped DEF D!Load
  <2>3. \A c \in Codes : Owed(c) => Owed(c)'
    BY <1>1, <1>a DEF D!Load
  <2> QED BY <2>1, <2>2, <2>3, <1>1, NothingSold DEF D!Load
<1>2. ASSUME NEW i \in Instances, D!Unload(i) PROVE SessionsInv'
  <2>1. plugin'[i].token = None /\ \A j \in Instances \ {i} : plugin'[j] = plugin[j]
    BY <1>2, <1>0, Names DEF D!Unload, D!Unloaded
  <2>2. \A c \in Codes : Owed(c) => Owed(c)'
    <3> SUFFICES ASSUME NEW c \in Codes, Owed(c) PROVE Owed(c)'
      OBVIOUS
    <3>1. CASE c \in got \cup lost
      BY <3>1, <1>2 DEF D!Unload, Owed
    <3>2. CASE c \notin got \cup lost
      <4>1. PICK m \in net : m.kind = "polled" /\ m.code = c /\ m.result = "approved"
        BY <3>2 DEF Owed
      <4>2. CASE m.from = i
        <5>1. m \in {a \in D!Mine(i, {"polled"}) : a.result = "approved"}
          BY <4>1, <4>2 DEF D!Mine
        <5>2. c \in lost'
          BY <5>1, <4>1, <1>2 DEF D!Unload
        <5> QED BY <5>2 DEF Owed
      <4>3. CASE m.from # i
        <5>1. m \in net'
          BY <4>3, <1>2 DEF D!Unload, D!Mine
        <5> QED BY <5>1, <4>1 DEF Owed
      <4> QED BY <4>2, <4>3
    <3> QED BY <3>1, <3>2
  <2>3. \A m \in net' : m \in net
    BY <1>2 DEF D!Unload
  <2> QED BY <2>1, <2>2, <2>3, <1>2, NothingSold, Names DEF D!Unload
<1>3. ASSUME NEW i \in Instances, NEW what \in {"base", "run"}, D!Grant(i, what) PROVE SessionsInv'
  <2>1. \A j \in Instances : plugin'[j].token = plugin[j].token
    BY <1>3, <1>0 DEF D!Grant, D!Plugin, D!ensured, D!startPairing
  <2>2. \A m \in net' : m \in net \/ m.result # "approved"
    BY <1>3 DEF D!Grant, D!StartRequest, D!Request, D!None
  <2>3. \A c \in Codes : Owed(c) => Owed(c)'
    BY <1>3, <1>a DEF D!Grant
  <2> QED BY <2>1, <2>2, <2>3, <1>3, NothingSold DEF D!Grant
<1>4. ASSUME NEW i \in Instances, NEW what \in {"base", "run"}, D!Deny(i, what) PROVE SessionsInv'
  <2>1. \A j \in Instances : plugin'[j].token = plugin[j].token
    BY <1>4, <1>0 DEF D!Deny, D!Plugin
  <2>2. \A c \in Codes : Owed(c) => Owed(c)'
    BY <1>4, <1>a DEF D!Deny
  <2> QED BY <2>1, <2>2, <1>4, NothingSold DEF D!Deny
<1>5. ASSUME NEW i \in Instances, D!Hostname(i) PROVE SessionsInv'
  <2>1. \A j \in Instances : plugin'[j].token = plugin[j].token
    BY <1>5, <1>0 DEF D!Hostname, D!Plugin
  <2>2. \A c \in Codes : Owed(c) => Owed(c)'
    BY <1>5, <1>a DEF D!Hostname
  <2> QED BY <2>1, <2>2, <1>5, NothingSold DEF D!Hostname
<1>6. ASSUME NEW i \in Instances, NEW set \in Settings[i], D!Configure(i, set) PROVE SessionsInv'
  <2>1. plugin'[i].token = D!EffectiveToken(set.own) /\ \A j \in Instances \ {i} : plugin'[j] = plugin[j]
    BY <1>6, <1>0 DEF D!Configure, D!ensured, D!Plugin
  <2>2. plugin'[i].token \in Codes => Sold(plugin'[i].token) /\ files'.token # None
    BY <2>1, <1>6, EffectiveSold, SettingTyped DEF D!Configure
  <2>3. \A c \in Codes : Owed(c) => Owed(c)'
    BY <1>6, <1>a DEF D!Configure
  <2> QED BY <2>1, <2>2, <2>3, <1>6, NothingSold DEF D!Configure
<1>7. ASSUME NEW i \in Instances, D!TimerStart(i) PROVE SessionsInv'
  <2>1. \A j \in Instances : plugin'[j].token = plugin[j].token
    BY <1>7, <1>0 DEF D!TimerStart, D!Plugin, D!startPairing
  <2>2. \A m \in net' : m \in net \/ m.result # "approved"
    BY <1>7 DEF D!TimerStart, D!StartRequest, D!Request, D!None
  <2>3. \A c \in Codes : Owed(c) => Owed(c)'
    BY <1>7, <1>a DEF D!TimerStart
  <2> QED BY <2>1, <2>2, <2>3, <1>7, NothingSold DEF D!TimerStart
<1>8. ASSUME NEW i \in Instances, D!TimerPoll(i) PROVE SessionsInv'
  <2>1. \A m \in net' : m \in net \/ m.result # "approved"
    BY <1>8 DEF D!TimerPoll, D!Request, D!None
  <2>2. \A c \in Codes : Owed(c) => Owed(c)'
    BY <1>8, <1>a DEF D!TimerPoll
  <2> QED BY <2>1, <2>2, <1>8, NothingSold DEF D!TimerPoll
<1>9. ASSUME NEW i \in Instances, D!TimerResolve(i) PROVE SessionsInv'
  <2>1. \A j \in Instances : plugin'[j].token = plugin[j].token
    BY <1>9, <1>0 DEF D!TimerResolve, D!Plugin
  <2>2. \A c \in Codes : Owed(c) => Owed(c)'
    BY <1>9, <1>a DEF D!TimerResolve
  <2> QED BY <2>1, <2>2, <1>9, NothingSold DEF D!TimerResolve
<1>10. ASSUME NEW i \in Instances, D!Resolved(i) PROVE SessionsInv'
  <2>1. \A j \in Instances : plugin'[j].token = plugin[j].token
    BY <1>10, <1>0 DEF D!Resolved, D!Plugin
  <2>2. files'.token = files.token
    BY <1>10, <1>0 DEF D!Resolved
  <2>3. \A c \in Codes : Owed(c) => Owed(c)'
    BY <1>10, <1>a DEF D!Resolved
  <2> QED BY <2>1, <2>2, <2>3, <1>10, NothingSold DEF D!Resolved
<1>11. ASSUME NEW i \in Instances, NEW m \in net, D!OnPairStart(i, m) PROVE SessionsInv'
  <2>1. \A j \in Instances : plugin'[j].token = plugin[j].token
    BY <1>11, <1>0 DEF D!OnPairStart, D!Plugin, D!StartFailed
  <2>2. \A c \in Codes : Owed(c) => Owed(c)'
    BY <1>11, <1>a DEF D!OnPairStart, D!Mine
  <2> QED BY <2>1, <2>2, <1>11, NothingSold DEF D!OnPairStart
<1>12. ASSUME NEW i \in Instances, NEW m \in net, D!OnPairPoll(i, m) PROVE SessionsInv'
  <2>0. m.kind = "polled" /\ m.code \in Codes /\ m.result \in D!Results
    BY <1>12, <1>0 DEF D!OnPairPoll, D!Mine, Shaped
  <2>1. PICK q : q = D!AfterPoll(plugin[i], m)
    OBVIOUS
  <2>2. plugin'[i] = q /\ \A j \in Instances \ {i} : plugin'[j] = plugin[j]
    BY <2>1, <1>12, <1>0 DEF D!OnPairPoll
  <2>3. CASE m.result = "approved"
    <3>1. q.token = m.code
      BY <2>1, <2>3, <1>0 DEF D!AfterPoll, D!Accepted, D!Plugin
    <3>2. files' = [files EXCEPT !.token = m.code] /\ got' = got \cup {m.code}
      BY <3>1, <2>1, <2>3, <1>12 DEF D!OnPairPoll
    <3>3. Sold(m.code) /\ m.code # None
      BY <2>0, <2>3, Names DEF SessionsInv, AnswersSold
    <3>4. files'.token = m.code
      BY <3>2, <1>0
    <3>5. \A c \in Codes : Owed(c) => Owed(c)'
      BY <3>2, <1>12 DEF D!OnPairPoll, Owed
    <3> QED BY <3>1, <3>3, <3>4, <3>5, <2>2, <1>12, NothingSold DEF D!OnPairPoll
  <2>4. CASE m.result # "approved"
    <3>1. q.token = plugin[i].token
      BY <2>0, <2>1, <2>4, <1>0 DEF D!AfterPoll, D!Results, D!Plugin
    <3>2. files' = files /\ got' = got
      BY <2>4, <1>12 DEF D!OnPairPoll
    <3>3. \A c \in Codes : Owed(c) => Owed(c)'
      BY <3>2, <2>4, <1>12 DEF D!OnPairPoll, Owed
    <3> QED BY <3>1, <3>2, <3>3, <2>2, <1>12, NothingSold DEF D!OnPairPoll
  <2> QED BY <2>3, <2>4
<1>13. ASSUME NEW m \in net, NEW c \in Codes, D!startSession(m, c) PROVE SessionsInv'
  <2>1. m.result = None /\ m \in D!Message
    BY <1>13, <1>0 DEF D!startSession, Shaped
  <2>2. D!Answer(m, "started", c, D!None).result # "approved"
    BY <2>1, AnswersShaped, Names DEF None
  <2>3. row' = [row EXCEPT ![c].status = "pending"] /\ row[c].status = "unused"
    BY <1>13 DEF D!startSession
  <2>4. \A b \in Codes : row'[b].status = IF b = c THEN "pending" ELSE row[b].status
    BY <2>3, <1>0
  <2>5. \A b \in Codes : (Sold(b) <=> Sold(b)') /\ (row'[b].status \in {"approved", "consumed"} => b \in vouched')
    BY <2>3, <2>4, <1>13 DEF Sold, SessionsInv, Vouched, D!startSession
  <2>6. \A a \in net' : a.result = "approved" => a \in net /\ a.code \in Codes
    BY <2>2, <1>13, <1>0 DEF D!startSession, Shaped, None
  <2>7. \A a \in net : a.result = "approved" => a \in net'
    BY <2>1, <1>13 DEF D!startSession, None
  <2> QED BY <2>5, <2>6, <2>7, <1>13, RowsChange DEF D!startSession
<1>14. ASSUME NEW c \in Codes, D!Expire(c) PROVE SessionsInv'
  <2>1. \A b \in Codes : row'[b].status = row[b].status
    BY <1>14, <1>0 DEF D!Expire
  <2>2. \A b \in Codes : (Sold(b) <=> Sold(b)') /\ (row'[b].status \in {"approved", "consumed"} => b \in vouched')
    BY <2>1, <1>14 DEF Sold, SessionsInv, Vouched, D!Expire
  <2>3. \A a \in net : a.result = "approved" => a.code \in Codes
    BY <1>0 DEF Shaped, None
  <2> QED BY <2>2, <2>3, <1>14, RowsChange DEF D!Expire
<1>15. ASSUME NEW m \in net, NEW r \in D!Results, D!pollPairing(m, r) PROVE SessionsInv'
  <2>0. m.code \in Codes /\ m \in D!Message /\ m.result = None
    BY <1>15, <1>0 DEF D!pollPairing, Shaped
  <2>1. PICK a : a = D!Answer(m, "polled", m.code, r)
    OBVIOUS
  <2>2. a.kind = "polled" /\ a.result = r /\ a.code = m.code
    BY <2>0, <2>1, AnswersShaped
  <2>3. net' = (net \ {m}) \cup {a} /\ UNCHANGED <<plugin, files, got, lost, vouched>>
    BY <2>1, <1>15 DEF D!pollPairing
  <2>4. \A b \in Codes : row'[b].status = IF b = m.code THEN D!Settled(r, row[b].status) ELSE row[b].status
    BY <2>0, <1>15, <1>0 DEF D!pollPairing
  <2>5. /\ r = "approved" => row[m.code].status = "approved"
        /\ r = "expired" => row[m.code].status # "consumed"
    BY <1>15, <2>0 DEF D!pollPairing, D!Outcomes, D!Mintable
  <2>6. D!Settled(r, row[m.code].status) =
          IF r = "approved" THEN "consumed" ELSE IF r = "expired" THEN "expired" ELSE row[m.code].status
    BY DEF D!Settled
  <2>7. \A b \in Codes : Sold(b) => Sold(b)'
    BY <2>4, <2>5, <2>6 DEF Sold
  <2>8. r = "approved" => Owed(m.code)'
    BY <2>2, <2>3 DEF Owed
  <2>9. \A b \in Codes : row'[b].status \in {"approved", "consumed"} => b \in vouched' /\ (Sold(b)' => Sold(b) \/ Owed(b)')
    <3> SUFFICES ASSUME NEW b \in Codes, row'[b].status \in {"approved", "consumed"}
                 PROVE  b \in vouched' /\ (Sold(b)' => Sold(b) \/ Owed(b)')
      OBVIOUS
    <3>1. CASE b = m.code /\ r = "approved"
      BY <3>1, <2>3, <2>5, <2>8 DEF SessionsInv, Vouched
    <3>2. CASE ~(b = m.code /\ r = "approved")
      <4>1. row'[b].status = row[b].status
        BY <3>2, <2>4, <2>6
      <4> QED BY <4>1, <2>3 DEF SessionsInv, Vouched, Sold
    <3> QED BY <3>1, <3>2
  <2>10. \A b \in net' : b.result = "approved" => (b \in net /\ b.code \in Codes) \/ Sold(b.code)'
    <3> SUFFICES ASSUME NEW b \in net', b.result = "approved"
                 PROVE  (b \in net /\ b.code \in Codes) \/ Sold(b.code)'
      OBVIOUS
    <3>1. CASE b = a
      <4>1. r = "approved" /\ row'[m.code].status = "consumed"
        BY <3>1, <2>0, <2>2, <2>4, <2>6
      <4> QED BY <4>1, <3>1, <2>2 DEF Sold
    <3>2. CASE b # a
      BY <3>2, <2>3, <1>0 DEF Shaped, None
    <3> QED BY <3>1, <3>2
  <2>11. \A b \in net : b.result = "approved" => b \in net'
    BY <2>0, <2>3 DEF None
  <2> QED BY <2>3, <2>7, <2>9, <2>10, <2>11, RowsChange
<1>16. ASSUME NEW m \in net, D!Fail(m) PROVE SessionsInv'
  <2>1. PICK a : a = IF m.kind \in {"start", "started"} THEN D!Answer(m, "started", D!None, D!None)
                     ELSE D!Answer(m, "polled", m.code, "error")
    OBVIOUS
  <2>2. a.result # "approved"
    BY <2>1, <1>0 DEF D!Answer, D!Message, D!None
  <2>3. net' = (net \ {m}) \cup {a} /\ UNCHANGED <<plugin, files, got, vouched, row>>
        /\ lost' = IF m.result = "approved" THEN lost \cup {m.code} ELSE lost
    BY <2>1, <1>16 DEF D!Fail
  <2>4. \A b \in Codes : (Sold(b) <=> Sold(b)') /\ (row'[b].status \in {"approved", "consumed"} => b \in vouched')
    BY <2>3 DEF Sold, SessionsInv, Vouched
  <2>5. \A b \in net' : b.result = "approved" => b \in net /\ b.code \in Codes
    BY <2>2, <2>3, <1>0 DEF Shaped, None
  <2> QED BY <2>3, <2>4, <2>5, RowsChange
<1>17. ASSUME NEW i \in Instances, D!PageTyped(i) PROVE SessionsInv'
  <2>1. \A c \in Codes : Owed(c) => Owed(c)'
    BY <1>17, <1>a DEF D!PageTyped
  <2> QED BY <2>1, <1>17, NothingSold DEF D!PageTyped
<1>18. ASSUME D!approvePairing PROVE SessionsInv'
  <2>1. page \in Codes
    BY <1>18, <1>0, Names DEF D!approvePairing
  <2>2. CASE row[page].status = "pending" /\ ~row[page].late
    <3>1. row' = [row EXCEPT ![page].status = "approved"] /\ vouched' = vouched \cup {page}
          /\ UNCHANGED <<plugin, files, net, got, lost>>
      BY <2>2, <1>18 DEF D!approvePairing
    <3>2. \A b \in Codes : row'[b].status = IF b = page THEN "approved" ELSE row[b].status
      BY <3>1, <1>0
    <3>3. \A b \in Codes : (Sold(b) <=> Sold(b)') /\ (row'[b].status \in {"approved", "consumed"} => b \in vouched')
      BY <2>2, <3>1, <3>2 DEF Sold, SessionsInv, Vouched
    <3>4. \A a \in net : a.result = "approved" => a.code \in Codes
      BY <1>0 DEF Shaped, None
    <3> QED BY <3>1, <3>3, <3>4, RowsChange
  <2>3. CASE ~(row[page].status = "pending" /\ ~row[page].late)
    <3>1. UNCHANGED <<plugin, files, net, got, lost, row, vouched>>
      BY <2>3, <1>18 DEF D!approvePairing
    <3> QED BY <3>1 DEF SessionsInv, Vouched, AnswersSold, CacheSold, TokensSold, Accounted, Sold, Owed
  <2> QED BY <2>2, <2>3
<1>19. CASE UNCHANGED host
  BY <1>19 DEF host, SessionsInv, Vouched, AnswersSold, CacheSold, TokensSold, Accounted, Sold, Owed
<1> QED BY <1>1, <1>2, <1>3, <1>4, <1>5, <1>6, <1>7, <1>8, <1>9, <1>10, <1>11, <1>12, <1>13, <1>14, <1>15, <1>16, <1>17, <1>18, <1>19 DEF D!Next, D!Handles, D!Serves

(* A request or an answer that an instance waits for after it has started:   *)
(* only its answer, or its end, takes it away, and both reset the flag.      *)
Awaiting(i) == D!Mine(i, {"start", "started"}) # {}
Calling(i) == plugin[i].started /\ plugin[i].code = None
Calls == \A i \in Instances : Calling(i) => Awaiting(i)

(* A permission prompt is open for a reason, and what is not loaded is blank.*)
Prompting ==
    \A i \in Instances :
        /\ "base" \in prompts[i] => ~plugin[i].granted
        /\ "run" \in prompts[i] => plugin[i].granted /\ plugin[i].run = "asked"
        /\ ~plugin[i].loaded => plugin[i] = D!Unloaded
HostInv == HostTyped /\ SessionsInv /\ Calls /\ Prompting

(* Messages that an instance waits for survive a step that takes others.     *)
LEMMA StillAwaiting ==
    ASSUME NEW i \in Instances, Awaiting(i),
           \A m \in net : m.from = i /\ m.kind \in {"start", "started"} =>
               \E a \in net' : a.from = i /\ a.kind \in {"start", "started"}
    PROVE  Awaiting(i)'
BY DEF Awaiting, D!Mine

LEMMA CallsKept ==
    ASSUME HostTyped, Calls, [D!Next]_host
    PROVE  Calls'
<1>0. /\ \A i \in Instances : plugin[i] \in D!Plugin
      /\ net \subseteq D!Message /\ Shaped /\ plugin \in [Instances -> D!Plugin]
  BY Names DEF HostTyped, D!TypeOK
<1>a. ASSUME net \subseteq net', \A j \in Instances : Calling(j)' => Calling(j) PROVE Calls'
  BY <1>a DEF Calls, Awaiting, D!Mine
<1>b. ASSUME NEW m \in net, NEW a, net' = (net \ {m}) \cup {a}, UNCHANGED plugin,
             m.kind \in {"start", "started"} => a.from = m.from /\ a.kind = "started"
      PROVE  Calls'
  <2> SUFFICES ASSUME NEW j \in Instances, Calling(j)' PROVE Awaiting(j)'
    BY DEF Calls
  <2>1. Awaiting(j)
    BY <1>b DEF Calls, Calling
  <2>2. ASSUME NEW b \in net, b.from = j /\ b.kind \in {"start", "started"}
        PROVE  \E c \in net' : c.from = j /\ c.kind \in {"start", "started"}
    <3>1. CASE b = m
      BY <3>1, <2>2, <1>b
    <3>2. CASE b # m
      BY <3>2, <2>2, <1>b
    <3> QED BY <3>1, <3>2
  <2> QED BY <2>1, <2>2, StillAwaiting
<1>c. ASSUME NEW i \in Instances, NEW m \in net, net' = net \ {m}, m.from = i,
             \A j \in Instances \ {i} : plugin'[j] = plugin[j],
             Calling(i)' => Calling(i) /\ m.kind \notin {"start", "started"}
      PROVE  Calls'
  <2> SUFFICES ASSUME NEW j \in Instances, Calling(j)' PROVE Awaiting(j)'
    BY DEF Calls
  <2>1. Awaiting(j)
    BY <1>c DEF Calls, Calling
  <2>2. \A b \in net : b.from = j /\ b.kind \in {"start", "started"} => b \in net'
    BY <1>c
  <2> QED BY <2>1, <2>2, StillAwaiting
<1>1. ASSUME NEW i \in Instances, NEW set \in Settings[i], D!Load(i, set) PROVE Calls'
  <2>1. net \subseteq net'
    BY <1>1 DEF D!Load
  <2>2. \A j \in Instances : Calling(j)' => Calling(j)
    BY <1>1, <1>0, Names DEF D!Load, Calling, D!Plugin, D!Unloaded
  <2> QED BY <2>1, <2>2, <1>a
<1>2. ASSUME NEW i \in Instances, D!Unload(i) PROVE Calls'
  <2>1. ~Calling(i)' /\ \A j \in Instances \ {i} : plugin'[j] = plugin[j]
    BY <1>2, <1>0 DEF D!Unload, D!Unloaded, Calling
  <2> SUFFICES ASSUME NEW j \in Instances \ {i}, Calling(j)' PROVE Awaiting(j)'
    BY <2>1 DEF Calls
  <2>2. Awaiting(j)
    BY <2>1 DEF Calls, Calling
  <2>3. \A b \in net : b.from = j => b \in net'
    BY <1>2 DEF D!Unload, D!Mine
  <2> QED BY <2>2, <2>3, StillAwaiting
<1>3. ASSUME NEW i \in Instances, NEW what \in {"base", "run"}, D!Grant(i, what) PROVE Calls'
  <2>1. net \subseteq net' /\ \A j \in Instances \ {i} : plugin'[j] = plugin[j]
    BY <1>3, <1>0 DEF D!Grant
  <2>2. CASE D!BeginsPairing(plugin[i])
    <3>1. PICK n : n = D!Cardinality(D!Mine(i, {"start", "started"}))
      OBVIOUS
    <3>2. PICK r : r = [D!StartRequest(i) EXCEPT !.n = n]
      OBVIOUS
    <3>3. r \in net'
      BY <2>2, <3>1, <3>2, <1>3 DEF D!Grant
    <3>4. r.from = i /\ r.kind = "start"
      BY <3>2 DEF D!StartRequest, D!Request
    <3>5. Awaiting(i)'
      BY <3>3, <3>4 DEF Awaiting, D!Mine
    <3>6. \A j \in Instances \ {i} : Calling(j)' => Awaiting(j)'
      BY <2>1 DEF Calls, Calling, Awaiting, D!Mine
    <3> QED BY <3>5, <3>6 DEF Calls
  <2>3. CASE ~D!BeginsPairing(plugin[i])
    <3>1. PICK p : p = [plugin[i] EXCEPT !.granted = TRUE, !.run = IF @ = "asked" THEN "granted" ELSE @]
      OBVIOUS
    <3>2. plugin'[i] = D!ensured(p)
      BY <2>3, <3>1, <1>3, <1>0 DEF D!Grant
    <3>3. Calling(i)' => Calling(i)
      BY <3>1, <3>2, <1>0 DEF D!ensured, D!Plugin, Calling
    <3>4. \A j \in Instances : Calling(j)' => Calling(j)
      BY <3>3, <2>1 DEF Calling
    <3> QED BY <3>4, <2>1, <1>a
  <2> QED BY <2>2, <2>3
<1>4. ASSUME NEW i \in Instances, NEW what \in {"base", "run"}, D!Deny(i, what) PROVE Calls'
  <2>1. net \subseteq net'
    BY <1>4 DEF D!Deny
  <2>2. \A j \in Instances : Calling(j)' => Calling(j)
    BY <1>4, <1>0, Names DEF D!Deny, Calling, D!Plugin
  <2> QED BY <2>1, <2>2, <1>a
<1>5. ASSUME NEW i \in Instances, D!Hostname(i) PROVE Calls'
  <2>1. net \subseteq net'
    BY <1>5 DEF D!Hostname
  <2>2. \A j \in Instances : Calling(j)' => Calling(j)
    BY <1>5, <1>0, Names DEF D!Hostname, Calling, D!Plugin
  <2> QED BY <2>1, <2>2, <1>a
<1>6. ASSUME NEW i \in Instances, NEW set \in Settings[i], D!Configure(i, set) PROVE Calls'
  <2>1. net \subseteq net'
    BY <1>6 DEF D!Configure
  <2>2. \A j \in Instances : Calling(j)' => Calling(j)
    BY <1>6, <1>0, Names DEF D!Configure, Calling, D!Plugin, D!ensured
  <2> QED BY <2>1, <2>2, <1>a
<1>7. ASSUME NEW i \in Instances, D!TimerStart(i) PROVE Calls'
  <2>1. PICK r : r = D!StartRequest(i)
    OBVIOUS
  <2>2. r.from = i /\ r.kind = "start" /\ net' = net \cup {r}
    BY <2>1, <1>7 DEF D!StartRequest, D!Request, D!TimerStart
  <2>3. Awaiting(i)'
    BY <2>2 DEF Awaiting, D!Mine
  <2>4. \A j \in Instances \ {i} : plugin'[j] = plugin[j]
    BY <1>7, <1>0 DEF D!TimerStart
  <2>5. \A j \in Instances \ {i} : Calling(j)' => Awaiting(j)'
    BY <2>2, <2>4 DEF Calls, Calling, Awaiting, D!Mine
  <2> QED BY <2>3, <2>5 DEF Calls
<1>8. ASSUME NEW i \in Instances, D!TimerPoll(i) PROVE Calls'
  <2>1. net \subseteq net'
    BY <1>8 DEF D!TimerPoll
  <2>2. \A j \in Instances : Calling(j)' => Calling(j)
    BY <1>8, <1>0, Names DEF D!TimerPoll, Calling, D!Plugin
  <2> QED BY <2>1, <2>2, <1>a
<1>9. ASSUME NEW i \in Instances, D!TimerResolve(i) PROVE Calls'
  <2>1. net \subseteq net'
    BY <1>9 DEF D!TimerResolve
  <2>2. \A j \in Instances : Calling(j)' => Calling(j)
    BY <1>9, <1>0, Names DEF D!TimerResolve, Calling, D!Plugin
  <2> QED BY <2>1, <2>2, <1>a
<1>10. ASSUME NEW i \in Instances, D!Resolved(i) PROVE Calls'
  <2>1. net \subseteq net'
    BY <1>10 DEF D!Resolved
  <2>2. \A j \in Instances : Calling(j)' => Calling(j)
    BY <1>10, <1>0, Names DEF D!Resolved, Calling, D!Plugin
  <2> QED BY <2>1, <2>2, <1>a
<1>11. ASSUME NEW i \in Instances, NEW m \in net, D!OnPairStart(i, m) PROVE Calls'
  <2>1. m.from = i /\ net' = net \ {m} /\ m \in D!Message
    BY <1>11, <1>0 DEF D!OnPairStart, D!Mine
  <2>2. \A j \in Instances \ {i} : plugin'[j] = plugin[j]
    BY <1>11, <1>0 DEF D!OnPairStart
  <2>3. ~Calling(i)'
    <3>1. CASE m.code = D!None
      <4>1. plugin'[i] = D!StartFailed(plugin[i])
        BY <3>1, <1>11, <1>0 DEF D!OnPairStart
      <4>2. plugin'[i].started = FALSE
        BY <4>1, <1>0 DEF D!StartFailed, D!Plugin
      <4> QED BY <4>2 DEF Calling
    <3>2. CASE m.code # D!None
      <4>1. plugin'[i] = [plugin[i] EXCEPT !.code = m.code]
        BY <3>2, <1>11, <1>0 DEF D!OnPairStart
      <4>2. plugin'[i].code = m.code
        BY <4>1, <1>0 DEF D!Plugin
      <4> QED BY <3>2, <4>2, Names DEF Calling
    <3> QED BY <3>1, <3>2
  <2> QED BY <2>1, <2>2, <2>3, <1>c
<1>12. ASSUME NEW i \in Instances, NEW m \in net, D!OnPairPoll(i, m) PROVE Calls'
  <2>1. m.from = i /\ net' = net \ {m} /\ m.kind = "polled" /\ m.result \in D!Results
    BY <1>12, <1>0 DEF D!OnPairPoll, D!Mine, Shaped
  <2>2. plugin'[i] = D!AfterPoll(plugin[i], m) /\ \A j \in Instances \ {i} : plugin'[j] = plugin[j]
    BY <1>12, <1>0 DEF D!OnPairPoll
  <2>3. Calling(i)' => Calling(i)
    <3>1. CASE m.result = "expired"
      <4>1. plugin'[i] = [plugin[i] EXCEPT !.code = D!None, !.started = FALSE]
        BY <3>1, <2>2 DEF D!AfterPoll
      <4>2. plugin'[i].started = FALSE
        BY <4>1, <1>0 DEF D!Plugin
      <4> QED BY <4>2 DEF Calling
    <3>2. CASE m.result # "expired"
      <4>1. plugin'[i].started = plugin[i].started /\ plugin'[i].code = plugin[i].code
        BY <3>2, <2>1, <2>2, <1>0 DEF D!AfterPoll, D!Accepted, D!Results, D!Plugin
      <4> QED BY <4>1 DEF Calling
    <3> QED BY <3>1, <3>2
  <2> QED BY <2>1, <2>2, <2>3, <1>c
<1>13. ASSUME NEW m \in net, NEW c \in Codes, D!startSession(m, c) PROVE Calls'
  <2>1. PICK a : a = D!Answer(m, "started", c, D!None)
    OBVIOUS
  <2>2. a.from = m.from /\ a.kind = "started"
    BY <2>1, <1>0, AnswersShaped, Names
  <2> QED BY <2>1, <2>2, <1>13, <1>b DEF D!startSession
<1>14. ASSUME NEW c \in Codes, D!Expire(c) PROVE Calls'
  BY <1>14 DEF D!Expire, Calls, Calling, Awaiting, D!Mine
<1>15. ASSUME NEW m \in net, NEW r \in D!Results, D!pollPairing(m, r) PROVE Calls'
  <2>1. PICK a : a = D!Answer(m, "polled", m.code, r)
    OBVIOUS
  <2> QED BY <2>1, <1>15, <1>b DEF D!pollPairing
<1>16. ASSUME NEW m \in net, D!Fail(m) PROVE Calls'
  <2>1. PICK a : a = IF m.kind \in {"start", "started"} THEN D!Answer(m, "started", D!None, D!None)
                     ELSE D!Answer(m, "polled", m.code, "error")
    OBVIOUS
  <2>2. m.kind \in {"start", "started"} => a.from = m.from /\ a.kind = "started"
    BY <2>1, <1>0, AnswersShaped, Names
  <2> QED BY <2>1, <2>2, <1>16, <1>b DEF D!Fail
<1>17. ASSUME NEW i \in Instances, D!PageTyped(i) PROVE Calls'
  BY <1>17 DEF D!PageTyped, Calls, Calling, Awaiting, D!Mine
<1>18. ASSUME D!approvePairing PROVE Calls'
  BY <1>18 DEF D!approvePairing, Calls, Calling, Awaiting, D!Mine
<1>19. CASE UNCHANGED host
  BY <1>19 DEF host, Calls, Calling, Awaiting, D!Mine
<1> QED BY <1>1, <1>2, <1>3, <1>4, <1>5, <1>6, <1>7, <1>8, <1>9, <1>10, <1>11, <1>12, <1>13, <1>14, <1>15, <1>16, <1>17, <1>18, <1>19 DEF D!Next, D!Handles, D!Serves

LEMMA PromptingKept ==
    ASSUME HostTyped, Prompting, [D!Next]_host
    PROVE  Prompting' /\ D!CoreKept
<1>0. /\ \A i \in Instances : plugin[i] \in D!Plugin /\ prompts[i] \in SUBSET {"base", "run"}
      /\ plugin \in [Instances -> D!Plugin] /\ prompts \in [Instances -> SUBSET {"base", "run"}]
      /\ Shaped
  BY DEF HostTyped, D!TypeOK
<1>1. D!Unloaded.loaded = FALSE /\ D!Unloaded.granted = FALSE /\ D!Unloaded.run = "no"
      /\ D!Unloaded.read = "unread"
  BY DEF D!Unloaded
<1>a. ASSUME NEW i \in Instances,
             \A j \in Instances \ {i} : plugin'[j] = plugin[j] /\ prompts'[j] = prompts[j],
             "base" \in prompts'[i] => ~plugin'[i].granted,
             "run" \in prompts'[i] => plugin'[i].granted /\ plugin'[i].run = "asked",
             ~plugin'[i].loaded => plugin'[i] = D!Unloaded,
             plugin[i].granted /\ plugin'[i].loaded => plugin'[i].granted
      PROVE  Prompting' /\ D!CoreKept
  <2>1. Prompting'
    BY <1>a DEF Prompting
  <2>2. D!CoreKept
    BY <1>a DEF D!CoreKept
  <2> QED BY <2>1, <2>2
<1>b. ASSUME UNCHANGED <<plugin, prompts>> PROVE Prompting' /\ D!CoreKept
  BY <1>b DEF Prompting, D!CoreKept
<1>c. ASSUME NEW i \in Instances, UNCHANGED prompts, \A j \in Instances \ {i} : plugin'[j] = plugin[j],
             plugin[i].loaded, plugin'[i].loaded = plugin[i].loaded,
             plugin'[i].granted = plugin[i].granted, plugin'[i].run = plugin[i].run
      PROVE  Prompting' /\ D!CoreKept
  BY <1>a, <1>c DEF Prompting
<1>2. ASSUME NEW i \in Instances, NEW set \in Settings[i], D!Load(i, set) PROVE Prompting' /\ D!CoreKept
  <2>1. \A j \in Instances \ {i} : plugin'[j] = plugin[j] /\ prompts'[j] = prompts[j]
    BY <1>2, <1>0 DEF D!Load
  <2>2. plugin'[i].loaded = TRUE /\ plugin'[i].granted = FALSE /\ prompts'[i] = {"base"}
    BY <1>2, <1>0 DEF D!Load, D!Unloaded
  <2>3. ~plugin[i].granted
    BY <1>2, <1>1 DEF D!Load, Prompting
  <2> QED BY <2>1, <2>2, <2>3, <1>a
<1>3. ASSUME NEW i \in Instances, D!Unload(i) PROVE Prompting' /\ D!CoreKept
  <2>1. \A j \in Instances \ {i} : plugin'[j] = plugin[j] /\ prompts'[j] = prompts[j]
    BY <1>3, <1>0 DEF D!Unload
  <2>2. plugin'[i] = D!Unloaded /\ prompts'[i] = {}
    BY <1>3, <1>0 DEF D!Unload
  <2> QED BY <2>1, <2>2, <1>1, <1>a
<1>4. ASSUME NEW i \in Instances, NEW what \in {"base", "run"}, D!Grant(i, what) PROVE Prompting' /\ D!CoreKept
  <2>1. \A j \in Instances \ {i} : plugin'[j] = plugin[j] /\ prompts'[j] = prompts[j]
    BY <1>4, <1>0 DEF D!Grant
  <2>2. PICK p : p = [plugin[i] EXCEPT !.granted = TRUE, !.run = IF @ = "asked" THEN "granted" ELSE @]
    OBVIOUS
  <2>3. PICK q : q = IF D!BeginsPairing(plugin[i]) THEN D!startPairing(i, p) ELSE p
    OBVIOUS
  <2>4. plugin'[i] = D!ensured(q)
        /\ prompts'[i] = (prompts[i] \ {what}) \cup (IF D!AsksForHostname(q) THEN {"run"} ELSE {})
    BY <2>2, <2>3, <1>4, <1>0 DEF D!Grant
  <2>5. p \in D!Plugin /\ p.granted /\ p.loaded = plugin[i].loaded /\ p.run # "asked"
    <3>1. PICK r : r = IF plugin[i].run = "asked" THEN "granted" ELSE plugin[i].run
      OBVIOUS
    <3>2. r \in {"no", "granted"}
      BY <3>1, <1>0 DEF D!Plugin
    <3>3. p = [plugin[i] EXCEPT !.granted = TRUE, !.run = r]
      BY <2>2, <3>1
    <3>4. p \in D!Plugin
      <4>0. PICK b \in D!Plugin : b = plugin[i]
        BY <1>0
      <4>a. [b EXCEPT !.granted = TRUE] \in D!Plugin
        BY DEF D!Plugin
      <4>1. [plugin[i] EXCEPT !.granted = TRUE] \in D!Plugin
        BY <4>0, <4>a
      <4>2. PICK g \in D!Plugin : g = [plugin[i] EXCEPT !.granted = TRUE]
        BY <4>1
      <4>3. p = [g EXCEPT !.run = r]
        BY <3>3, <4>2
      <4> QED BY ZenonT(40), <4>2, <4>3, <3>2 DEF D!Plugin
    <3>5. p.loaded = plugin[i].loaded
      BY <3>3, <1>0 DEF D!Plugin
    <3>6. p.run = r
      BY <3>3, <1>0 DEF D!Plugin
    <3>7. p.granted = TRUE
      BY <3>3, <1>0 DEF D!Plugin
    <3> QED BY <3>2, <3>4, <3>5, <3>6, <3>7
  <2>6. q \in D!Plugin /\ q.granted /\ q.loaded = plugin[i].loaded /\ q.run # "asked"
    BY <2>3, <2>5 DEF D!startPairing, D!Plugin
  <2>7. plugin'[i].granted /\ plugin'[i].loaded = plugin[i].loaded
        /\ (D!AsksForHostname(q) => plugin'[i].run = "asked")
    BY <2>4, <2>6 DEF D!ensured, D!Plugin
  <2>8. "base" \notin prompts'[i]
    BY <2>4, <1>4, <1>0 DEF Prompting, D!Grant
  <2>9. "run" \in prompts'[i] => D!AsksForHostname(q)
    BY <2>4, <1>4, <1>0 DEF Prompting, D!Grant
  <2>10. plugin[i].loaded
    BY <1>4 DEF D!Grant, D!Free
  <2> QED BY <2>1, <2>7, <2>8, <2>9, <2>10, <1>a
<1>5. ASSUME NEW i \in Instances, NEW what \in {"base", "run"}, D!Deny(i, what) PROVE Prompting' /\ D!CoreKept
  <2>1. \A j \in Instances \ {i} : plugin'[j] = plugin[j] /\ prompts'[j] = prompts[j]
    BY <1>5, <1>0 DEF D!Deny
  <2>2. PICK p : p = [plugin[i] EXCEPT !.granted = IF D!OptionalDenied(plugin[i]) THEN @ ELSE FALSE]
    OBVIOUS
  <2>3. plugin'[i] = p /\ prompts'[i] = prompts[i] \ {what} /\ what \in prompts[i] /\ plugin[i].loaded
    BY <2>2, <1>5, <1>0 DEF D!Deny, D!Free
  <2>4. p.loaded = plugin[i].loaded /\ p.run = plugin[i].run
        /\ p.granted = (D!OptionalDenied(plugin[i]) /\ plugin[i].granted)
    BY <2>2, <1>0 DEF D!Plugin, D!OptionalDenied
  <2>5. plugin[i].granted => what = "run" /\ D!OptionalDenied(plugin[i])
    BY <2>3 DEF Prompting, D!OptionalDenied
  <2>6. p.granted <=> plugin[i].granted
    BY <2>4, <2>5
  <2>7. "base" \in prompts'[i] => ~plugin'[i].granted
    BY <2>3, <2>6 DEF Prompting
  <2>8. "run" \in prompts'[i] => plugin'[i].granted /\ plugin'[i].run = "asked"
    BY <2>3, <2>4, <2>6 DEF Prompting
  <2>9. plugin'[i].loaded /\ (plugin[i].granted => plugin'[i].granted)
    BY <2>3, <2>4, <2>6
  <2> QED BY <2>1, <2>7, <2>8, <2>9, <1>a
<1>6. ASSUME NEW i \in Instances, D!Hostname(i) PROVE Prompting' /\ D!CoreKept
  <2>1. /\ \A j \in Instances \ {i} : plugin'[j] = plugin[j]
        /\ plugin'[i].loaded = plugin[i].loaded
        /\ plugin'[i].granted = plugin[i].granted /\ plugin'[i].run = plugin[i].run
    BY <1>6, <1>0 DEF D!Hostname, D!Plugin
  <2>2. plugin[i].loaded
    BY <1>6, <1>1 DEF D!Hostname, D!Free, D!Pairs, Prompting
  <2> QED BY <2>1, <2>2, <1>6, <1>c DEF D!Hostname
<1>7. ASSUME NEW i \in Instances, NEW set \in Settings[i], D!Configure(i, set) PROVE Prompting' /\ D!CoreKept
  <2>1. \A j \in Instances \ {i} : plugin'[j] = plugin[j] /\ prompts'[j] = prompts[j]
    BY <1>7, <1>0 DEF D!Configure
  <2>2. PICK p : p = [plugin[i] EXCEPT !.token = D!EffectiveToken(set.own), !.wants = set.wants,
                        !.active = IF D!EffectiveToken(set.own) # D!None THEN FALSE ELSE @]
    OBVIOUS
  <2>3. plugin'[i] = D!ensured(p)
        /\ prompts'[i] = prompts[i] \cup (IF D!AsksForHostname(p) THEN {"run"} ELSE {}) /\ plugin[i].loaded
    BY <2>2, <1>7, <1>0 DEF D!Configure, D!Free
  <2>4. /\ p.granted = plugin[i].granted /\ p.loaded = plugin[i].loaded /\ p.run = plugin[i].run
        /\ D!ensured(p).granted = p.granted /\ D!ensured(p).loaded = p.loaded
        /\ D!ensured(p).run = IF D!AsksForHostname(p) THEN "asked" ELSE p.run
    BY <2>2, <1>0 DEF D!ensured, D!Plugin
  <2>5. D!AsksForHostname(p) => p.granted
    BY DEF D!AsksForHostname
  <2>6. "base" \in prompts'[i] => ~plugin'[i].granted
    BY <2>3, <2>4 DEF Prompting
  <2>7. "run" \in prompts'[i] => plugin'[i].granted /\ plugin'[i].run = "asked"
    BY <2>3, <2>4, <2>5 DEF Prompting
  <2>8. plugin'[i].loaded /\ (plugin[i].granted => plugin'[i].granted)
    BY <2>3, <2>4
  <2> QED BY <2>1, <2>6, <2>7, <2>8, <1>a
<1>8. ASSUME NEW i \in Instances, D!TimerStart(i) PROVE Prompting' /\ D!CoreKept
  <2>1. /\ \A j \in Instances \ {i} : plugin'[j] = plugin[j]
        /\ plugin'[i].loaded = plugin[i].loaded
        /\ plugin'[i].granted = plugin[i].granted /\ plugin'[i].run = plugin[i].run
    BY <1>8, <1>0 DEF D!TimerStart, D!Plugin, D!startPairing
  <2>2. plugin[i].loaded
    BY <1>8, <1>1 DEF D!TimerStart, D!Free, D!Pairs, Prompting
  <2> QED BY <2>1, <2>2, <1>8, <1>c DEF D!TimerStart
<1>9. ASSUME NEW i \in Instances, D!TimerPoll(i) PROVE Prompting' /\ D!CoreKept
  BY <1>9, <1>b DEF D!TimerPoll
<1>10. ASSUME NEW i \in Instances, D!TimerResolve(i) PROVE Prompting' /\ D!CoreKept
  <2>1. /\ \A j \in Instances \ {i} : plugin'[j] = plugin[j]
        /\ plugin'[i].loaded = plugin[i].loaded
        /\ plugin'[i].granted = plugin[i].granted /\ plugin'[i].run = plugin[i].run
    BY ZenonT(40), <1>10, <1>0 DEF D!TimerResolve, D!Plugin
  <2>2. plugin[i].loaded
    BY <1>10, <1>1 DEF D!TimerResolve, D!Free, D!Pairs, Prompting
  <2> QED BY <2>1, <2>2, <1>10, <1>c DEF D!TimerResolve
<1>11. ASSUME NEW i \in Instances, D!Resolved(i) PROVE Prompting' /\ D!CoreKept
  <2>1. /\ \A j \in Instances \ {i} : plugin'[j] = plugin[j]
        /\ plugin'[i].loaded = plugin[i].loaded
        /\ plugin'[i].granted = plugin[i].granted /\ plugin'[i].run = plugin[i].run
    BY <1>11, <1>0 DEF D!Resolved, D!Plugin
  <2>2. plugin[i].loaded
    BY <1>11, <1>1 DEF D!Resolved, D!Free, D!Pairs, Prompting
  <2> QED BY <2>1, <2>2, <1>11, <1>c DEF D!Resolved
<1>12. ASSUME NEW i \in Instances, NEW m \in net, D!OnPairStart(i, m) PROVE Prompting' /\ D!CoreKept
  <2>1. /\ \A j \in Instances \ {i} : plugin'[j] = plugin[j]
        /\ plugin'[i].loaded = plugin[i].loaded
        /\ plugin'[i].granted = plugin[i].granted /\ plugin'[i].run = plugin[i].run
    BY <1>12, <1>0 DEF D!OnPairStart, D!Plugin, D!StartFailed
  <2>2. plugin[i].loaded
    BY <1>12, <1>1 DEF D!OnPairStart, D!Free, D!Pairs, Prompting
  <2> QED BY <2>1, <2>2, <1>12, <1>c DEF D!OnPairStart
<1>13. ASSUME NEW i \in Instances, NEW m \in net, D!OnPairPoll(i, m) PROVE Prompting' /\ D!CoreKept
  <2>1. m.result \in D!Results /\ plugin[i].loaded
    BY <1>13, <1>0 DEF D!OnPairPoll, D!Mine, D!Free, Shaped
  <2>2. plugin'[i] = D!AfterPoll(plugin[i], m) /\ \A j \in Instances \ {i} : plugin'[j] = plugin[j]
    BY <1>13, <1>0 DEF D!OnPairPoll
  <2>3. plugin'[i].loaded = plugin[i].loaded /\ plugin'[i].granted = plugin[i].granted
        /\ plugin'[i].run = plugin[i].run
    <3>1. CASE m.result = "approved"
      <4>1. plugin'[i] = [plugin[i] EXCEPT !.token = m.code, !.active = FALSE, !.done = TRUE]
        BY <3>1, <2>2 DEF D!AfterPoll, D!Accepted
      <4> QED BY <4>1, <1>0 DEF D!Plugin
    <3>2. CASE m.result = "expired"
      <4>1. plugin'[i] = [plugin[i] EXCEPT !.code = D!None, !.started = FALSE]
        BY <3>2, <2>2 DEF D!AfterPoll
      <4> QED BY <4>1, <1>0 DEF D!Plugin
    <3>3. CASE m.result \notin {"approved", "expired"}
      <4>1. plugin'[i] \in {plugin[i], [plugin[i] EXCEPT !.done = TRUE]}
        BY <3>3, <2>1, <2>2 DEF D!AfterPoll, D!Results
      <4> QED BY <4>1, <1>0 DEF D!Plugin
    <3> QED BY <3>1, <3>2, <3>3
  <2> QED BY <2>1, <2>2, <2>3, <1>13, <1>c DEF D!OnPairPoll
<1>14. ASSUME NEW m \in net, NEW c \in Codes, D!startSession(m, c) PROVE Prompting' /\ D!CoreKept
  BY <1>14, <1>b DEF D!startSession
<1>15. ASSUME NEW c \in Codes, D!Expire(c) PROVE Prompting' /\ D!CoreKept
  BY <1>15, <1>b DEF D!Expire
<1>16. ASSUME NEW m \in net, NEW r \in D!Results, D!pollPairing(m, r) PROVE Prompting' /\ D!CoreKept
  BY <1>16, <1>b DEF D!pollPairing
<1>17. ASSUME NEW m \in net, D!Fail(m) PROVE Prompting' /\ D!CoreKept
  BY <1>17, <1>b DEF D!Fail
<1>18. ASSUME NEW i \in Instances, D!PageTyped(i) PROVE Prompting' /\ D!CoreKept
  BY <1>18, <1>b DEF D!PageTyped
<1>19. ASSUME D!approvePairing PROVE Prompting' /\ D!CoreKept
  BY <1>19, <1>b DEF D!approvePairing
<1>20. CASE UNCHANGED host
  BY <1>20, <1>b DEF host
<1> QED BY <1>2, <1>3, <1>4, <1>5, <1>6, <1>7, <1>8, <1>9, <1>10, <1>11, <1>12, <1>13, <1>14, <1>15, <1>16, <1>17, <1>18, <1>19, <1>20 DEF D!Next, D!Handles, D!Serves

LEMMA TokenStays ==
    ASSUME HostTyped, Prompting, [D!Next]_host
    PROVE  D!TokenKept
<1>0. /\ \A i \in Instances : plugin[i] \in D!Plugin
      /\ plugin \in [Instances -> D!Plugin] /\ Shaped
  BY DEF HostTyped, D!TypeOK
<1>a. ASSUME NEW i \in Instances, \A j \in Instances \ {i} : plugin'[j] = plugin[j],
             D!hasToken(i) /\ files.token # D!None /\ plugin'[i].loaded => plugin'[i].token # D!None
      PROVE  D!TokenKept
  BY <1>a DEF D!TokenKept, D!hasToken
<1>b. ASSUME \A j \in Instances : plugin'[j].token = plugin[j].token PROVE D!TokenKept
  BY <1>b DEF D!TokenKept, D!hasToken
<1>1. ASSUME NEW i \in Instances, NEW set \in Settings[i], D!Load(i, set) PROVE D!TokenKept
  <2>1. plugin[i] = D!Unloaded /\ \A j \in Instances \ {i} : plugin'[j] = plugin[j]
    BY <1>1, <1>0 DEF D!Load, Prompting
  <2>2. ~D!hasToken(i)
    BY <2>1 DEF D!hasToken, D!Unloaded
  <2> QED BY <2>1, <2>2, <1>a
<1>2. ASSUME NEW i \in Instances, D!Unload(i) PROVE D!TokenKept
  <2>1. plugin'[i].loaded = FALSE /\ \A j \in Instances \ {i} : plugin'[j] = plugin[j]
    BY <1>2, <1>0 DEF D!Unload, D!Unloaded
  <2> QED BY <2>1, <1>a
<1>3. ASSUME NEW i \in Instances, NEW what \in {"base", "run"}, D!Grant(i, what) PROVE D!TokenKept
  BY <1>3, <1>0, <1>b DEF D!Grant, D!Plugin, D!ensured, D!startPairing
<1>4. ASSUME NEW i \in Instances, NEW what \in {"base", "run"}, D!Deny(i, what) PROVE D!TokenKept
  BY <1>4, <1>0, <1>b DEF D!Deny, D!Plugin
<1>5. ASSUME NEW i \in Instances, D!Hostname(i) PROVE D!TokenKept
  BY <1>5, <1>0, <1>b DEF D!Hostname, D!Plugin
<1>6. ASSUME NEW i \in Instances, NEW set \in Settings[i], D!Configure(i, set) PROVE D!TokenKept
  <2>1. plugin'[i].token = D!EffectiveToken(set.own) /\ \A j \in Instances \ {i} : plugin'[j] = plugin[j]
    BY <1>6, <1>0 DEF D!Configure, D!ensured, D!Plugin
  <2>2. files.token # D!None => D!EffectiveToken(set.own) # D!None
    BY Names DEF D!EffectiveToken
  <2> QED BY <2>1, <2>2, <1>a
<1>7. ASSUME NEW i \in Instances, D!TimerStart(i) PROVE D!TokenKept
  BY <1>7, <1>0, <1>b DEF D!TimerStart, D!Plugin, D!startPairing
<1>8. ASSUME NEW i \in Instances, D!TimerPoll(i) PROVE D!TokenKept
  BY <1>8, <1>0, <1>b DEF D!TimerPoll, D!Plugin
<1>9. ASSUME NEW i \in Instances, D!TimerResolve(i) PROVE D!TokenKept
  BY <1>9, <1>0, <1>b DEF D!TimerResolve, D!Plugin
<1>10. ASSUME NEW i \in Instances, D!Resolved(i) PROVE D!TokenKept
  BY <1>10, <1>0, <1>b DEF D!Resolved, D!Plugin
<1>11. ASSUME NEW i \in Instances, NEW m \in net, D!OnPairStart(i, m) PROVE D!TokenKept
  BY <1>11, <1>0, <1>b DEF D!OnPairStart, D!Plugin, D!StartFailed
<1>12. ASSUME NEW i \in Instances, NEW m \in net, D!OnPairPoll(i, m) PROVE D!TokenKept
  <2>1. m.result \in D!Results /\ m.code # D!None
    BY <1>12, <1>0, Names DEF D!OnPairPoll, D!Mine, Shaped
  <2>2. plugin'[i] = D!AfterPoll(plugin[i], m) /\ \A j \in Instances \ {i} : plugin'[j] = plugin[j]
    BY <1>12, <1>0 DEF D!OnPairPoll
  <2>3. plugin'[i].token \in {plugin[i].token, m.code}
    BY <2>1, <2>2, <1>0 DEF D!AfterPoll, D!Accepted, D!Results, D!Plugin
  <2> QED BY <2>1, <2>2, <2>3, <1>a DEF D!hasToken
<1>13. ASSUME NEW m \in net, NEW c \in Codes, D!startSession(m, c) PROVE D!TokenKept
  BY <1>13, <1>b DEF D!startSession
<1>14. ASSUME NEW c \in Codes, D!Expire(c) PROVE D!TokenKept
  BY <1>14, <1>b DEF D!Expire
<1>15. ASSUME NEW m \in net, NEW r \in D!Results, D!pollPairing(m, r) PROVE D!TokenKept
  BY <1>15, <1>b DEF D!pollPairing
<1>16. ASSUME NEW m \in net, D!Fail(m) PROVE D!TokenKept
  BY <1>16, <1>b DEF D!Fail
<1>17. ASSUME NEW i \in Instances, D!PageTyped(i) PROVE D!TokenKept
  BY <1>17, <1>b DEF D!PageTyped
<1>18. ASSUME D!approvePairing PROVE D!TokenKept
  BY <1>18, <1>b DEF D!approvePairing
<1>19. CASE UNCHANGED host
  BY <1>19, <1>b DEF host
<1> QED BY <1>1, <1>2, <1>3, <1>4, <1>5, <1>6, <1>7, <1>8, <1>9, <1>10, <1>11, <1>12, <1>13, <1>14, <1>15, <1>16, <1>17, <1>18, <1>19 DEF D!Next, D!Handles, D!Serves

LEMMA HostInvStarts == D!Init => HostInv
<1> SUFFICES ASSUME D!Init PROVE HostInv
  OBVIOUS
<1>1. Calls /\ Prompting
  BY DEF D!Init, Calls, Calling, Prompting, D!Unloaded
<1> QED BY <1>1, HostStarts, SessionsStart DEF HostInv

LEMMA HostInvKept ==
    ASSUME HostInv, [D!Next]_host
    PROVE  HostInv'
BY TypesKept, SessionsKept, CallsKept, PromptingKept DEF HostInv

LEMMA HostInvEnough ==
    ASSUME HostInv
    PROVE  PairingSound
<1>1. D!TypeOK
  BY DEF HostInv, HostTyped
<1>2. D!TokenAccounted
  BY DEF HostInv, SessionsInv, Accounted, Sold, Owed, D!TokenAccounted
<1>3. D!TokenApproved
  BY Names DEF HostInv, SessionsInv, TokensSold, Vouched, Sold, D!TokenApproved
<1>4. D!StartPending
  BY Names DEF HostInv, Calls, Calling, Awaiting, D!StartPending
<1> QED BY <1>1, <1>2, <1>3, <1>4 DEF PairingSound

LEMMA HostSteps == [MCNext]_<<vars, host, part>> => [D!Next]_host
BY DEF MCNext, host

(* The life of the instances of a host, for any number of them, of codes and *)
(* of polls on their way: no token is lost by an answer that comes late,     *)
(* none is taken that the owner did not approve, and pairing never wedges.   *)
THEOREM PairingKept == MCSpec => []PairingSound
<1>1. MCInit => HostInv
  BY HostInvStarts DEF MCInit
<1>2. HostInv /\ [MCNext]_<<vars, host, part>> => HostInv'
  BY HostInvKept, HostSteps
<1>3. HostInv => PairingSound
  BY HostInvEnough
<1> QED BY <1>1, <1>2, <1>3, PTL DEF MCSpec

(* ... and what an instance was granted, or has as a token while /cache has  *)
(* one, it keeps until it is unloaded.                                       *)
THEOREM InstancesKeep == MCSpec => NothingRevoked
<1>1. MCInit => HostInv
  BY HostInvStarts DEF MCInit
<1>2. HostInv /\ [MCNext]_<<vars, host, part>> => HostInv'
  BY HostInvKept, HostSteps
<1>3. HostInv /\ [MCNext]_<<vars, host, part>> => [D!CoreKept /\ D!TokenKept]_host
  BY HostSteps, PromptingKept, TokenStays DEF HostInv
<1> QED BY <1>1, <1>2, <1>3, PTL DEF MCSpec, NothingRevoked

-----------------------------------------------------------------------------
(* What one instance says.  The gate in its own shape, whatever a snapshot   *)
(* contains: what is unsent appeared after the last send, and the debounce   *)
(* and the longest heartbeat since that send are not over.                   *)
Unsent == gate.sent /\ gate.last.structure # sample.structure
GateShape ==
    /\ wall \in Nat /\ since \in Nat
    /\ gate = [sent |-> gate.sent, last |-> gate.last, at |-> gate.at, watched |-> gate.watched,
               force |-> gate.force, heartbeat |-> gate.heartbeat]
    /\ gate.sent \in BOOLEAN /\ gate.at \in Nat /\ gate.heartbeat \in HeartbeatMin..HeartbeatMax
GateInv ==
    /\ GateShape
    /\ gate.at <= wall
    /\ Unsent => gate.at < since /\ wall - gate.at < OnsetDebounce
    /\ SilenceBounded

LEMMA Numbers ==
    /\ OnsetDebounce \in Nat /\ OnsetDebounce > 0 /\ StaleTicks \in Nat /\ MaxEvents \in Nat
    /\ HeartbeatMin \in Nat /\ HeartbeatMax \in Nat /\ HeartbeatMax > 0 /\ Prices \subseteq Int
    /\ HeartbeatDefault \in HeartbeatMin..HeartbeatMax /\ MaxWall \in Nat
BY GateAssumption, PluginAssumption DEF Prices, Unpriced

(* A tick sends what it sampled, or it stays silent for a reason.            *)
LEMMA TickOutcome ==
    ASSUME GateShape, NEW sig, Tick(sig)
    PROVE  /\ wall' = wall + 1 /\ sample' = sig
           /\ since' = IF sig.structure = sample.structure THEN since ELSE wall'
           /\ GateShape'
           /\ \/ gate'.sent /\ gate'.last = sig /\ gate'.at = wall'
              \/ /\ gate' = gate /\ gate.sent
                 /\ gate.last.structure # sig.structure => wall' - gate.at < OnsetDebounce
                 /\ wall' - gate.at < gate.heartbeat
<1>0. wall' = wall + 1 /\ sample' = sig
      /\ since' = (IF sig.structure = sample.structure THEN since ELSE wall')
  BY DEF Tick
<1>1. wall' \in Nat /\ since' \in Nat
  BY <1>0 DEF GateShape
<1>2. CASE Decide(sig)
  <2>1. gate' = [gate EXCEPT !.sent = TRUE, !.last = sig, !.at = wall', !.force = FALSE]
    BY <1>2 DEF Tick, Sent
  <2>2. gate' = [sent |-> TRUE, last |-> sig, at |-> wall', watched |-> gate.watched,
                 force |-> FALSE, heartbeat |-> gate.heartbeat]
    BY <2>1 DEF GateShape
  <2>3. gate'.sent /\ gate'.last = sig /\ gate'.at = wall' /\ gate'.watched = gate.watched
        /\ gate'.force = FALSE /\ gate'.heartbeat = gate.heartbeat /\ gate'.sent = TRUE
    BY <2>2
  <2>4. GateShape'
    BY <2>2, <2>3, <1>1 DEF GateShape
  <2> QED BY <1>0, <2>3, <2>4
<1>3. CASE ~Decide(sig)
  <2>1. gate' = gate
    BY <1>3 DEF Tick
  <2>2. gate.sent /\ (gate.last.structure # sig.structure => ~(wall' - gate.at >= OnsetDebounce))
        /\ ~(wall' - gate.at >= gate.heartbeat)
    BY <1>3 DEF Decide, First, Notable, Heartbeat, Elapsed
  <2>3. wall' - gate.at \in Int /\ gate.heartbeat \in Int /\ OnsetDebounce \in Int
    BY <1>1, Numbers DEF GateShape
  <2>4. GateShape'
    BY <2>1, <1>1 DEF GateShape
  <2> QED BY <1>0, <2>1, <2>2, <2>3, <2>4
<1> QED BY <1>2, <1>3

(* A control response re-prices the gate within the clamps, and no more.     *)
LEMMA HurryOutcome ==
    ASSUME GateShape, NEW watched \in BOOLEAN, NEW refresh \in BOOLEAN, NEW secs \in Prices,
           Hurry(watched, secs, refresh)
    PROVE  /\ UNCHANGED <<wall, sample, since>> /\ GateShape'
           /\ gate'.sent = gate.sent /\ gate'.last = gate.last /\ gate'.at = gate.at
<1>1. PICK h : h = IF secs = Unpriced THEN gate.heartbeat ELSE Clamped(secs)
  OBVIOUS
<1>2. h \in HeartbeatMin..HeartbeatMax
  BY <1>1, Numbers DEF Clamped, GateShape
<1>3. PICK f : f = (gate.force \/ (watched /\ ~gate.watched) \/ refresh)
  OBVIOUS
<1>4. gate' = [gate EXCEPT !.watched = watched, !.heartbeat = h, !.force = f]
  BY <1>1, <1>3 DEF Hurry, Hurried
<1>5. gate' = [sent |-> gate.sent, last |-> gate.last, at |-> gate.at, watched |-> watched,
               force |-> f, heartbeat |-> h]
  BY <1>4 DEF GateShape
<1>6. gate'.sent = gate.sent /\ gate'.last = gate.last /\ gate'.at = gate.at
      /\ gate'.watched = watched /\ gate'.force = f /\ gate'.heartbeat = h
  BY <1>5
<1>7. UNCHANGED <<wall, sample, since>>
  BY DEF Hurry
<1> QED BY <1>2, <1>5, <1>6, <1>7 DEF GateShape

LEMMA GateStarts == Init => GateInv
<1> SUFFICES ASSUME Init PROVE GateInv
  OBVIOUS
<1>1. wall = 0 /\ since = 0
      /\ gate = [sent |-> FALSE, last |-> sample, at |-> 0, watched |-> FALSE, force |-> FALSE,
                 heartbeat |-> HeartbeatDefault]
  BY DEF Init
<1>2. gate.sent = FALSE /\ gate.last = sample /\ gate.at = 0 /\ gate.watched = FALSE
      /\ gate.force = FALSE /\ gate.heartbeat = HeartbeatDefault
  BY <1>1
<1>3. GateShape
  BY <1>1, <1>2, Numbers DEF GateShape
<1> QED BY <1>1, <1>2, <1>3 DEF GateInv, Unsent, SilenceBounded

LEMMA GateKept ==
    ASSUME GateInv, [Next]_vars
    PROVE  GateInv'
<1>0. /\ GateShape /\ wall \in Nat /\ since \in Nat /\ gate.at \in Nat /\ gate.at <= wall
      /\ gate.heartbeat \in Nat /\ gate.heartbeat <= HeartbeatMax
  BY Numbers DEF GateInv, GateShape
<1>1. CASE TelemetryTick
  <2>1. PICK sig : sig = Snapshot /\ Tick(sig)
    BY <1>1 DEF TelemetryTick
  <2>2. /\ wall' = wall + 1 /\ sample' = sig
        /\ since' = IF sig.structure = sample.structure THEN since ELSE wall'
        /\ GateShape'
        /\ \/ gate'.sent /\ gate'.last = sig /\ gate'.at = wall'
           \/ /\ gate' = gate /\ gate.sent
              /\ gate.last.structure # sig.structure => wall' - gate.at < OnsetDebounce
              /\ wall' - gate.at < gate.heartbeat
    BY <2>1, <1>0, TickOutcome
  <2>3. CASE gate'.sent /\ gate'.last = sig /\ gate'.at = wall'
    <3>1. wall' - gate'.at = 0 /\ gate'.at <= wall'
      BY <2>2, <2>3, <1>0
    <3>2. ~Unsent'
      BY <2>2, <2>3 DEF Unsent
    <3>3. SilenceBounded'
      BY <3>1, Numbers DEF SilenceBounded
    <3> QED BY <2>2, <3>1, <3>2, <3>3 DEF GateInv
  <2>4. CASE /\ gate' = gate /\ gate.sent
             /\ gate.last.structure # sig.structure => wall' - gate.at < OnsetDebounce
             /\ wall' - gate.at < gate.heartbeat
    <3>1. gate'.at <= wall'
      BY <2>2, <2>4, <1>0
    <3>2. SilenceBounded'
      BY <2>2, <2>4, <1>0, Numbers DEF SilenceBounded
    <3>3. Unsent' => gate'.at < since' /\ wall' - gate'.at < OnsetDebounce
      <4> SUFFICES ASSUME gate.last.structure # sig.structure
                   PROVE  gate.at < since' /\ wall' - gate.at < OnsetDebounce
        BY <2>2, <2>4 DEF Unsent
      <4>1. CASE sig.structure = sample.structure
        BY <4>1, <2>2, <2>4 DEF GateInv, Unsent
      <4>2. CASE sig.structure # sample.structure
        BY <4>2, <2>2, <2>4, <1>0
      <4> QED BY <4>1, <4>2
    <3> QED BY <2>2, <3>1, <3>2, <3>3 DEF GateInv
  <2> QED BY <2>2, <2>3, <2>4
<1>2. ASSUME NEW watched \in BOOLEAN, NEW refresh \in BOOLEAN, NEW secs \in Prices,
             ControlResponse(watched, secs, refresh)
      PROVE  GateInv'
  <2>1. UNCHANGED <<wall, sample, since>> /\ GateShape'
        /\ gate'.sent = gate.sent /\ gate'.last = gate.last /\ gate'.at = gate.at
    BY <1>2, <1>0, HurryOutcome DEF ControlResponse
  <2> QED BY <2>1 DEF GateInv, Unsent, SilenceBounded
<1>3. CASE UNCHANGED gateVars
  BY <1>3 DEF gateVars, GateInv, GateShape, Unsent, SilenceBounded
<1>4. \/ TelemetryTick \/ UNCHANGED gateVars
      \/ \E watched, refresh \in BOOLEAN, secs \in Prices : ControlResponse(watched, secs, refresh)
  BY DEF Next, Writes, Retitles, Closes, PaneRenderReport, Attaches, SessionUpdate,
         PluginConfigurationChanged, vars
<1> QED BY <1>1, <1>2, <1>3, <1>4

LEMMA GateEnough ==
    ASSUME GateInv
    PROVE  SilenceBounded /\ OnsetPrompt
<1>1. wall \in Nat /\ gate.at \in Nat /\ since \in Nat /\ OnsetDebounce \in Nat
  BY Numbers DEF GateInv, GateShape
<1>2. OnsetPrompt
  BY <1>1 DEF GateInv, Unsent, OnsetPrompt
<1> QED BY <1>2 DEF GateInv

(* The session as it is and as it was told, and what touched it.             *)
Moments == {LongAgo} \cup 0..wall
WorldTyped ==
    /\ world \in [screen : [Panes -> Screen], title : [Panes -> Titles], open : SUBSET Panes, attached : BOOLEAN]
    /\ known \in [title : [Panes -> Titles], open : SUBSET Panes, attached : BOOLEAN]
    /\ world.open \subseteq known.open
    /\ raw \in Raws /\ wall \in Nat
    /\ cache \subseteq Panes /\ reports \subseteq Panes
    /\ events \in 0..MaxEvents /\ touched \in [Panes \cup {None} -> {LongAgo} \cup 0..wall]

Visible == [look : Looks \cup {"gone", "unseen"}, version : {0, 1}]
Alerts == {<<"detached", None>>} \cup {"needs-input", "thinking"} \X Panes

LEMMA LongAgoInt == LongAgo \in Int
BY Numbers DEF LongAgo

LEMMA Looked ==
    ASSUME WorldTyped, NEW p \in Panes
    PROVE  Scrollback(p) \in Visible /\ Scrollback(p) # Unseen /\ Unseen \in Visible
<1>1. world.screen[p] \in Screen
  BY DEF WorldTyped
<1> QED BY <1>1 DEF Scrollback, Visible, Screen, Looks, Unseen

LEMMA AttentionsTyped ==
    ASSUME WorldTyped
    PROVE  Attentions \subseteq Alerts
<1>1. \A p : Detected(p) \subseteq {"needs-input", "thinking"}
  BY DEF Detected
<1>2. known.open \subseteq Panes
  BY DEF WorldTyped
<1> QED BY <1>1, <1>2 DEF Attentions, Alerts

LEMMA SnapshotTyped ==
    ASSUME WorldTyped
    PROVE  Snapshot.structure \in Structure
<1>0. /\ known.open \subseteq Panes /\ known.title \in [Panes -> Titles]
      /\ raw.machine \in {None, "real", "alias", "hidden", "alias:", "bad"}
  BY PluginAssumption DEF WorldTyped
<1>1. machineIdentity \in {None, "hostname", "alias"}
  <2>1. Config.machine = resolveMachine(parseFull(raw.full), raw.machine)
    BY DEF Config
  <2>2. Config.machine \in {"real", "alias", "hidden"}
    BY <2>1, <1>0 DEF resolveMachine, None
  <2> QED BY <2>2 DEF machineIdentity
<1>2. Attentions \in SUBSET ({<<"detached", None>>} \cup {"needs-input", "thinking"} \X Panes)
  BY AttentionsTyped DEF Alerts
<1>3. {p \in known.open : IsClaude(p)} \in SUBSET Panes /\ known.open \in SUBSET Panes
  BY <1>0
<1>4. nameToWire("session") \in {None, "session"}
  BY DEF nameToWire
<1>5. PICK f : f = [p \in known.open |-> nameToWire(known.title[p])]
  OBVIOUS
<1>6. f \in [known.open -> Titles \cup {None}]
  BY <1>0, <1>5 DEF nameToWire
<1>7. f \in UNION {[open -> Titles \cup {None}] : open \in SUBSET Panes}
  BY <1>0, <1>6
<1>8. Snapshot.structure = [machine |-> machineIdentity, panes |-> known.open, attentions |-> Attentions,
                            claude |-> {p \in known.open : IsClaude(p)}, session |-> nameToWire("session"),
                            titles |-> f]
  BY <1>5 DEF Snapshot
<1> QED BY <1>1, <1>2, <1>3, <1>4, <1>7, <1>8 DEF Structure

LEMMA EmptyTyped == Empty.structure \in Structure /\ Empty.structure.attentions = {}
<1>1. PICK f : f = <<>>
  OBVIOUS
<1>2. f \in [{} -> Titles \cup {None}]
  BY <1>1
<1>3. f \in UNION {[open -> Titles \cup {None}] : open \in SUBSET Panes}
  BY <1>2
<1>4. Empty.structure = [machine |-> None, panes |-> {}, attentions |-> {}, claude |-> {},
                         session |-> None, titles |-> f]
  BY <1>1 DEF Empty
<1> QED BY <1>3, <1>4 DEF Structure

(* Around the gate: every step but a tick, in one list.                      *)
LEMMA Around ==
    ASSUME [Next]_vars
    PROVE  \/ \E p \in Panes, look \in Looks : Writes(p, look)
           \/ \E p \in Panes, title \in Titles : Retitles(p, title)
           \/ \E p \in Panes : Closes(p) \/ PaneRenderReport(p)
           \/ Attaches \/ SessionUpdate
           \/ \E new \in Raws : PluginConfigurationChanged(new)
           \/ TelemetryTick
           \/ \E watched, refresh \in BOOLEAN, secs \in Prices : ControlResponse(watched, secs, refresh)
           \/ UNCHANGED vars
BY DEF Next

LEMMA WorldStarts == Init => WorldTyped
<1> SUFFICES ASSUME Init PROVE WorldTyped
  OBVIOUS
<1>1. world \in [screen : [Panes -> {[look |-> "shell", version |-> 0]}],
                 title : [Panes -> {"plain", "spinner"}], open : {Panes}, attached : {TRUE}]
      /\ known = [title |-> world.title, open |-> Panes, attached |-> TRUE]
      /\ raw \in Raws /\ wall = 0 /\ cache = {} /\ reports = {} /\ events = 0
      /\ touched = [p \in Panes \cup {None} |-> IF p = None THEN 0 ELSE LongAgo]
  BY DEF Init
<1>2. [look |-> "shell", version |-> 0] \in Screen
  BY DEF Screen, Looks
<1>3. world \in [screen : [Panes -> Screen], title : [Panes -> Titles], open : SUBSET Panes, attached : BOOLEAN]
      /\ world.open = Panes /\ world.title \in [Panes -> Titles]
  BY <1>1, <1>2 DEF Titles
<1>4. known \in [title : [Panes -> Titles], open : SUBSET Panes, attached : BOOLEAN] /\ known.open = Panes
  BY <1>1, <1>3
<1>5. 0 \in 0..MaxEvents
  BY Numbers
<1>6. touched \in [Panes \cup {None} -> {LongAgo} \cup 0..wall]
  BY <1>1
<1> QED BY <1>1, <1>3, <1>4, <1>5, <1>6 DEF WorldTyped

LEMMA WorldKept ==
    ASSUME WorldTyped, [Next]_vars
    PROVE  WorldTyped'
<1>0. /\ world.screen \in [Panes -> Screen] /\ world.title \in [Panes -> Titles]
      /\ world.open \in SUBSET Panes /\ world.attached \in BOOLEAN
      /\ world = [screen |-> world.screen, title |-> world.title, open |-> world.open, attached |-> world.attached]
      /\ world.open \subseteq known.open
      /\ known \in [title : [Panes -> Titles], open : SUBSET Panes, attached : BOOLEAN]
      /\ raw \in Raws /\ wall \in Nat /\ cache \subseteq Panes /\ reports \subseteq Panes
      /\ events \in 0..MaxEvents /\ touched \in [Panes \cup {None} -> {LongAgo} \cup 0..wall]
  BY DEF WorldTyped
<1>a. ASSUME Event PROVE events' \in 0..MaxEvents
  BY <1>a, <1>0, Numbers DEF Event
<1>b. ASSUME NEW what \in Panes \cup {None}, Touch(what), wall' = wall
      PROVE  touched' \in [Panes \cup {None} -> {LongAgo} \cup 0..wall']
  BY <1>b, <1>0 DEF Touch
<1>c. ASSUME NEW s \in [Panes -> Screen], NEW t \in [Panes -> Titles], NEW o \in SUBSET Panes,
             NEW a \in BOOLEAN, world' = [screen |-> s, title |-> t, open |-> o, attached |-> a],
             o \subseteq world.open, UNCHANGED known
      PROVE  /\ world' \in [screen : [Panes -> Screen], title : [Panes -> Titles], open : SUBSET Panes, attached : BOOLEAN]
             /\ world'.open \subseteq known'.open
  BY <1>c, <1>0
<1>1. ASSUME NEW p \in Panes, NEW look \in Looks, Writes(p, look) PROVE WorldTyped'
  <2>1. PICK s : s = [look |-> look, version |-> 1 - world.screen[p].version]
    OBVIOUS
  <2>2. s \in Screen
    BY <2>1, <1>0 DEF Screen
  <2>3. PICK f : f = [world.screen EXCEPT ![p] = s]
    OBVIOUS
  <2>4. f \in [Panes -> Screen]
    BY <2>2, <2>3, <1>0
  <2>5. world' = [screen |-> f, title |-> world.title, open |-> world.open, attached |-> world.attached]
    BY <2>1, <2>3, <1>1, <1>0 DEF Writes
  <2>6. reports' \subseteq Panes
    BY <1>1, <1>0 DEF Writes
  <2>7. touched' \in [Panes \cup {None} -> {LongAgo} \cup 0..wall'] /\ events' \in 0..MaxEvents
    BY <1>1, <1>a, <1>b DEF Writes, gateVars
  <2> QED BY <2>4, <2>5, <2>6, <2>7, <1>1, <1>0, <1>c DEF Writes, WorldTyped, gateVars
<1>2. ASSUME NEW p \in Panes, NEW title \in Titles, Retitles(p, title) PROVE WorldTyped'
  <2>1. PICK f : f = [world.title EXCEPT ![p] = title]
    OBVIOUS
  <2>2. f \in [Panes -> Titles]
    BY <2>1, <1>0
  <2>3. world' = [screen |-> world.screen, title |-> f, open |-> world.open, attached |-> world.attached]
    BY <2>1, <1>2, <1>0 DEF Retitles
  <2> QED BY <2>2, <2>3, <1>2, <1>0, <1>a, <1>c DEF Retitles, WorldTyped, gateVars
<1>3. ASSUME NEW p \in Panes, Closes(p) PROVE WorldTyped'
  <2>1. world' = [screen |-> world.screen, title |-> world.title, open |-> world.open \ {p}, attached |-> world.attached]
    BY <1>3, <1>0 DEF Closes
  <2>2. touched' \in [Panes \cup {None} -> {LongAgo} \cup 0..wall'] /\ events' \in 0..MaxEvents
    BY <1>3, <1>a, <1>b DEF Closes, gateVars
  <2> QED BY <2>1, <2>2, <1>3, <1>0, <1>c DEF Closes, WorldTyped, gateVars
<1>4. CASE Attaches
  <2>1. world' = [screen |-> world.screen, title |-> world.title, open |-> world.open, attached |-> ~world.attached]
    BY <1>4, <1>0 DEF Attaches
  <2> QED BY <2>1, <1>4, <1>0, <1>a, <1>c DEF Attaches, WorldTyped, gateVars
<1>5. CASE SessionUpdate
  <2>1. touched' \in [Panes \cup {None} -> {LongAgo} \cup 0..wall']
    BY <1>5, <1>b DEF SessionUpdate, gateVars
  <2>2. known' \in [title : [Panes -> Titles], open : SUBSET Panes, attached : BOOLEAN]
        /\ known'.open = world.open
    BY <1>5, <1>0 DEF SessionUpdate
  <2> QED BY <2>1, <2>2, <1>5, <1>0 DEF SessionUpdate, WorldTyped, gateVars
<1>6. ASSUME NEW p \in Panes, PaneRenderReport(p) PROVE WorldTyped'
  BY <1>6, <1>0 DEF PaneRenderReport, Recorded, WorldTyped, gateVars
<1>7. ASSUME NEW new \in Raws, PluginConfigurationChanged(new) PROVE WorldTyped'
  <2>1. touched' \in [Panes \cup {None} -> {LongAgo} \cup 0..wall'] /\ events' \in 0..MaxEvents
    BY <1>7, <1>a, <1>b DEF PluginConfigurationChanged, gateVars
  <2> QED BY <2>1, <1>7, <1>0 DEF PluginConfigurationChanged, Shares, WorldTyped, gateVars
<1>8. CASE TelemetryTick
  <2>1. wall' = wall + 1
    BY <1>8 DEF TelemetryTick, Tick
  <2>2. wall' \in Nat /\ 0..wall \subseteq 0..wall'
    BY <2>1, <1>0
  <2>3. touched' \in [Panes \cup {None} -> {LongAgo} \cup 0..wall']
    BY <2>2, <1>8, <1>0 DEF TelemetryTick
  <2> QED BY <2>2, <2>3, <1>8, <1>0 DEF TelemetryTick, WorldTyped
<1>9. ASSUME NEW watched \in BOOLEAN, NEW refresh \in BOOLEAN, NEW secs \in Prices,
             ControlResponse(watched, secs, refresh)
      PROVE  WorldTyped'
  BY <1>9, <1>0, <1>a DEF ControlResponse, Hurry, WorldTyped
<1>10. CASE UNCHANGED vars
  BY <1>10, <1>0 DEF vars, gateVars, WorldTyped
<1> QED BY <1>1, <1>2, <1>3, <1>4, <1>5, <1>6, <1>7, <1>8, <1>9, <1>10, Around

(* A structure is true at a tick: it shows only what the settings allow, if  *)
(* they have not changed since; it calls thinking only what printed shortly  *)
(* before; and it has heard the question that a pane shows unchanged.        *)
Obeys(s) ==
    /\ s.session # None => Allows(raw.names, "send")
    /\ \A p \in DOMAIN s.titles : s.titles[p] # None => Allows(raw.names, "send")
    /\ s.machine = "hostname" => Allows(raw.machine, "real") /\ raw.hostname = "on"
Asks(p) == p \in known.open \cap world.open /\ hasClaudeMarker(known.title[p]) /\ lastLineIsPrompt(world.screen[p])
TrueAt(s, at) ==
    /\ at > touched[None] => Obeys(s)
    /\ \A p \in Panes : <<"thinking", p>> \in s.attentions => at - touched[p] <= StaleTicks
    /\ \A p \in Panes : Asks(p) /\ at > touched[p] /\ at > touched[None] => <<"needs-input", p>> \in s.attentions
ToldTruly ==
    /\ TrueAt(sample.structure, wall)
    /\ gate.sent => TrueAt(gate.last.structure, gate.at)

(* What was seen of a pane is what it shows, unless it printed since the     *)
(* last tick; and it changed no later than the tick after it printed.        *)
SeenTruly ==
    /\ seen \in [Panes -> [screen : Visible, changed : 0..wall]]
    /\ \A p \in Panes :
        /\ seen[p].changed # 0 => seen[p].changed <= touched[p] + 1
        /\ p \in known.open /\ seen[p].screen # Unseen /\ seen[p].screen # Scrollback(p) => touched[p] = wall

(* Nothing is touched before now, and touching never goes back.              *)
LEMMA Touches ==
    ASSUME WorldTyped
    PROVE  \A what \in Panes \cup {None} : touched[what] \in Int /\ touched[what] <= wall
<1> SUFFICES ASSUME NEW what \in Panes \cup {None} PROVE touched[what] \in Int /\ touched[what] <= wall
  OBVIOUS
<1>1. touched[what] \in {LongAgo} \cup 0..wall /\ wall \in Nat
  BY DEF WorldTyped
<1>2. LongAgo \in Int /\ LongAgo <= 0
  BY Numbers DEF LongAgo
<1> QED BY <1>1, <1>2

(* What was true stays true when the session moves on, because whatever      *)
(* moves is touched now.                                                     *)
LEMMA StaysTrue ==
    ASSUME WorldTyped, [Next]_vars, ~TelemetryTick, NEW s, NEW at \in Nat, at <= wall, TrueAt(s, at)
    PROVE  TrueAt(s, at)'
<1>0. wall \in Nat /\ touched \in [Panes \cup {None} -> {LongAgo} \cup 0..wall]
      /\ world.screen \in [Panes -> Screen] /\ known.open \subseteq Panes
      /\ world = [screen |-> world.screen, title |-> world.title, open |-> world.open, attached |-> world.attached]
  BY DEF WorldTyped
<1>1. \A what \in Panes \cup {None} : touched'[what] \in {touched[what], wall}
  <2>1. ASSUME NEW w \in Panes \cup {None}, Touch(w)
        PROVE  \A what \in Panes \cup {None} : touched'[what] \in {touched[what], wall}
    BY <2>1, <1>0 DEF Touch
  <2>2. (\E w \in Panes \cup {None} : Touch(w)) \/ touched' = touched
    BY Around DEF Writes, Retitles, Closes, PaneRenderReport, Attaches, SessionUpdate,
                  PluginConfigurationChanged, ControlResponse, vars
  <2> QED BY <2>1, <2>2
<1>2. \A what \in Panes \cup {None} : touched'[what] \in Int /\ touched[what] <= touched'[what]
  BY <1>0, <1>1, Touches
<1>3. (touched'[None] = wall) \/ (raw' = raw /\ known' = known)
  <2>1. Touch(None) => touched'[None] = wall
    BY <1>0 DEF Touch
  <2> QED BY <2>1, Around DEF Writes, Retitles, Closes, PaneRenderReport, Attaches, SessionUpdate,
                  PluginConfigurationChanged, ControlResponse, vars
<1>4. ASSUME NEW p \in Panes, Asks(p)', at > touched'[p], at > touched'[None]
      PROVE  Asks(p)
  <2>1. touched'[p] # wall /\ known' = known
    BY <1>3, <1>4, <1>0, <1>2
  <2>2. p \in world.open /\ world'.screen[p] = world.screen[p]
    <3>1. ASSUME NEW q \in Panes, NEW look \in Looks, Writes(q, look)
          PROVE  p \in world.open /\ world'.screen[p] = world.screen[p]
      <4>1. q # p
        BY <3>1, <2>1, <1>0 DEF Writes, Touch
      <4> QED BY <3>1, <4>1, <1>4, <1>0 DEF Writes, Asks
    <3>2. ASSUME NEW q \in Panes, NEW title \in Titles, Retitles(q, title)
          PROVE  p \in world.open /\ world'.screen[p] = world.screen[p]
      BY <3>2, <1>4, <1>0 DEF Retitles, Asks
    <3>3. ASSUME NEW q \in Panes, Closes(q)
          PROVE  p \in world.open /\ world'.screen[p] = world.screen[p]
      BY <3>3, <1>4, <1>0 DEF Closes, Asks
    <3>4. CASE Attaches
      BY <3>4, <1>4, <1>0 DEF Attaches, Asks
    <3>5. CASE UNCHANGED world
      BY <3>5, <1>4 DEF Asks
    <3> QED BY <3>1, <3>2, <3>3, <3>4, <3>5, Around
            DEF PaneRenderReport, SessionUpdate, PluginConfigurationChanged, ControlResponse, vars
  <2> QED BY <2>1, <2>2, <1>4 DEF Asks
<1>5. at > touched'[None] => Obeys(s)'
  <2> SUFFICES ASSUME at > touched'[None] PROVE Obeys(s)'
    OBVIOUS
  <2>1. raw' = raw /\ at > touched[None]
    BY <1>0, <1>2, <1>3, Touches
  <2> QED BY <2>1 DEF TrueAt, Obeys, Allows
<1>6. ASSUME NEW p \in Panes, <<"thinking", p>> \in s.attentions PROVE at - touched'[p] <= StaleTicks
  <2>1. at - touched[p] <= StaleTicks
    BY <1>6 DEF TrueAt
  <2> QED BY <2>1, <1>2, Touches, Numbers
<1>7. ASSUME NEW p \in Panes, Asks(p)', at > touched'[p], at > touched'[None]
      PROVE  <<"needs-input", p>> \in s.attentions
  <2>1. at > touched[p] /\ at > touched[None]
    BY <1>7, <1>2, Touches
  <2> QED BY <2>1, <1>4, <1>7 DEF TrueAt
<1> QED BY <1>5, <1>6, <1>7 DEF TrueAt

(* A look at a pane: the tick after it printed is when it changed.           *)
LEMMA ObservedTruly ==
    ASSUME WorldTyped, SeenTruly, wall' = wall + 1, NEW p \in Panes
    PROVE  /\ Observed[p] \in [screen : Visible, changed : 0..(wall + 1)]
           /\ Observed[p].changed # 0 => Observed[p].changed <= touched[p] + 1
           /\ p \in known.open => Observed[p].screen = Scrollback(p)
           /\ p \notin known.open => Observed[p].screen = Unseen
<1>0. wall \in Nat /\ seen[p] \in [screen : Visible, changed : 0..wall] /\ touched[p] \in Int
  BY Touches DEF WorldTyped, SeenTruly
<1>1. CASE p \notin known.open
  <2>1. Observed[p] = [screen |-> Unseen, changed |-> 0]
    BY <1>1 DEF Observed
  <2> QED BY <1>1, <2>1, <1>0, Looked
<1>2. CASE p \in known.open
  <2>0. Observed[p] = Observe(p)
    BY <1>2 DEF Observed
  <2>1. CASE seen[p].screen = Unseen
    <3>1. Observed[p] = [screen |-> Scrollback(p), changed |-> 0]
      BY <2>0, <2>1 DEF Observe
    <3> QED BY <1>2, <3>1, <1>0, Looked
  <2>2. CASE seen[p].screen # Unseen /\ seen[p].screen # Scrollback(p)
    <3>1. Observed[p] = [screen |-> Scrollback(p), changed |-> wall']
      BY <2>0, <2>2 DEF Observe
    <3>2. touched[p] = wall
      BY <1>2, <2>2 DEF SeenTruly
    <3> QED BY <1>2, <3>1, <3>2, <1>0, Looked
  <2>3. CASE seen[p].screen # Unseen /\ seen[p].screen = Scrollback(p)
    <3>1. Observed[p] = seen[p]
      BY <2>0, <2>3 DEF Observe
    <3> QED BY <1>2, <2>3, <3>1, <1>0 DEF SeenTruly
  <2> QED BY <2>1, <2>2, <2>3
<1> QED BY <1>1, <1>2

(* What a tick would send is true at that tick.                              *)
LEMMA SnapshotTrue ==
    ASSUME WorldTyped, SeenTruly, wall' = wall + 1
    PROVE  TrueAt(Snapshot.structure, wall + 1)
<1>0. PICK s : s = Snapshot.structure
  OBVIOUS
<1>1. /\ s.machine = machineIdentity /\ s.attentions = Attentions /\ s.session = nameToWire("session")
      /\ s.titles = [p \in known.open |-> nameToWire(known.title[p])]
      /\ known.open \subseteq Panes /\ wall \in Nat
      /\ raw.machine \in {None, "real", "alias", "hidden", "alias:", "bad"}
  BY <1>0, PluginAssumption DEF Snapshot, WorldTyped
<1>2. Obeys(s)
  <2>1. Config.names => Allows(raw.names, "send")
    BY DEF Config, resolveName, parseFull, Allows
  <2>2. \A name : nameToWire(name) # None => Config.names
    BY DEF nameToWire
  <2>3. \A p \in DOMAIN s.titles : s.titles[p] # None => Config.names
    BY <1>1, <2>2
  <2>4. s.session # None => Config.names
    BY <1>1, <2>2
  <2>5. s.machine = "hostname" => Allows(raw.machine, "real") /\ raw.hostname = "on"
    <3>1. Config.machine = resolveMachine(parseFull(raw.full), raw.machine) /\ Config.hostname = (raw.hostname = "on")
      BY DEF Config, switchedOn
    <3>2. Config.machine \in {"real", "alias", "hidden"}
      BY <3>1, <1>1 DEF resolveMachine, None
    <3>3. machineIdentity = "hostname" => Config.machine = "real" /\ Config.hostname
      BY <3>2 DEF machineIdentity, wantsHostname, None
    <3>4. Config.machine = "real" => Allows(raw.machine, "real")
      BY <3>1, <1>1 DEF resolveMachine, parseFull, Allows, None
    <3> QED BY <3>1, <3>3, <3>4, <1>1
  <2> QED BY <2>1, <2>3, <2>4, <2>5 DEF Obeys
<1>3. \A kind \in {"thinking", "needs-input"}, p \in Panes :
        <<kind, p>> \in Attentions <=> p \in known.open /\ IsClaude(p) /\ kind \in Detected(p)
  BY DEF Attentions
<1>4. ASSUME NEW p \in Panes, <<"thinking", p>> \in s.attentions PROVE wall + 1 - touched[p] <= StaleTicks
  <2>1. "thinking" \in Detected(p) /\ p \in known.open
    BY <1>1, <1>3, <1>4
  <2>2. Fresh(p)
    BY <2>1 DEF Detected
  <2>3. Observed[p].changed # 0 /\ (wall + 1) - Observed[p].changed < StaleTicks
    BY <2>2 DEF Fresh
  <2>4. Observed[p].changed <= touched[p] + 1 /\ Observed[p].changed \in Nat
    BY <2>3, ObservedTruly
  <2>5. touched[p] \in Int
    BY Touches
  <2> QED BY <2>3, <2>4, <2>5, <1>1, Numbers
<1>5. ASSUME NEW p \in Panes, Asks(p) PROVE <<"needs-input", p>> \in s.attentions
  <2>1. Scrollback(p) = world.screen[p] /\ p \in known.open
    BY <1>5 DEF Asks, Scrollback
  <2>2. IsClaude(p) /\ Detected(p) = {"needs-input"}
    BY <2>1, <1>5 DEF Asks, IsClaude, Detected
  <2> QED BY <2>1, <2>2, <1>1, <1>3
<1>6. PICK at : at = wall + 1
  OBVIOUS
<1>7. at > touched[None] => Obeys(s)
  BY <1>2
<1>8. \A p \in Panes : <<"thinking", p>> \in s.attentions => at - touched[p] <= StaleTicks
  <2> SUFFICES ASSUME NEW p \in Panes, <<"thinking", p>> \in s.attentions PROVE at - touched[p] <= StaleTicks
    OBVIOUS
  <2>1. wall + 1 - touched[p] <= StaleTicks
    BY <1>4
  <2> QED BY <2>1, <1>1, <1>6, Touches
<1>9. \A p \in Panes : Asks(p) /\ at > touched[p] /\ at > touched[None] => <<"needs-input", p>> \in s.attentions
  BY <1>5
<1>10. TrueAt(s, at)
  BY <1>7, <1>8, <1>9 DEF TrueAt
<1> QED BY <1>0, <1>6, <1>10

LEMMA SeenKept ==
    ASSUME WorldTyped, SeenTruly, [Next]_vars
    PROVE  SeenTruly'
<1>0. wall \in Nat /\ touched \in [Panes \cup {None} -> {LongAgo} \cup 0..wall]
      /\ seen \in [Panes -> [screen : Visible, changed : 0..wall]]
      /\ world.open \subseteq known.open
      /\ world = [screen |-> world.screen, title |-> world.title, open |-> world.open, attached |-> world.attached]
      /\ world.screen \in [Panes -> Screen]
  BY DEF WorldTyped, SeenTruly
<1>1. CASE TelemetryTick
  <2>1. wall' = wall + 1 /\ seen' = Observed /\ UNCHANGED <<world, known, touched>>
    BY <1>1 DEF TelemetryTick, Tick
  <2>2. \A p \in Panes : Observed[p] \in [screen : Visible, changed : 0..(wall + 1)]
    BY <2>1, ObservedTruly
  <2>3. seen' \in [Panes -> [screen : Visible, changed : 0..wall']]
    BY <2>1, <2>2 DEF Observed
  <2>4. ASSUME NEW p \in Panes
        PROVE  /\ seen'[p].changed # 0 => seen'[p].changed <= touched'[p] + 1
               /\ p \in known'.open => seen'[p].screen = Scrollback(p)'
    BY <2>1, ObservedTruly DEF Scrollback
  <2> QED BY <2>3, <2>4 DEF SeenTruly
<1>2. CASE ~TelemetryTick
  <2>1. wall' = wall /\ seen' = seen
    BY <1>2, Around DEF Writes, Retitles, Closes, PaneRenderReport, Attaches, SessionUpdate,
                  PluginConfigurationChanged, ControlResponse, Hurry, vars, gateVars
  <2>2. \A what \in Panes \cup {None} : touched'[what] \in {touched[what], wall}
    <3>1. ASSUME NEW w \in Panes \cup {None}, Touch(w)
          PROVE  \A what \in Panes \cup {None} : touched'[what] \in {touched[what], wall}
      BY <3>1, <1>0 DEF Touch
    <3>2. (\E w \in Panes \cup {None} : Touch(w)) \/ touched' = touched
      BY <1>2, Around DEF Writes, Retitles, Closes, PaneRenderReport, Attaches, SessionUpdate,
                  PluginConfigurationChanged, ControlResponse, vars
    <3> QED BY <3>1, <3>2
  <2>3. known'.open \subseteq known.open
    BY <1>2, <1>0, Around DEF Writes, Retitles, Closes, PaneRenderReport, Attaches, SessionUpdate,
                  PluginConfigurationChanged, ControlResponse, vars
  <2>4. \A p \in Panes : touched'[p] = wall \/ Scrollback(p)' = Scrollback(p)
    <3> SUFFICES ASSUME NEW p \in Panes PROVE touched'[p] = wall \/ Scrollback(p)' = Scrollback(p)
      OBVIOUS
    <3>1. ASSUME NEW q \in Panes, NEW look \in Looks, Writes(q, look)
          PROVE  touched'[p] = wall \/ Scrollback(p)' = Scrollback(p)
      <4>1. CASE q = p
        BY <3>1, <4>1, <1>0 DEF Writes, Touch
      <4>2. CASE q # p
        BY <3>1, <4>2, <1>0 DEF Writes, Scrollback
      <4> QED BY <4>1, <4>2
    <3>2. ASSUME NEW q \in Panes, NEW title \in Titles, Retitles(q, title)
          PROVE  Scrollback(p)' = Scrollback(p)
      BY <3>2, <1>0 DEF Retitles, Scrollback
    <3>3. ASSUME NEW q \in Panes, Closes(q)
          PROVE  touched'[p] = wall \/ Scrollback(p)' = Scrollback(p)
      <4>1. CASE q = p
        BY <3>3, <4>1, <1>0 DEF Closes, Touch
      <4>2. CASE q # p
        BY <3>3, <4>2, <1>0 DEF Closes, Scrollback
      <4> QED BY <4>1, <4>2
    <3>4. CASE Attaches
      BY <3>4, <1>0 DEF Attaches, Scrollback
    <3>5. CASE UNCHANGED world
      BY <3>5 DEF Scrollback
    <3> QED BY <3>1, <3>2, <3>3, <3>4, <3>5, <1>2, Around
            DEF PaneRenderReport, SessionUpdate, PluginConfigurationChanged, ControlResponse, vars
  <2>5. ASSUME NEW p \in Panes
        PROVE  /\ seen'[p].changed # 0 => seen'[p].changed <= touched'[p] + 1
               /\ p \in known'.open /\ seen'[p].screen # Unseen /\ seen'[p].screen # Scrollback(p)' => touched'[p] = wall'
    <3>1. touched[p] \in Int /\ touched[p] <= wall /\ touched'[p] \in {touched[p], wall}
      BY <2>2, Touches
    <3>2. seen[p].changed \in 0..wall
      BY <1>0
    <3>3. seen'[p].changed # 0 => seen'[p].changed <= touched'[p] + 1
      BY <2>1, <3>1, <3>2, <1>0 DEF SeenTruly
    <3>4. p \in known'.open /\ seen'[p].screen # Unseen /\ seen'[p].screen # Scrollback(p)' => touched'[p] = wall'
      BY <2>1, <2>3, <2>4, <3>1 DEF SeenTruly
    <3> QED BY <3>3, <3>4
  <2> QED BY <2>1, <2>5, <1>0 DEF SeenTruly
<1> QED BY <1>1, <1>2

(* The debug log remembers what its reader believes in; and while it is on,  *)
(* that is the last tick's.                                                  *)
LogMatches ==
    /\ told.attentions = sample.structure.attentions
    /\ DOMAIN told.claude = sample.structure.claude
    /\ (told.machine = "active") <=> sample.content.active
    /\ (\E p \in DOMAIN told.claude : told.claude[p]) <=> sample.content.active
LogInv ==
    /\ told \in Log /\ heard = told
    /\ Config.debug /\ wall > touched[None] => LogMatches

LEMMA PictureLogged ==
    ASSUME WorldTyped
    PROVE  Picture \in Log
<1>1. PICK claude : claude = {p \in known.open : IsClaude(p)}
  OBVIOUS
<1>2. claude \in SUBSET Panes
  BY <1>1 DEF WorldTyped
<1>3. PICK f : f = [p \in claude |-> Fresh(p)]
  OBVIOUS
<1>4. \A p : Fresh(p) \in BOOLEAN
  BY DEF Fresh
<1>5. f \in [claude -> BOOLEAN]
  BY <1>3, <1>4
<1>6. f \in UNION {[shown -> BOOLEAN] : shown \in SUBSET Panes}
  BY <1>2, <1>5
<1>7. PICK m : m = IF claude = {} THEN None ELSE IF \E p \in claude : Fresh(p) THEN "active" ELSE "idle"
  OBVIOUS
<1>8. m \in {None, "active", "idle"}
  BY <1>7
<1>9. Attentions \in SUBSET ({<<"detached", None>>} \cup {"needs-input", "thinking"} \X Panes)
  BY AttentionsTyped DEF Alerts
<1>10. Picture = [attentions |-> Attentions, claude |-> f, machine |-> m]
  BY <1>1, <1>3, <1>7 DEF Picture
<1> QED BY <1>6, <1>8, <1>9, <1>10 DEF Log

(* Whoever knows what was told knows the picture once the lines are out.     *)
LEMMA Replays ==
    ASSUME NEW now \in Log, told \in Log, heard = told
    PROVE  Replayed(tickLines(now)) = now
<1>1. PICK lines : lines = tickLines(now)
  OBVIOUS
<1>2. PICK was : was = DOMAIN told.claude
  OBVIOUS
<1>3. PICK is : is = DOMAIN now.claude
  OBVIOUS
<1>4. PICK changed : changed = {q \in is : q \in was => told.claude[q] # now.claude[q]}
  OBVIOUS
<1>5. /\ \A a \in now.attentions \ told.attentions : <<"onset", a>> \in lines
      /\ \A a \in told.attentions \ now.attentions : <<"cleared", a>> \in lines
      /\ \A p \in changed : <<"seen", p, now.claude[p]>> \in lines
      /\ \A p \in was \ is : <<"gone", p>> \in lines
      /\ \A m \in {now.machine} \ {told.machine} : <<"machine", m>> \in lines
  BY <1>1, <1>2, <1>3, <1>4 DEF tickLines, attentionLines, claudeLines, machineLine
<1>a. ASSUME NEW l \in lines
      PROVE  \/ \E a \in now.attentions \ told.attentions : l = <<"onset", a>>
             \/ \E a \in told.attentions \ now.attentions : l = <<"cleared", a>>
             \/ \E p \in changed : l = <<"seen", p, now.claude[p]>>
             \/ \E p \in was \ is : l = <<"gone", p>>
             \/ \E m \in {now.machine} \ {told.machine} : l = <<"machine", m>>
  BY <1>1, <1>2, <1>3, <1>4 DEF tickLines, attentionLines, claudeLines, machineLine
<1>b. ASSUME NEW l \in lines
      PROVE  /\ l[1] = "onset" => l[2] \in now.attentions \ told.attentions
             /\ l[1] = "cleared" => l[2] \in told.attentions \ now.attentions
             /\ l[1] = "seen" => l[2] \in changed /\ l[3] = now.claude[l[2]]
             /\ l[1] = "gone" => l[2] \in was \ is
             /\ l[1] = "machine" => l[2] \in {now.machine} \ {told.machine}
  <2>1. CASE \E a \in now.attentions \ told.attentions : l = <<"onset", a>>
    BY <2>1
  <2>2. CASE \E a \in told.attentions \ now.attentions : l = <<"cleared", a>>
    BY <2>2
  <2>3. CASE \E p \in changed : l = <<"seen", p, now.claude[p]>>
    BY <2>3
  <2>4. CASE \E p \in was \ is : l = <<"gone", p>>
    BY <2>4
  <2>5. CASE \E m \in {now.machine} \ {told.machine} : l = <<"machine", m>>
    BY <2>5
  <2> QED BY <1>a, <2>1, <2>2, <2>3, <2>4, <2>5
<1> DEFINE named(what) == {l[2] : l \in {k \in lines : k[1] = what}}
           seenNow == {l \in lines : l[1] = "seen"}
<1>e. \A what, x : x \in named(what) <=> \E l \in lines : l[1] = what /\ l[2] = x
  OBVIOUS
<1>6. named("onset") = now.attentions \ told.attentions
  <2>1. ASSUME NEW a \in now.attentions \ told.attentions PROVE a \in named("onset")
    <3>1. PICK l : l = <<"onset", a>>
      OBVIOUS
    <3>2. l \in lines
      BY <3>1, <1>5
    <3>3. l[1] = "onset" /\ l[2] = a
      BY <3>1
    <3> QED BY <3>2, <3>3, <1>e
  <2> QED BY <2>1, <1>b, <1>e
<1>7. named("cleared") = told.attentions \ now.attentions
  <2>1. ASSUME NEW a \in told.attentions \ now.attentions PROVE a \in named("cleared")
    <3>1. PICK l : l = <<"cleared", a>>
      OBVIOUS
    <3>2. l \in lines
      BY <3>1, <1>5
    <3>3. l[1] = "cleared" /\ l[2] = a
      BY <3>1
    <3> QED BY <3>2, <3>3, <1>e
  <2> QED BY <2>1, <1>b, <1>e
<1>8. named("seen") = changed
  <2>1. ASSUME NEW p \in changed PROVE p \in named("seen")
    <3>1. PICK l : l = <<"seen", p, now.claude[p]>>
      OBVIOUS
    <3>2. l \in lines
      BY <3>1, <1>5
    <3>3. l[1] = "seen" /\ l[2] = p
      BY <3>1
    <3> QED BY <3>2, <3>3, <1>e
  <2> QED BY <2>1, <1>b, <1>e
<1>9. named("gone") = was \ is
  <2>1. ASSUME NEW p \in was \ is PROVE p \in named("gone")
    <3>1. PICK l : l = <<"gone", p>>
      OBVIOUS
    <3>2. l \in lines
      BY <3>1, <1>5
    <3>3. l[1] = "gone" /\ l[2] = p
      BY <3>1
    <3> QED BY <3>2, <3>3, <1>e
  <2> QED BY <2>1, <1>b, <1>e
<1>10. named("machine") = {now.machine} \ {told.machine}
  <2>1. ASSUME NEW m \in {now.machine} \ {told.machine} PROVE m \in named("machine")
    <3>1. PICK l : l = <<"machine", m>>
      OBVIOUS
    <3>2. l \in lines
      BY <3>1, <1>5
    <3>3. l[1] = "machine" /\ l[2] = m
      BY <3>1
    <3> QED BY <3>2, <3>3, <1>e
  <2> QED BY <2>1, <1>b, <1>e
<1>11. \A l \in seenNow : l[3] = now.claude[l[2]]
  BY <1>b
<1>12. \A p \in changed : \E l \in seenNow : l[2] = p
  BY <1>8, <1>e
<1>13. Replayed(lines) =
         [attentions |-> (heard.attentions \ named("cleared")) \cup named("onset"),
          claude |-> [p \in (DOMAIN heard.claude \ named("gone")) \cup named("seen") |->
                        IF p \in named("seen") THEN (CHOOSE l \in seenNow : l[2] = p)[3] ELSE heard.claude[p]],
          machine |-> IF named("machine") = {} THEN heard.machine
                      ELSE CHOOSE m \in named("machine") : TRUE]
  BY DEF Replayed
<1>14. ASSUME NEW p \in changed PROVE (CHOOSE l \in seenNow : l[2] = p)[3] = now.claude[p]
  <2>1. PICK l : l = CHOOSE k \in seenNow : k[2] = p
    OBVIOUS
  <2>2. l \in seenNow /\ l[2] = p
    BY <2>1, <1>12
  <2> QED BY <2>1, <2>2, <1>11
<1> HIDE DEF named, seenNow
<1>15. (heard.attentions \ named("cleared")) \cup named("onset") = now.attentions
  BY <1>6, <1>7
<1>16. (IF named("machine") = {} THEN heard.machine ELSE CHOOSE m \in named("machine") : TRUE) = now.machine
  BY <1>10
<1>17. PICK f : f = [p \in (DOMAIN heard.claude \ named("gone")) \cup named("seen") |->
                        IF p \in named("seen") THEN (CHOOSE l \in seenNow : l[2] = p)[3] ELSE heard.claude[p]]
  OBVIOUS
<1>18. (DOMAIN heard.claude \ named("gone")) \cup named("seen") = is
  BY <1>2, <1>4, <1>8, <1>9
<1>19. \A p \in is : f[p] = now.claude[p]
  <2> SUFFICES ASSUME NEW p \in is PROVE f[p] = now.claude[p]
    OBVIOUS
  <2>1. CASE p \in changed
    BY <2>1, <1>8, <1>14, <1>17, <1>18
  <2>2. CASE p \notin changed
    BY <2>2, <1>2, <1>4, <1>8, <1>17, <1>18
  <2> QED BY <2>1, <2>2
<1>20. PICK shown \in SUBSET Panes : now.claude \in [shown -> BOOLEAN]
  BY DEF Log
<1>21. f = now.claude
  <2>1. now.claude = [p \in is |-> now.claude[p]]
    BY <1>3, <1>20
  <2>2. f = [p \in is |-> f[p]]
    BY <1>17, <1>18
  <2> QED BY <2>1, <2>2, <1>19
<1>22. Replayed(lines) = [attentions |-> now.attentions, claude |-> now.claude, machine |-> now.machine]
  BY <1>13, <1>15, <1>16, <1>17, <1>21
<1>23. now = [attentions |-> now.attentions, claude |-> now.claude, machine |-> now.machine]
  BY DEF Log
<1> QED BY <1>1, <1>22, <1>23

LEMMA LogKept ==
    ASSUME WorldTyped, LogInv, [Next]_vars
    PROVE  LogInv'
<1>0. touched \in [Panes \cup {None} -> {LongAgo} \cup 0..wall] /\ touched[None] <= wall
      /\ wall \in Nat /\ touched[None] \in Int
  BY Touches DEF WorldTyped
<1>1. CASE TelemetryTick
  <2>1. UNCHANGED <<world, known, raw, touched>> /\ wall' = wall + 1 /\ sample' = Snapshot
    BY <1>1 DEF TelemetryTick, Tick
  <2>2. CASE Config.debug
    <3>1. told' = Picture /\ heard' = Replayed(tickLines(Picture))
      BY <1>1, <2>2 DEF TelemetryTick
    <3>2. Picture \in Log /\ Replayed(tickLines(Picture)) = Picture
      BY PictureLogged, Replays DEF LogInv
    <3>3. PICK claude : claude = {p \in known.open : IsClaude(p)}
      OBVIOUS
    <3>4. /\ Picture.attentions = Attentions
          /\ Picture.claude = [p \in claude |-> Fresh(p)]
          /\ Picture.machine = IF claude = {} THEN None ELSE IF \E p \in claude : Fresh(p) THEN "active" ELSE "idle"
      BY <3>3 DEF Picture
    <3>5. /\ Snapshot.structure.attentions = Attentions /\ Snapshot.structure.claude = claude
          /\ Snapshot.content.active = \E p \in known.open : IsClaude(p) /\ Fresh(p)
      BY <3>3 DEF Snapshot
    <3>6. (\E p \in known.open : IsClaude(p) /\ Fresh(p)) <=> (\E p \in claude : Fresh(p))
      BY <3>3
    <3>7. (Picture.machine = "active") <=> \E p \in claude : Fresh(p)
      BY <3>4 DEF None
    <3>8. DOMAIN Picture.claude = claude /\ \A p \in claude : Picture.claude[p] = Fresh(p)
      BY <3>4
    <3>9. LogMatches'
      BY <3>1, <3>4, <3>5, <3>6, <3>7, <3>8, <2>1 DEF LogMatches
    <3> QED BY <3>1, <3>2, <3>9 DEF LogInv
  <2>3. CASE ~Config.debug
    <3>1. told' = told /\ heard' = heard
      BY <1>1, <2>3 DEF TelemetryTick
    <3>2. Config' = Config
      BY <2>1 DEF Config
    <3> QED BY <2>3, <3>1, <3>2 DEF LogInv
  <2> QED BY <2>2, <2>3
<1>2. CASE ~TelemetryTick
  <2>1. UNCHANGED <<wall, sample, told, heard>>
    BY <1>2, Around DEF Writes, Retitles, Closes, PaneRenderReport, Attaches, SessionUpdate,
                  PluginConfigurationChanged, ControlResponse, Hurry, vars, gateVars
  <2>2. touched'[None] \in {touched[None], wall}
    <3>1. ASSUME NEW w \in Panes \cup {None}, Touch(w) PROVE touched'[None] \in {touched[None], wall}
      BY <3>1, <1>0 DEF Touch
    <3>2. (\E w \in Panes \cup {None} : Touch(w)) \/ touched' = touched
      BY <1>2, Around DEF Writes, Retitles, Closes, PaneRenderReport, Attaches, SessionUpdate,
                  PluginConfigurationChanged, ControlResponse, vars
    <3> QED BY <3>1, <3>2
  <2>3. touched'[None] = wall \/ raw' = raw
    <3>1. Touch(None) => touched'[None] = wall
      BY <1>0 DEF Touch
    <3> QED BY <3>1, <1>2, Around DEF Writes, Retitles, Closes, PaneRenderReport, Attaches, SessionUpdate,
                  PluginConfigurationChanged, ControlResponse, vars
  <2>4. Config'.debug /\ wall' > touched'[None] => Config.debug /\ wall > touched[None]
    <3> SUFFICES ASSUME Config'.debug, wall' > touched'[None] PROVE Config.debug /\ wall > touched[None]
      OBVIOUS
    <3>1. raw' = raw /\ touched'[None] = touched[None]
      BY <2>1, <2>2, <2>3, <1>0
    <3>2. Config' = Config
      BY <3>1 DEF Config
    <3> QED BY <3>1, <3>2, <2>1
  <2> QED BY <2>1, <2>4 DEF LogInv, LogMatches
<1> QED BY <1>1, <1>2

LEMMA ToldKept ==
    ASSUME WorldTyped, SeenTruly, GateInv, ToldTruly, [Next]_vars
    PROVE  ToldTruly'
<1>0. wall \in Nat /\ gate.at \in Nat /\ gate.at <= wall /\ GateShape
  BY DEF GateInv, GateShape
<1>1. CASE TelemetryTick
  <2>1. PICK sig : sig = Snapshot /\ Tick(sig)
    BY <1>1 DEF TelemetryTick
  <2>2. /\ wall' = wall + 1 /\ sample' = sig
        /\ \/ gate'.last = sig /\ gate'.at = wall'
           \/ gate' = gate /\ gate.sent
    BY <2>1, <1>0, TickOutcome
  <2>3. UNCHANGED <<world, known, raw, touched>>
    BY <1>1 DEF TelemetryTick
  <2>4. \A s, at : TrueAt(s, at)' <=> TrueAt(s, at)
    BY <2>3 DEF TrueAt, Obeys, Allows, Asks
  <2>5. TrueAt(sig.structure, wall + 1)
    BY <2>1, <2>2, SnapshotTrue
  <2>6. PICK t : t = sig.structure
    OBVIOUS
  <2>7. PICK now : now = wall + 1
    OBVIOUS
  <2>8. TrueAt(t, now)'
    BY <2>4, <2>5, <2>6, <2>7
  <2>9. TrueAt(sample.structure, wall)'
    BY <2>2, <2>6, <2>7, <2>8
  <2>10. PICK l : l = gate.last.structure
    OBVIOUS
  <2>11. PICK a : a = gate.at
    OBVIOUS
  <2>12. CASE gate'.last = sig /\ gate'.at = wall'
    BY <2>2, <2>6, <2>7, <2>8, <2>9, <2>12 DEF ToldTruly
  <2>13. CASE gate' = gate /\ gate.sent
    <3>1. TrueAt(l, a)
      BY <2>10, <2>11, <2>13 DEF ToldTruly
    <3>2. TrueAt(l, a)'
      BY <3>1, <2>4
    <3>3. TrueAt(gate.last.structure, gate.at)'
      BY <3>2, <2>10, <2>11, <2>13
    <3> QED BY <2>9, <3>3 DEF ToldTruly
  <2> QED BY <2>2, <2>12, <2>13
<1>2. CASE ~TelemetryTick
  <2>1. UNCHANGED <<wall, sample>> /\ gate'.sent = gate.sent /\ gate'.last = gate.last /\ gate'.at = gate.at
    <3>1. ASSUME NEW watched \in BOOLEAN, NEW refresh \in BOOLEAN, NEW secs \in Prices,
                 ControlResponse(watched, secs, refresh)
          PROVE  UNCHANGED <<wall, sample>> /\ gate'.sent = gate.sent /\ gate'.last = gate.last /\ gate'.at = gate.at
      BY <3>1, <1>0, HurryOutcome DEF ControlResponse
    <3>2. UNCHANGED gateVars \/ \E watched, refresh \in BOOLEAN, secs \in Prices : ControlResponse(watched, secs, refresh)
      BY <1>2, Around DEF Writes, Retitles, Closes, PaneRenderReport, Attaches, SessionUpdate,
                  PluginConfigurationChanged, vars
    <3> QED BY <3>1, <3>2 DEF gateVars
  <2>2. PICK s : s = sample.structure
    OBVIOUS
  <2>3. PICK l : l = gate.last.structure
    OBVIOUS
  <2>4. PICK w : w = wall
    OBVIOUS
  <2>5. PICK a : a = gate.at
    OBVIOUS
  <2>6. TrueAt(s, w)'
    BY <2>2, <2>4, <1>0, <1>2, StaysTrue DEF ToldTruly
  <2>7. gate.sent => TrueAt(l, a)'
    BY <2>3, <2>5, <1>0, <1>2, StaysTrue DEF ToldTruly
  <2>8. TrueAt(sample.structure, wall)'
    BY <2>1, <2>2, <2>4, <2>6
  <2>9. gate.sent => TrueAt(gate.last.structure, gate.at)'
    BY <2>1, <2>3, <2>5, <2>7
  <2> QED BY <2>1, <2>8, <2>9 DEF ToldTruly
<1> QED BY <1>1, <1>2

LEMMA NothingStays ==
    ASSUME NothingKept, [Next]_vars
    PROVE  NothingKept'
BY Around DEF NothingKept, Writes, Retitles, Closes, PaneRenderReport, Attaches, SessionUpdate, Recorded, Shares,
     PluginConfigurationChanged, TelemetryTick, ControlResponse, Config, switchedOn, vars

Structured == sample.structure \in Structure /\ gate.last.structure \in Structure
WatcherInv == WorldTyped /\ GateInv /\ SeenTruly /\ ToldTruly /\ LogInv /\ Structured /\ NothingKept

LEMMA WatcherStarts == Init => WatcherInv
<1> SUFFICES ASSUME Init PROVE WatcherInv
  OBVIOUS
<1>1. /\ wall = 0 /\ cache = {} /\ told = NewLog /\ heard = NewLog /\ sample = Empty
      /\ seen = [p \in Panes |-> [screen |-> Unseen, changed |-> 0]]
      /\ touched = [p \in Panes \cup {None} |-> IF p = None THEN 0 ELSE LongAgo]
      /\ gate = [sent |-> FALSE, last |-> sample, at |-> 0, watched |-> FALSE, force |-> FALSE,
                 heartbeat |-> HeartbeatDefault]
  BY DEF Init
<1>2. gate.sent = FALSE /\ gate.last = Empty
  BY <1>1
<1>3. touched[None] = 0
  BY <1>1
<1>4. SeenTruly
  <2>1. Unseen \in Visible /\ 0 \in 0..wall
    BY <1>1 DEF Unseen, Visible
  <2>2. seen \in [Panes -> [screen : Visible, changed : 0..wall]]
    BY <1>1, <2>1
  <2>3. \A p \in Panes : seen[p].changed = 0 /\ seen[p].screen = Unseen
    BY <1>1
  <2> QED BY <2>2, <2>3 DEF SeenTruly
<1>5. ToldTruly
  <2>1. TrueAt(Empty.structure, 0)
    BY <1>3, EmptyTyped DEF TrueAt
  <2> QED BY <1>1, <1>2, <2>1 DEF ToldTruly
<1>6. LogInv
  <2>1. PICK f : f = [p \in {} |-> TRUE]
    OBVIOUS
  <2>2. f \in [{} -> BOOLEAN]
    BY <2>1
  <2>3. f \in UNION {[shown -> BOOLEAN] : shown \in SUBSET Panes}
    BY <2>2
  <2>4. NewLog = [attentions |-> {}, claude |-> f, machine |-> None]
    BY <2>1 DEF NewLog
  <2>5. NewLog \in Log
    BY <2>3, <2>4 DEF Log
  <2> QED BY <1>1, <1>3, <2>5 DEF LogInv
<1>7. Structured /\ NothingKept
  BY <1>1, <1>2, EmptyTyped DEF Structured, NothingKept
<1> QED BY <1>4, <1>5, <1>6, <1>7, WorldStarts, GateStarts DEF WatcherInv

LEMMA StructuredKept ==
    ASSUME WorldTyped, GateInv, Structured, [Next]_vars
    PROVE  Structured'
<1>0. GateShape
  BY DEF GateInv
<1>1. CASE TelemetryTick
  <2>1. PICK sig : sig = Snapshot /\ Tick(sig)
    BY <1>1 DEF TelemetryTick
  <2>2. sample' = sig /\ (gate'.last = sig \/ gate' = gate)
    BY <2>1, <1>0, TickOutcome
  <2> QED BY <2>1, <2>2, SnapshotTyped DEF Structured
<1>2. ASSUME NEW watched \in BOOLEAN, NEW refresh \in BOOLEAN, NEW secs \in Prices,
             ControlResponse(watched, secs, refresh)
      PROVE  Structured'
  BY <1>2, <1>0, HurryOutcome DEF ControlResponse, Structured
<1>3. CASE UNCHANGED gateVars
  BY <1>3 DEF gateVars, Structured
<1> QED BY <1>1, <1>2, <1>3, Around
        DEF Writes, Retitles, Closes, PaneRenderReport, Attaches, SessionUpdate, PluginConfigurationChanged, vars

LEMMA WatcherKept ==
    ASSUME WatcherInv, [Next]_vars
    PROVE  WatcherInv'
BY WorldKept, GateKept, SeenKept, ToldKept, LogKept, StructuredKept, NothingStays DEF WatcherInv

(* Either the last structure is on the wire, or the send before is young.    *)
LEMMA SentLately ==
    ASSUME WatcherInv, gate.sent, gate.last.structure # sample.structure
    PROVE  wall - gate.at < OnsetDebounce
BY DEF WatcherInv, GateInv, Unsent

LEMMA SettingsEnough ==
    ASSUME WatcherInv
    PROVE  SettingsHold
<1>0. wall \in Nat /\ gate.at \in Nat /\ touched[None] \in Int
  BY Touches DEF WatcherInv, GateInv, GateShape
<1>1. TypeOK
  BY DEF WatcherInv, WorldTyped, SeenTruly, Visible, LogInv, Structured, TypeOK
<1>2. HiddenSoon
  <2> SUFFICES ASSUME gate.sent, wall - touched[None] >= OnsetDebounce PROVE Obeys(gate.last.structure)
    BY DEF HiddenSoon, Obeys
  <2>1. CASE gate.last.structure = sample.structure
    <3>1. wall > touched[None]
      BY <1>0, Numbers
    <3> QED BY <2>1, <3>1 DEF WatcherInv, ToldTruly, TrueAt
  <2>2. CASE gate.last.structure # sample.structure
    <3>1. gate.at > touched[None]
      BY <2>2, <1>0, SentLately, Numbers
    <3> QED BY <3>1 DEF WatcherInv, ToldTruly, TrueAt
  <2> QED BY <2>1, <2>2
<1> QED BY <1>1, <1>2 DEF WatcherInv, SettingsHold

LEMMA AttentionsEnough ==
    ASSUME WatcherInv
    PROVE  AttentionsTrue
<1>0. wall \in Nat /\ gate.at \in Nat /\ \A what \in Panes \cup {None} : touched[what] \in Int
  BY Touches DEF WatcherInv, GateInv, GateShape
<1>1. ThinkingFades
  <2> SUFFICES ASSUME NEW p \in Panes, gate.sent, <<"thinking", p>> \in gate.last.structure.attentions
               PROVE  wall - touched[p] < StaleTicks + OnsetDebounce
    BY DEF ThinkingFades, Tells
  <2>1. CASE gate.last.structure = sample.structure
    <3>1. wall - touched[p] <= StaleTicks
      BY <2>1 DEF WatcherInv, ToldTruly, TrueAt
    <3> QED BY <3>1, <1>0, Numbers
  <2>2. CASE gate.last.structure # sample.structure
    <3>1. gate.at - touched[p] <= StaleTicks
      BY DEF WatcherInv, ToldTruly, TrueAt
    <3>2. wall - gate.at < OnsetDebounce
      BY <2>2, SentLately
    <3> QED BY <3>1, <3>2, <1>0, Numbers
  <2> QED BY <2>1, <2>2
<1>2. QuestionHeard
  <2> SUFFICES ASSUME NEW p \in known.open \cap world.open, gate.sent,
                      hasClaudeMarker(known.title[p]), lastLineIsPrompt(world.screen[p]),
                      wall - touched[p] >= OnsetDebounce, wall - touched[None] >= OnsetDebounce
               PROVE  <<"needs-input", p>> \in gate.last.structure.attentions
    BY DEF QuestionHeard, Tells
  <2>1. Asks(p) /\ p \in Panes
    BY DEF Asks, WatcherInv, WorldTyped
  <2>2. CASE gate.last.structure = sample.structure
    <3>1. wall > touched[p] /\ wall > touched[None]
      BY <2>1, <1>0, Numbers
    <3> QED BY <2>1, <2>2, <3>1 DEF WatcherInv, ToldTruly, TrueAt
  <2>3. CASE gate.last.structure # sample.structure
    <3>1. gate.at > touched[p] /\ gate.at > touched[None]
      BY <2>1, <2>3, <1>0, SentLately, Numbers
    <3> QED BY <2>1, <3>1 DEF WatcherInv, ToldTruly, TrueAt
  <2> QED BY <2>2, <2>3
<1>3. LogReplays
  BY DEF LogReplays, WatcherInv, LogInv, LogMatches
<1> QED BY <1>1, <1>2, <1>3 DEF AttentionsTrue

LEMMA WatcherSteps == [MCNext]_<<vars, host, part>> => [Next]_vars
BY DEF MCNext

LEMMA WatcherAlways == MCSpec => []WatcherInv
<1>1. MCInit => WatcherInv
  BY WatcherStarts DEF MCInit
<1>2. WatcherInv /\ [MCNext]_<<vars, host, part>> => WatcherInv'
  BY WatcherKept, WatcherSteps
<1> QED BY <1>1, <1>2, PTL DEF MCSpec

(* A name that the settings hide leaves no later than the debounce after     *)
(* they changed, no render is kept that they do not share, and all is typed, *)
(* for every set of settings and panes and any number of events.             *)
THEOREM SettingsObeyed == MCSpec => []SettingsHold
<1>1. WatcherInv => SettingsHold
  BY SettingsEnough
<1> QED BY <1>1, WatcherAlways, PTL

(* What is told of attentions is true: thinking fades within the staleness   *)
(* and the debounce, a question is heard within the debounce, and the debug  *)
(* log replays to what was seen.                                             *)
THEOREM AttentionsTold == MCSpec => []AttentionsTrue
<1>1. WatcherInv => AttentionsTrue
  BY AttentionsEnough
<1> QED BY <1>1, WatcherAlways, PTL

(* The plugin that samples real panes keeps the promises of the send gate,   *)
(* whatever its snapshots contain.                                           *)
THEOREM GateObeyed == MCSpec => [](SilenceBounded /\ OnsetPrompt)
<1>1. WatcherInv => SilenceBounded /\ OnsetPrompt
  BY GateEnough DEF WatcherInv
<1> QED BY <1>1, WatcherAlways, PTL
=============================================================================
