------------------------------- MODULE Pairing -------------------------------
(***************************************************************************)
(* The life of the plugin instances of ONE host (one per Zellij session)   *)
(* up to the point where they report: loading, permissions, device pairing *)
(* (ADR-0012), the hostname (ADR-0024), the host-wide machine id and       *)
(* changes of configuration, with the /cache directory they share, the     *)
(* backend's pairing sessions and the web page that approves a code.       *)
(*                                                                         *)
(* An instance handles one event at a time.  Every request is answered, a  *)
(* failed one with an error status; answers overtake each other.  What a   *)
(* poll does inside its transaction is module Tokens; here it is one step. *)
(***************************************************************************)
EXTENDS Integers, FiniteSets

CONSTANTS
    Instances,
    Codes,       \* pairing sessions, each with its id, its user code and the token it may yield
    Settings,    \* [Instances -> the settings its users choose between: a token, the hostname]
    MaxPolls,    \* [Instances -> polls of an instance on their way at a time]
    MaxEvents    \* unloads, failures and changes of configuration together

None == "none"
Configured == "configured"      \* the token of the configuration
HostId == "hostname"            \* the machine id derived from the hostname

VARIABLES
    plugin,   \* [Instances -> Plugin]
    prompts,  \* [Instances -> permission requests the user has not answered]
    cache,    \* the files in /cache: the token and the machine id
    row,      \* the PairingSession table
    net,      \* requests and answers on their way
    page,     \* the code typed into the pairing page
    vouched, got, lost, \* codes the owner approved, whose token was taken, whose answer failed (history)
    spent     \* the bounded events so far

vars == <<plugin, prompts, cache, row, net, page, vouched, got, lost, spent>>

Token == Codes \cup {None, Configured}
Id == Instances \cup {None, HostId}
Plugin == [loaded : BOOLEAN, granted : BOOLEAN, wants : BOOLEAN, run : {"no", "asked", "granted"},
           hostname : BOOLEAN, id : Id, read : Id \cup {"unread"}, token : Token,
           active : BOOLEAN, started : BOOLEAN, done : BOOLEAN, code : Codes \cup {None}]
Unloaded == [loaded |-> FALSE, granted |-> FALSE, wants |-> FALSE, run |-> "no",
             hostname |-> FALSE, id |-> None, read |-> "unread", token |-> None,
             active |-> FALSE, started |-> FALSE, done |-> FALSE, code |-> None]
Results == {"pending", "approved", "expired", "cap_reached", "consumed", "error"}
Message == [kind : {"start", "poll", "started", "polled"}, from : Instances, code : Codes \cup {None}, result : Results \cup {None},
            n : Nat]

TypeOK ==
    /\ plugin \in [Instances -> Plugin]
    /\ prompts \in [Instances -> SUBSET {"base", "run"}]
    /\ cache \in [token : Codes \cup {None}, id : Id]
    /\ row \in [Codes -> [status : {"unused", "pending", "approved", "expired", "consumed"}, late : BOOLEAN]]
    /\ net \subseteq Message
    /\ page \in Codes \cup {None}
    /\ vouched \cup got \cup lost \subseteq Codes
    /\ spent \in 0..MaxEvents

Init ==
    /\ plugin = [i \in Instances |-> Unloaded]
    /\ prompts = [i \in Instances |-> {}]
    /\ cache = [token |-> None, id |-> None]
    /\ row = [c \in Codes |-> [status |-> "unused", late |-> FALSE]]
    /\ net = {}
    /\ page = None
    /\ vouched = {} /\ got = {} /\ lost = {}
    /\ spent = 0

Spend == spent < MaxEvents /\ spent' = spent + 1

hasToken(i) == plugin[i].token # None
Free(i) == plugin[i].loaded /\ plugin[i].read = "unread"   \* not in the middle of a handler
Mine(i, kinds) == {m \in net : m.from = i /\ m.kind \in kinds}
Request(kind, i, c, n) == [kind |-> kind, from |-> i, code |-> c, result |-> None, n |-> n]
Answer(m, kind, c, result) == [m EXCEPT !.kind = kind, !.code = c, !.result = result]
-----------------------------------------------------------------------------
(* start_pairing *)
startPairing(i, p) == [p EXCEPT !.started = TRUE]
StartRequest(i) == Request("start", i, None, 0)

(* The token of a new configuration: its own, or the one in /cache *)
EffectiveToken(own) == IF own THEN Configured ELSE cache.token

(* load: the base permissions are asked for; pairing without a token *)
Load(i, set) ==
    /\ ~plugin[i].loaded
    /\ LET token == EffectiveToken(set.own) IN
         plugin' = [plugin EXCEPT ![i] =
           [Unloaded EXCEPT !.loaded = TRUE, !.wants = set.wants, !.token = token, !.active = token = None]]
    /\ prompts' = [prompts EXCEPT ![i] = {"base"}]
    /\ UNCHANGED <<cache, row, net, page, vouched, got, lost, spent>>

(* its Zellij session ends, or the plugin is reloaded: nobody hears answers *)
Unload(i) ==
    /\ plugin[i].loaded /\ Spend
    /\ plugin' = [plugin EXCEPT ![i] = Unloaded]
    /\ prompts' = [prompts EXCEPT ![i] = {}]
    /\ net' = net \ Mine(i, {"start", "poll", "started", "polled"})
    /\ lost' = lost \cup {m.code : m \in {a \in Mine(i, {"polled"}) : a.result = "approved"}}
    /\ UNCHANGED <<cache, row, page, vouched, got>>

(* ensure_hostname_capability: ask for RunCommands once, or run hostname *)
AsksForHostname(p) == p.wants /\ p.granted /\ p.run = "no"
ensured(p) == IF AsksForHostname(p) THEN [p EXCEPT !.run = "asked"] ELSE p

(* PermissionRequestResult(Granted): with the grant of the base permissions  *)
(* pairing begins at once                                                    *)
BeginsPairing(p) == p.active /\ ~p.started
Grant(i, what) ==
    LET p == [plugin[i] EXCEPT !.granted = TRUE, !.run = IF @ = "asked" THEN "granted" ELSE @]
        begins == BeginsPairing(plugin[i])
        q == IF begins THEN startPairing(i, p) ELSE p
    IN
    /\ Free(i) /\ what \in prompts[i]
    /\ plugin' = [plugin EXCEPT ![i] = ensured(q)]
    /\ net' = IF begins THEN net \cup {[StartRequest(i) EXCEPT !.n = Cardinality(Mine(i, {"start", "started"}))]}
              ELSE net
    /\ prompts' = [prompts EXCEPT ![i] = (@ \ {what}) \cup (IF AsksForHostname(q) THEN {"run"} ELSE {})]
    /\ UNCHANGED <<cache, row, page, vouched, got, lost, spent>>

(* PermissionRequestResult(Denied): of the optional one, telemetry goes on *)
(* mutated form: any denial disables it *)
OptionalNever(p) == FALSE
OptionalDenied(p) == p.granted /\ p.run = "asked"
Deny(i, what) ==
    /\ Free(i) /\ what \in prompts[i]
    /\ plugin' = [plugin EXCEPT ![i].granted = IF OptionalDenied(plugin[i]) THEN @ ELSE FALSE]
    /\ prompts' = [prompts EXCEPT ![i] = @ \ {what}]
    /\ UNCHANGED <<cache, row, net, page, vouched, got, lost, spent>>

(* RunCommandResult of hostname, which runs while it is wanted and granted *)
Hostname(i) ==
    /\ Free(i) /\ plugin[i].run = "granted" /\ plugin[i].wants /\ ~plugin[i].hostname
    /\ plugin' = [plugin EXCEPT ![i].hostname = TRUE]
    /\ UNCHANGED <<prompts, cache, row, net, page, vouched, got, lost, spent>>

(* PluginConfigurationChanged *)
Configure(i, set) ==
    LET token == EffectiveToken(set.own)
        p == [plugin[i] EXCEPT !.token = token, !.wants = set.wants, !.active = IF token # None THEN FALSE ELSE @]
    IN
    /\ Free(i) /\ Spend
    /\ plugin' = [plugin EXCEPT ![i] = ensured(p)]
    /\ prompts' = [prompts EXCEPT ![i] = @ \cup (IF AsksForHostname(p) THEN {"run"} ELSE {})]
    /\ UNCHANGED <<cache, row, net, page, vouched, got, lost>>
-----------------------------------------------------------------------------
(* Event::Timer without a token: pairing_tick *)
Pairs(i) == Free(i) /\ ~hasToken(i) /\ plugin[i].granted /\ ~plugin[i].done

TimerStart(i) ==
    /\ Pairs(i) /\ plugin[i].code = None /\ ~plugin[i].started
    /\ plugin' = [plugin EXCEPT ![i] = startPairing(i, @)]
    /\ net' = net \cup {StartRequest(i)}
    /\ UNCHANGED <<prompts, cache, row, page, vouched, got, lost, spent>>

(* poll_pairing, at its cadence whatever is in flight *)
TimerPoll(i) ==
    /\ Pairs(i) /\ plugin[i].code # None
    /\ \E n \in 1..MaxPolls[i] :
         /\ \A m \in Mine(i, {"poll", "polled"}) : m.n # n
         /\ net' = net \cup {Request("poll", i, plugin[i].code, n)}
    /\ UNCHANGED <<plugin, prompts, cache, row, page, vouched, got, lost, spent>>

(* ... and with one: telemetry_tick, of which the first resolves the machine *)
(* id, reading /cache ...                                                    *)
TimerResolve(i) ==
    /\ Free(i) /\ hasToken(i) /\ plugin[i].granted /\ plugin[i].id = None
    /\ plugin' = [plugin EXCEPT ![i].read = cache.id]
    /\ UNCHANGED <<prompts, cache, row, net, page, vouched, got, lost, spent>>

(* ... and, if it found nothing, writing it *)
Resolved(i) ==
    LET fresh == IF plugin[i].hostname THEN HostId ELSE i
        id == IF plugin[i].read = None THEN fresh ELSE plugin[i].read
    IN
    /\ plugin[i].read # "unread"
    /\ plugin' = [plugin EXCEPT ![i].id = id, ![i].read = "unread"]
    /\ cache' = IF plugin[i].read = None THEN [cache EXCEPT !.id = id] ELSE cache
    /\ UNCHANGED <<prompts, row, net, page, vouched, got, lost, spent>>

(* on_pair_start *)
StartFailed(p) == [p EXCEPT !.started = FALSE]
OnPairStart(i, m) ==
    /\ Free(i) /\ m \in Mine(i, {"started"})
    /\ net' = net \ {m}
    /\ plugin' = [plugin EXCEPT ![i] = IF m.code = None THEN StartFailed(@) ELSE [@ EXCEPT !.code = m.code]]
    /\ UNCHANGED <<prompts, cache, row, page, vouched, got, lost, spent>>

(* on_pair_poll: whatever the session is that was asked about *)
Accepted(p, c) == [p EXCEPT !.token = c, !.active = FALSE, !.done = TRUE]
AfterPoll(p, m) ==
    CASE m.result = "pending"  -> p
      [] m.result = "approved" -> Accepted(p, m.code)
      [] m.result = "expired"  -> [p EXCEPT !.code = None, !.started = FALSE]
      [] m.result \in {"cap_reached", "consumed", "error"} -> [p EXCEPT !.done = TRUE]

OnPairPoll(i, m) ==
    LET q == AfterPoll(plugin[i], m)
        took == m.result = "approved" /\ q.token = m.code
    IN
    /\ Free(i) /\ m \in Mine(i, {"polled"})
    /\ net' = net \ {m}
    /\ plugin' = [plugin EXCEPT ![i] = q]
    /\ cache' = IF took THEN [cache EXCEPT !.token = m.code] ELSE cache
    /\ got' = IF took THEN got \cup {m.code} ELSE got
    /\ UNCHANGED <<prompts, row, page, vouched, lost, spent>>
-----------------------------------------------------------------------------
(* POST /pair/start *)
startSession(m, c) ==
    /\ m \in net /\ m.kind = "start" /\ row[c].status = "unused"
    /\ row' = [row EXCEPT ![c].status = "pending"]
    /\ net' = (net \ {m}) \cup {Answer(m, "started", c, None)}
    /\ UNCHANGED <<plugin, prompts, cache, page, vouched, got, lost, spent>>

(* PAIRING_TTL_SEC have passed *)
Expire(c) ==
    /\ row[c].status \notin {"unused", "consumed"} /\ ~row[c].late
    /\ row' = [row EXCEPT ![c].late = TRUE]
    /\ UNCHANGED <<plugin, prompts, cache, net, page, vouched, got, lost, spent>>

(* POST /pair/poll: pollPairing *)
(* mutated form: the session need not be approved *)
MintableAnyway(c) == row[c].status \in {"pending", "approved"} /\ ~row[c].late
Mintable(c) == row[c].status = "approved" /\ ~row[c].late
Outcomes(c) ==
    CASE row[c].status = "consumed" -> {"consumed"}
      [] row[c].status # "consumed" /\ row[c].late -> {"expired"}
      [] Mintable(c) -> {"approved", "cap_reached"}
      [] OTHER -> {"pending"}

Settled(result, status) ==
    CASE result = "approved" -> "consumed"
      [] result = "expired"  -> "expired"
      [] OTHER -> status

pollPairing(m, result) ==
    /\ m \in net /\ m.kind = "poll" /\ result \in Outcomes(m.code)
    /\ row' = [row EXCEPT ![m.code].status = Settled(result, @)]
    /\ net' = (net \ {m}) \cup {Answer(m, "polled", m.code, result)}
    /\ UNCHANGED <<plugin, prompts, cache, page, vouched, got, lost, spent>>

(* a request or its answer is lost, or refused: the host reports an error *)
Fail(m) ==
    /\ m \in net /\ m.kind \in {"start", "poll", "started", "polled"} /\ Spend
    /\ net' = (net \ {m}) \cup
         {IF m.kind \in {"start", "started"} THEN Answer(m, "started", None, None)
          ELSE Answer(m, "polled", m.code, "error")}
    /\ lost' = IF m.result = "approved" THEN lost \cup {m.code} ELSE lost
    /\ UNCHANGED <<plugin, prompts, cache, row, page, vouched, got>>
-----------------------------------------------------------------------------
(* The pairing page of a signed-in owner, who types what an instance shows   *)
PageTyped(i) ==
    /\ plugin[i].code # None /\ page # plugin[i].code
    /\ page' = plugin[i].code
    /\ UNCHANGED <<plugin, prompts, cache, row, net, vouched, got, lost, spent>>

(* ... and sends: approvePairing, for whose answer the page waits *)
approvePairing ==
    LET ok == row[page].status = "pending" /\ ~row[page].late IN
    /\ page # None
    /\ row' = IF ok THEN [row EXCEPT ![page].status = "approved"] ELSE row
    /\ vouched' = IF ok THEN vouched \cup {page} ELSE vouched
    /\ page' = IF ok THEN None ELSE page
    /\ UNCHANGED <<plugin, prompts, cache, net, got, lost, spent>>
-----------------------------------------------------------------------------
Handles(i) ==
    \/ TimerStart(i) \/ TimerPoll(i) \/ TimerResolve(i) \/ Resolved(i) \/ Hostname(i)
    \/ \E m \in net : OnPairStart(i, m) \/ OnPairPoll(i, m)
Serves ==
    \E m \in net :
        \/ \E c \in Codes : startSession(m, c)
        \/ \E r \in Results : pollPairing(m, r)

Next ==
    \/ \E i \in Instances :
         \/ \E set \in Settings[i] : Load(i, set) \/ Configure(i, set)
         \/ Unload(i) \/ PageTyped(i) \/ Handles(i)
         \/ \E what \in {"base", "run"} : Grant(i, what) \/ Deny(i, what)
    \/ Serves
    \/ \E m \in net : Fail(m)
    \/ \E c \in Codes : Expire(c)
    \/ approvePairing
-----------------------------------------------------------------------------
(* A code yields its token once, and that token arrives: a consumed session  *)
(* has an approved answer on its way, unless an instance took it already,    *)
(* however the polls of the session overtook each other, or it was lost.     *)
TokenAccounted ==
    \A c \in Codes : row[c].status = "consumed" =>
        c \in got \cup lost \/ \E m \in net : m.kind = "polled" /\ m.code = c /\ m.result = "approved"

(* A token is taken only after the owner approved its code on the page, and  *)
(* whoever reports with a paired token finds it, or a later one, in /cache.  *)
TokenApproved ==
    \A i \in Instances : plugin[i].token \in Codes =>
        /\ plugin[i].token \in vouched /\ row[plugin[i].token].status = "consumed"
        /\ cache.token # None

(* Pairing never wedges: an instance that has started it and shows no code   *)
(* is owed an answer to /pair/start, although permission results, retries,   *)
(* expired codes and answers that come late all set and reset the flag.      *)
StartPending ==
    \A i \in Instances : plugin[i].started /\ plugin[i].code = None => Mine(i, {"start", "started"}) # {}

(* Refusing the optional RunCommands permission never stops telemetry.       *)
CoreKept ==
    \A i \in Instances : plugin[i].granted /\ plugin'[i].loaded => plugin'[i].granted

(* A host that was paired stays paired: no instance loses its token while    *)
(* /cache holds one, whatever its configuration becomes.                     *)
TokenKept ==
    \A i \in Instances :
        hasToken(i) /\ cache.token # None /\ plugin'[i].loaded => plugin'[i].token # None
=============================================================================
