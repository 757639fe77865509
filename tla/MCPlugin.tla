------------------------------ MODULE MCPlugin ------------------------------
(* The plugin.  Either what an instance with one pane says: with settings    *)
(* that hide by a key, by an invalid key and by the baseline, that ask for   *)
(* the hostname, share output and log.  Or how the instances of a host with  *)
(* two Zellij sessions come to say anything: one wants the hostname, and may *)
(* have two polls on their way; the other pairs, but finds a token in /cache *)
(* at best.                                                                  *)
EXTENDS Watcher, TLC

CONSTANTS p1, i1, i2, c1, c2,
          Instances, Codes, Settings, MaxPolls, MaxMishaps

Quiet == [full |-> None, names |-> None, machine |-> None, hostname |-> None, output |-> None, debug |-> None]
SomeRaws ==
    {Quiet,
     [Quiet EXCEPT !.names = "bad", !.hostname = "on", !.output = "on"],
     [Quiet EXCEPT !.full = "bad", !.machine = "alias", !.debug = "on"]}
TwoSettings == [i \in Instances |-> [own : {FALSE}, wants : {i = i1}]]
Polls == [i \in Instances |-> IF i = i1 THEN 2 ELSE 0]

(* The intervals are ticks, what a user wrote for a key is one of a few.     *)
ASSUME PluginAssumption ==
    /\ OnsetDebounce > 0 /\ StaleTicks \in Nat /\ MaxEvents \in Nat
    /\ Raws \subseteq [full : {None, "on", "off", "bad"}, names : {None, "send", "hidden", "bad"},
                      machine : {None, "real", "alias", "hidden", "alias:", "bad"},
                      hostname : {None, "on", "off", "bad"}, output : {None, "on", "off", "bad"},
                      debug : {None, "on", "off", "bad"}]
(* A code is not taken for a missing or a configured token.                  *)
ASSUME PairingAssumption ==
    /\ {None, "configured"} \cap Codes = {} /\ MaxMishaps \in Nat
    /\ Settings \in [Instances -> SUBSET [own : BOOLEAN, wants : BOOLEAN]]

VARIABLES plugin, prompts, files, row, net, page, vouched, got, lost, spent,
          part

D == INSTANCE Pairing WITH cache <- files, MaxEvents <- MaxMishaps
host == <<plugin, prompts, files, row, net, page, vouched, got, lost, spent>>

MCInit ==
    /\ part \in {"watcher", "pairing"} /\ Init /\ D!Init
    /\ part = "pairing" => raw = Quiet /\ world.title[p1] = "plain"
(* of the codes, which are interchangeable, c1 is taken first *)
MCNext ==
    /\ UNCHANGED part
    /\ \/ part = "watcher" /\ Next /\ UNCHANGED host
       \/ /\ part = "pairing" /\ D!Next /\ UNCHANGED vars
          /\ row'[c2].status # "unused" => row'[c1].status # "unused"
MCSpec == MCInit /\ [][MCNext]_<<vars, host, part>>
-----------------------------------------------------------------------------
(* What the plugin tells of attentions is true: nothing is told as thinking  *)
(* long after it finished, a question is heard within the debounce, and the  *)
(* onsets and clears of the debug log add up to what was seen last.          *)
AttentionsTrue == ThinkingFades /\ QuestionHeard /\ LogReplays

(* The settings hold: a name that they hide is not in what was sent last,    *)
(* once a debounce has passed, and a render they do not share is not kept.   *)
SettingsHold == HiddenSoon /\ NothingKept /\ TypeOK

(* Pairing yields its token and never wedges: no token is lost by an answer  *)
(* that comes late, none is taken that the owner did not approve, and an     *)
(* instance that asked for a code is owed one.                               *)
PairingSound == D!TypeOK /\ D!TokenAccounted /\ D!TokenApproved /\ D!StartPending

(* What an instance has it keeps: a refused optional permission takes no     *)
(* grant away, and a change of settings no token that /cache holds.          *)
NothingRevoked == [][D!CoreKept /\ D!TokenKept]_host
=============================================================================
