------------------------------ MODULE LinkPage ------------------------------
(***************************************************************************)
(* The integrations page, for one platform: after a token is minted it     *)
(* shows the command and polls the account's links, and drops the command  *)
(* once a poll sees other links than the first poll did, one of them       *)
(* active.  Polls are started by an interval and not awaited, and one that *)
(* was started for an earlier token still has its say.                     *)
(***************************************************************************)
EXTENDS Naturals

CONSTANTS
    Chats,      \* the chat users linked, or to be, to this account
    Calls,      \* bounds the polls under way
    MaxPolls,   \* 120 s of polls every 3 s
    MaxMints,   \* bounds the tokens minted
    MaxChanges  \* bounds the other changes of links and the polls that fail

ASSUME LinkPageAssumption == MaxPolls \in Nat \ {0} /\ MaxMints \in Nat \ {0} /\ MaxChanges \in Nat

VARIABLES
    links,    \* ChannelLink of each chat user, by its status
    shown,    \* whether the command is
    token,    \* the tokens minted so far, the last of which is current
    open,     \* whether the current token can be redeemed
    baseline, \* what the first poll of each token saw
    polls,    \* polls left until the page gives up
    call,     \* polls under way: for which token, and the links read
    changes,
    moved     \* the tokens since whose mint a link has changed (history)

linkPageVars == <<links, shown, token, open, baseline, polls, call, changes, moved>>

Lists == [Chats -> {"none", "active", "revoked"}]
NoLinks == [c \in Chats |-> "none"]
Unread == [known |-> FALSE, seen |-> NoLinks]
Reads == [known : BOOLEAN, seen : Lists]
Minted == 1..MaxMints

LinkPageTypeOK ==
    /\ links \in Lists /\ shown \in BOOLEAN /\ open \in BOOLEAN
    /\ token \in 0..MaxMints /\ polls \in 0..MaxPolls /\ changes \in 0..MaxChanges
    /\ baseline \in [Minted -> Reads]
    /\ call \in [Calls -> [token : 0..MaxMints, read : Reads]]
    /\ moved \subseteq Minted

NoCall == [token |-> 0, read |-> Unread]

LinkPageInit ==
    /\ links \in Lists
    /\ shown = FALSE /\ token = 0 /\ open = FALSE /\ polls = 0 /\ changes = 0 /\ moved = {}
    /\ baseline = [t \in Minted |-> Unread]
    /\ call = [c \in Calls |-> NoCall]
-----------------------------------------------------------------------------
(* connect: the effect of the new command starts its interval and ends the  *)
(* one before                                                               *)
Mint ==
    /\ token < MaxMints /\ token' = token + 1
    /\ shown' = TRUE /\ open' = TRUE /\ polls' = MaxPolls
    /\ UNCHANGED <<links, baseline, call, changes, moved>>

(* the user runs /link in the chat *)
SetLink(u, status) ==
    /\ links' = [links EXCEPT ![u] = status]
    /\ moved' = IF links' = links THEN moved ELSE moved \cup 1..token

Redeem(u) ==
    /\ open /\ open' = FALSE
    /\ SetLink(u, "active")
    /\ UNCHANGED <<shown, token, baseline, polls, call, changes>>

(* another tab, or an unlink, here or in the chat *)
Elsewhere(u, status) ==
    /\ changes < MaxChanges /\ changes' = changes + 1 /\ links[u] # status
    /\ SetLink(u, status)
    /\ UNCHANGED <<shown, token, open, baseline, polls, call>>

PollStarts(c) ==
    /\ shown /\ polls > 0 /\ call[c] = NoCall
    /\ polls' = polls - 1
    /\ call' = [call EXCEPT ![c] = [NoCall EXCEPT !.token = token]]
    /\ UNCHANGED <<links, shown, token, open, baseline, changes, moved>>

PollReads(c) ==
    /\ call[c].token # 0 /\ ~call[c].read.known
    /\ call' = [call EXCEPT ![c].read = [known |-> TRUE, seen |-> links]]
    /\ UNCHANGED <<links, shown, token, open, baseline, polls, changes, moved>>

BaselineOf(t) == baseline[t]
Lands(c) ==
    /\ BaselineOf(call[c].token).known
    /\ call[c].read.seen # BaselineOf(call[c].token).seen
    /\ \E u \in Chats : call[c].read.seen[u] = "active"

PollEnds(c) ==
    LET t == call[c].token IN
    /\ call[c].read.known
    /\ call' = [call EXCEPT ![c] = NoCall]
    /\ baseline' = IF baseline[t].known THEN baseline ELSE [baseline EXCEPT ![t] = call[c].read]
    /\ shown' = (shown /\ ~Lands(c))
    /\ UNCHANGED <<links, token, open, polls, changes, moved>>

PollFails(c) ==
    /\ call[c].token # 0 /\ changes < MaxChanges /\ changes' = changes + 1
    /\ call' = [call EXCEPT ![c] = NoCall]
    /\ UNCHANGED <<links, shown, token, open, baseline, polls, moved>>

LinkPageNext ==
    \/ Mint
    \/ \E u \in Chats : Redeem(u) \/ \E status \in {"active", "revoked"} : Elsewhere(u, status)
    \/ \E c \in Calls : PollStarts(c) \/ PollReads(c) \/ PollEnds(c) \/ PollFails(c)
-----------------------------------------------------------------------------
(* A poll drops the command only if a link has changed since its token was    *)
(* minted, in whatever order the polls of two tokens are read and answered.   *)
DropMeansChange ==
    \A c \in Calls : (shown /\ ~shown' /\ call'[c] # call[c]) => call[c].token \in moved
=============================================================================
