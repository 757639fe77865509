----------------------------- MODULE BotCommands -----------------------------
(***************************************************************************)
(* One chat user's commands to a bot, over its socket: /link as a slash    *)
(* command, whose deferred response the link result fills in, /link as a   *)
(* message (Telegram, and text pasted to the Discord bot), and /unlink.    *)
(* What is sent while _ws is Nil is dropped without a word.  How a token  *)
(* is verified and claimed is the subject of Integrations.                 *)
(***************************************************************************)
EXTENDS BotSocket

CONSTANT Asks   \* the commands the user gives, bounded

VARIABLES
    ask,     \* a command: its kind, whether its token is good, where it is, and what its own response shows
    pending, \* _pending_links[user]: the interaction that waits for a link result
    chatLink, \* the user's ChannelLink
    told     \* the last thing the bot told the user, and how many results it has

commandVars == <<ask, pending, chatLink, told>>

NoAsk == [kind |-> "none", good |-> FALSE, at |-> "none", sock |-> Nil, shown |-> "nothing"]

CommandsTypeOK ==
    /\ SocketTypeOK
    /\ ask \in [Asks -> [kind : {"none", "slash", "text", "unlink"}, good : BOOLEAN,
                         at : {"none", "sent", "work", "back", "done", "lost"}, sock : Socks \cup {Nil},
                         shown : {"nothing", "thinking", "linked", "failed"}]]
    /\ pending \in Asks \cup {Nil}
    /\ chatLink \in {"none", "active", "revoked"}
    /\ told \in {"nothing", "linked", "failed", "unlinked"}

CommandsInit ==
    /\ SocketInit
    /\ ask = [a \in Asks |-> NoAsk]
    /\ pending = Nil /\ chatLink = "none" /\ told = "nothing"
-----------------------------------------------------------------------------
(* BotClient.send *)
Sent(kind, good, shown) ==
    [kind |-> kind, good |-> good, shown |-> shown,
     at |-> IF slot = Nil THEN "lost" ELSE "sent", sock |-> slot]

(* the bot serves its users once it is ready *)
Typed(a) == /\ ask[a] = NoAsk /\ \A b \in Asks : b < a => ask[b] # NoAsk
            /\ \E l \in Loops : loop[l] # Off

(* link_cmd: the response is deferred and remembered, by the user *)
SlashLink(a, good) ==
    /\ Typed(a)
    /\ pending' = a
    /\ ask' = [ask EXCEPT ![a] = Sent("slash", good, "thinking")]
    /\ UNCHANGED <<socketVars, chatLink, told>>

TextLink(a, good) ==
    /\ Typed(a)
    /\ ask' = [ask EXCEPT ![a] = Sent("text", good, "nothing")]
    /\ UNCHANGED <<socketVars, pending, chatLink, told>>

(* unlink_cmd, on_unlink: "Unlinked" is the answer whatever became of the notice *)
UnlinkCmd(a) ==
    /\ Typed(a)
    /\ ask' = [ask EXCEPT ![a] = Sent("unlink", FALSE, "nothing")]
    /\ told' = "unlinked"
    /\ UNCHANGED <<socketVars, pending, chatLink>>
-----------------------------------------------------------------------------
(* the hub: frames are handled side by side, so not always in their order;  *)
(* those of a connection that has not said hello are ignored                *)
HubTakes(a) ==
    LET k == ask[a] IN
    /\ k.at = "sent" /\ k.sock \in registered
    /\ chatLink' = CASE k.kind = "unlink" /\ chatLink # "none" -> "revoked"
                 [] k.kind # "unlink" /\ k.good -> "active"
                 [] OTHER -> chatLink
    /\ ask' = [ask EXCEPT ![a].at = IF k.kind = "unlink" THEN "done" ELSE "work"]
    /\ UNCHANGED <<socketVars, pending, told>>

(* mutated form: every request is answered with success *)
AllGood(a) == "linked"
Outcome(a) == IF ask[a].good THEN "linked" ELSE "failed"

(* link_result, to the connection the request came by *)
Replies(a) ==
    LET s == ask[a].sock IN
    /\ ask[a].at = "work"
    /\ ask' = [ask EXCEPT ![a].at = IF s # Nil /\ sock[s].alive /\ sock[s].bot /\ sock[s].hub THEN "back" ELSE "lost"]
    /\ UNCHANGED <<socketVars, pending, chatLink, told>>

(* on_backend: the interaction that is pending for the user is filled in,   *)
(* whichever command it came from; one that has expired, or none, and the   *)
(* user gets a message, unless that cannot be sent                          *)
Gets(a) ==
    LET done == [ask EXCEPT ![a].at = "done"] IN
    /\ ask[a].at = "back"
    /\ pending' = Nil
    /\ \/ pending # Nil /\ ask' = [done EXCEPT ![pending].shown = Outcome(a)] /\ told' = Outcome(a)
       \/ ask' = done /\ told' = Outcome(a)
       \/ ask' = done /\ told' = told
    /\ UNCHANGED <<socketVars, chatLink>>

(* frames go with their socket: those for the hub when its end is gone or   *)
(* the path is, those for the bot when the bot's is                         *)
Carried ==
    ask' = [a \in Asks |->
      LET k == ask[a] s == k.sock IN
      IF k.at = "sent" /\ ~(sock'[s].alive /\ sock'[s].hub) THEN [k EXCEPT !.at = "lost", !.sock = Nil]
      ELSE IF k.at = "back" /\ ~(sock'[s].alive /\ sock'[s].bot) THEN [k EXCEPT !.at = "lost", !.sock = Nil]
      ELSE IF k.at = "work" /\ s # Nil /\ sock'[s] = NoSock THEN [k EXCEPT !.sock = Nil]
      ELSE k]

(* a close comes after the frames that went before it *)
InOrder == \A s \in Socks : sock[s].hub /\ ~sock'[s].hub /\ ~sock[s].bot /\ trouble' = trouble
                            => \A a \in Asks : ask[a].at = "sent" => ask[a].sock # s

OverSocket ==
    /\ SocketNext /\ Carried /\ InOrder
    /\ pending' = IF \A l \in Loops : loop'[l] = Off THEN Nil ELSE pending
    /\ UNCHANGED <<chatLink, told>>

CommandsNext ==
    \/ OverSocket
    \/ \E a \in Asks :
         \/ \E good \in BOOLEAN : SlashLink(a, good) \/ TextLink(a, good)
         \/ UnlinkCmd(a) \/ HubTakes(a) \/ Replies(a) \/ Gets(a)
-----------------------------------------------------------------------------
(* The bot tells a user that the account is linked only once it has been.    *)
ToldLinked == told = "linked" => chatLink # "none"
=============================================================================
