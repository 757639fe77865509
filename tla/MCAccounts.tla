------------------------------ MODULE MCAccounts ------------------------------
(* Accounts with their grants, the bots' sockets, a user's commands over     *)
(* one of them, the distribution server and the integrations page, one at a *)
(* time: the variables of the others keep one value.  Commands are given    *)
(* over one loop and meet one trouble at most.                              *)
EXTENDS Integrations, BotCommands, Release, LinkPage, TLC

TwoUsers == "u1" :> "discord" @@ "u2" :> "discord"
Swapped == Permutations(Browsers)
Offers == {{"google"}, {"google", "local"}}

VARIABLE part

vars == <<part, allVars, socketVars, commandVars, releaseVars, linkPageVars>>

Is(p) == part = p
Init ==
    /\ part \in {"accounts", "sockets", "commands", "release", "page"}
    /\ IntegrationsInit
    /\ Is("accounts") \/ (offer = {"google"} /\ cookie = [b \in Browsers |-> NoCookie])
    /\ CommandsInit
    /\ trouble = IF Is("sockets") THEN 0 ELSE MaxTrouble - 1
    /\ up => part \in {"sockets", "commands"}
    /\ ReleaseInit /\ (allowPre => Is("release"))
    /\ LinkPageInit /\ (links # NoLinks => Is("page"))

Rest(p) ==
    /\ UNCHANGED part
    /\ p # "accounts" => UNCHANGED allVars
    /\ p \notin {"sockets", "commands"} => UNCHANGED socketVars
    /\ p # "commands" => UNCHANGED commandVars
    /\ p # "release" => UNCHANGED releaseVars
    /\ p # "page" => UNCHANGED linkPageVars

Next ==
    \/ Is("accounts") /\ AccountsNext /\ Rest("accounts")
    \/ Is("sockets") /\ SocketNext /\ Rest("sockets")
    \/ Is("commands") /\ CommandsNext /\ (\A l \in Loops : l > 1 => loop'[l] = Off) /\ Rest("commands")
    \/ Is("release") /\ ReleaseNext /\ Rest("release")
    \/ Is("page") /\ LinkPageNext /\ Rest("page")

Spec == Init /\ [][Next]_vars
-----------------------------------------------------------------------------
(* An account's sessions are its owner's and end for good when it says so,  *)
(* and the secret that opens one is guessed at a bounded rate.              *)
SignInSound == Is("accounts") => (IntegrationsTypeOK /\ EndedForGood /\ OwnAccount /\ GuessesBounded)

(* What an account was granted, it has: the tier its codes paid for, up to  *)
(* the cap, and the chat users that its own tokens were used by.            *)
GrantsSound == Is("accounts") => (ProKept /\ TierCapped /\ SingleUse)

(* No step takes from an account what it was granted: a redemption extends  *)
(* the window in full, and a link is revoked by its owner only.             *)
NothingTaken == [][FullExtension /\ RevokedByOwner]_allVars

(* A backend that accepts and drops at once is not stormed, and the bots'    *)
(* sockets, backoffs and commands keep their types.                         *)
BackoffKept == NoStorm /\ (Is("sockets") \/ Is("commands") => CommandsTypeOK)

(* What the distribution server has by now, and the types of the parts.     *)
MirrorsLatest ==
    /\ Is("release") => (Mirrors /\ ReleaseTypeOK)
    /\ Is("page") => LinkPageTypeOK

(* The idle sweep never drops a healthy bot, the server never goes back to   *)
(* a lower release, and the command is dropped only once a link has changed. *)
NoFalseEnd == [][HealthyKept /\ Ratchet /\ DropMeansChange]_vars
=============================================================================
