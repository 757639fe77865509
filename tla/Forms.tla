-------------------------------- MODULE Forms --------------------------------
(***************************************************************************)
(* Two forms of one field (pair/page.tsx, RedeemPromo.tsx), and the answers *)
(* to them.  A code is 1 or 2; 0 is an empty field, and for pairing a code *)
(* that is not complete.                                                   *)
(***************************************************************************)
EXTENDS Naturals, FiniteSets

CONSTANTS
    Good,       \* the codes the backend takes, each of them once
    MaxSubmits  \* bounds the submissions of a form

VARIABLES
    form,    \* "pair" or "redeem"
    text,    \* what is in its field
    busy,
    says,    \* what it says: "nothing", "ok", "info", or an error: "unknown", "used" or "failed"
    paired,  \* the banner of the pairing page
    status,  \* of that page: "loading", "anon" if nobody is signed in, or "ready"
    out,     \* the submissions on their way, as [n, code]
    submits, \* how many there have been
    taken,   \* the codes the backend has taken
    unheard, \* is a success not on the page, with nothing done about it since? (history)
    twice    \* has one been sent while another was on its way? (history)

formVars == <<form, text, busy, says, paired, status, out, submits, taken, unheard, twice>>
-----------------------------------------------------------------------------
(* the page of the pairing form opens: the code of a link is filled in, and    *)
(* who is signed in decides whether there is a form                           *)
Prefill(c) ==
    /\ form = "pair" /\ status = "loading" /\ text = 0 /\ text' = c
    /\ UNCHANGED <<form, busy, says, paired, status, out, submits, taken, unheard, twice>>

Opens(who) ==
    /\ status = "loading" /\ status' = who
    /\ UNCHANGED <<form, text, busy, says, paired, out, submits, taken, unheard, twice>>

HasForm == status = "ready"

(* a change of the field takes back an error; for redeem, any message *)
Type(c) ==
    /\ HasForm /\ c # text /\ text' = c
    /\ says' = "nothing"
    /\ unheard' = (form = "pair" /\ unheard)
    /\ UNCHANGED <<form, busy, paired, status, out, submits, taken, twice>>

(* the button of either form is off while it is busy, and so is Enter in the   *)
(* pairing form; Enter in the other is not                                     *)
EnterAnyway(enter) == enter /\ form = "redeem"
Enabled(enter) == ~busy \/ EnterAnyway(enter)

Submit(enter) ==
    /\ HasForm /\ Enabled(enter) /\ text # 0 /\ submits < MaxSubmits
    /\ busy' = TRUE /\ says' = "nothing" /\ submits' = submits + 1
    /\ out' = out \cup {[n |-> submits + 1, code |-> text]}
    /\ twice' = (twice \/ out # {})
    /\ unheard' = (form = "pair" /\ unheard)
    /\ UNCHANGED <<form, text, paired, status, taken>>

SubmitNothing ==
    /\ form = "redeem" /\ text = 0
    /\ says' = "info" /\ unheard' = FALSE
    /\ UNCHANGED <<form, text, busy, paired, status, out, submits, taken, twice>>

(* approveErrorMessage, or the message of the backend *)
Problem(o) == IF o.code \in taken THEN "used" ELSE IF o.code \in Good THEN "failed" ELSE "unknown"
Problems(o) == {Problem(o), "failed"}
Announce(what) ==
    IF form = "pair" THEN paired' = (paired \/ what = "ok") /\ says' = (IF what = "ok" THEN says ELSE what)
    ELSE says' = what /\ UNCHANGED paired

Succeeds(o) ==
    /\ o \in out /\ out' = out \ {o} /\ o.code \in Good \ taken
    /\ taken' = taken \cup {o.code}
    /\ Announce("ok") /\ text' = 0 /\ busy' = FALSE
    /\ unheard' = TRUE
    /\ UNCHANGED <<form, status, submits, twice>>

(* refused, too many, or lost: before the backend took it, or after *)
Refused(o) ==
    /\ o \in out /\ out' = out \ {o}
    /\ \E what \in Problems(o) :
         /\ Announce(what)
         /\ taken' \in {taken} \cup (IF what = "failed" /\ o.code \in Good THEN {taken \cup {o.code}} ELSE {})
    /\ busy' = FALSE
    /\ UNCHANGED <<form, text, status, submits, unheard, twice>>

Unauthorized(o) ==
    /\ form = "pair" /\ o \in out /\ out' = out \ {o}
    /\ status' = "anon" /\ busy' = FALSE
    /\ UNCHANGED <<form, text, says, paired, submits, taken, unheard, twice>>

PairAnother == paired /\ paired' = FALSE /\ unheard' = FALSE /\ UNCHANGED <<form, text, busy, says, status, out, submits, taken, twice>>

(* onRedeemed: the page that holds the form is loaded again                  *)
Reloads ==
    /\ form = "redeem" /\ unheard
    /\ text' = 0 /\ busy' = FALSE /\ says' = "nothing" /\ out' = {} /\ unheard' = FALSE
    /\ UNCHANGED <<form, paired, status, submits, taken, twice>>

FormsInit ==
    /\ form \in {"pair", "redeem"} /\ text = 0 /\ busy = FALSE /\ says = "nothing" /\ paired = FALSE
    /\ status = IF form = "pair" THEN "loading" ELSE "ready"
    /\ out = {} /\ submits = 0 /\ taken = {} /\ unheard = FALSE /\ twice = FALSE

FormsNext ==
    \/ \E c \in 0..2 : Type(c) \/ Prefill(c)
    \/ \E who \in {"anon", "ready"} : Opens(who)
    \/ \E enter \in BOOLEAN : Submit(enter)
    \/ SubmitNothing
    \/ \E o \in out : Succeeds(o) \/ Refused(o) \/ Unauthorized(o)
    \/ PairAnother \/ Reloads

(* What was done is said: a code that was taken is on the page until the user *)
(* goes on, unless two submissions of the same form were on their way at once *)
(* (which the pairing form never has) or the answer was lost; a form is busy  *)
(* as long as one is on its way; and a code said to be used has been used, if *)
(* only by a submission whose answer was lost.                                *)
SuccessIsSaid ==
    /\ twice => form = "redeem"
    /\ unheard /\ status # "anon" /\ ~twice => (paired \/ says = "ok")
    /\ out # {} /\ ~twice => busy
    /\ says = "used" => taken # {}
    /\ status # "ready" => out = {}
=============================================================================
