------------------------------ MODULE MCPages ------------------------------
(* One page, or one part of a page, is open, as it would be alone; the      *)
(* variables of the others keep one value.                                  *)
EXTENDS Dashboard, Album, TokensPage, TLC

CONSTANTS
    AlbumEvents,                                  \* bounds the events while the album is open
    Sids, Named, Names, Bucket, MaxClock, MaxSent, \* Views
    Codes, MaxCodes,                              \* Ansi
    CoolDown, NudgeWindow, MaxNow, MaxPresses,    \* RefreshButton
    Tabs, Accounts, MaxEnds, MaxRows,             \* PushDevice
    Good, MaxSubmits, MaxLogins,                  \* Forms, PopupLogin
    RowPanes, ClaudeOnes, FreshFor, MaxTime, MaxEdits, \* Rows
    MaxDeploys, MaxWindows, MaxPushes, MaxTries,  \* Worker
    Ways, StateTTL, MaxHours, MaxStarts, MaxReplays \* OAuth

(* The pauses of the refresh button and the life of a signed state are periods, *)
(* the ids of the cards' machines and their names are ordered, time is cut into *)
(* buckets, no session is the machine scope, and what is bounded is counted.    *)
ASSUME PagesAssumption ==
    /\ CoolDown \in Nat \ {0} /\ NudgeWindow \in Nat /\ StateTTL \in Nat
    /\ Named \subseteq Nat /\ IsFiniteSet(Named) /\ Names \subseteq Nat /\ Bucket \in Nat \ {0}
    /\ IsFiniteSet(Sids) /\ 0 \notin Sids /\ IsFiniteSet(RowPanes)
    /\ {MaxClock, FreshFor, MaxTime, MaxDeploys, MaxWindows} \subseteq Nat

VARIABLES
    open,
    row, badges, mode, seen, active, name, needs, order, now, sent,
    before, codes, look, taking,
    at, button, left, request, level, looked, clicks, reloads, nudged, tooSoon, pressed, load, prior, elsewhere,
    perm, cookie, endpoint, ends, bell, enabling, rows, made, push, owes, together,
    form, text, working, says, paired, signedIn, out, submits, taken, unheard, twice,
    logins, cleanup, listeners, polls, pending, window, posted, answered,
    session, panes, changed, alerts, onlyClaude, mounted, time, ahead, timer, due, nows, edits,
    site, cache, online, worker, coming, stores, missed, got, windows, focus, pushed, tray, tries,
    hour, starts, consent, callbacks, handling, replays, consented, spent, called, answers

V == INSTANCE Views WITH Machines <- Named, pane <- row, attn <- badges, cards <- order, clock <- now
Colours == INSTANCE Ansi
Refresh == INSTANCE RefreshButton
Push == INSTANCE PushDevice WITH button <- bell
F == INSTANCE Forms WITH busy <- working, status <- signedIn
Popup == INSTANCE PopupLogin WITH told <- answered
R == INSTANCE Rows WITH pane <- panes, only <- onlyClaude
Sw == INSTANCE Worker
Consent == INSTANCE OAuth WITH MaxNow <- MaxHours, clock <- hour, name <- called

viewsVars == <<row, badges, mode, seen, active, name, needs, order, now, sent>>
ansiVars == <<before, codes, look, taking>>
refreshVars == <<at, button, left, request, level, looked, clicks, reloads, nudged, tooSoon, pressed, load, prior, elsewhere>>
pushVars == <<perm, cookie, endpoint, ends, bell, enabling, rows, made, push, owes, together>>
formVars == <<form, text, working, says, paired, signedIn, out, submits, taken, unheard, twice>>
popupVars == <<logins, cleanup, listeners, polls, pending, window, posted, answered>>
rowsVars == <<session, panes, changed, alerts, onlyClaude, mounted, time, ahead, timer, due, nows, edits>>
workerVars == <<site, cache, online, worker, coming, stores, missed, got, windows, focus, pushed, tray, tries>>
oauthVars == <<hour, starts, consent, callbacks, handling, replays, consented, spent, called, answers>>
laterVars == <<rowsVars, workerVars, oauthVars>>
fullPageVars == <<sharedVars, dashVars, albumVars, tokensPageVars>>
Only(what) == open = what
Pages == {"dashboard", "album", "tokens"}
Init ==
    /\ open \in Pages \cup {"tree", "badges", "sent", "cards", "output", "refresh", "bell", "form", "popup",
                         "rows", "worker", "consent"}
    /\ StreamInit /\ (open \notin {"dashboard", "album"} => others = 0 /\ page = "album")
    /\ (open \in {"dashboard", "album"} => page = open)
    /\ DashInit
    /\ AlbumInit /\ (runningOnly => Only("album"))
    /\ TokensPageInit
    /\ Only("tokens") \/ \A t \in Toks, m \in Machs : state[t] = "none" /\ holder[m] = Gone
    /\ V!ViewsInit /\ (Only("cards") \/ \A m \in Named : name[m] = 0)
    /\ Colours!AnsiInit /\ (Only("output") \/ before = Colours!Plain)
    /\ Refresh!RefreshInit
    /\ Push!PushInit
    /\ F!FormsInit /\ (Only("form") \/ form = "pair")
    /\ Popup!PopupInit
    /\ R!RowsInit /\ (ahead = 1 => Only("rows"))
    /\ Sw!WorkerInit
    /\ Consent!OAuthInit

PageNext ==
    /\ UNCHANGED page
    /\ \/ Only("dashboard") /\ DashNext /\ UNCHANGED <<albumVars, tokensPageVars>>
       \/ Only("album") /\ AlbumNext /\ events' <= AlbumEvents /\ UNCHANGED <<dashVars, tokensPageVars>>
       \/ Only("tokens") /\ TokensPageNext /\ UNCHANGED <<sharedVars, dashVars, albumVars>>
ViewNext ==
    \/ Only("tree") /\ V!ReportNext
    \/ Only("badges") /\ V!AttendNext
    \/ Only("sent") /\ V!SentNext
    \/ Only("cards") /\ V!CardsNext

LaterNext ==
    \/ Only("rows") /\ R!RowsNext /\ UNCHANGED <<workerVars, oauthVars>>
    \/ Only("worker") /\ Sw!WorkerNext /\ UNCHANGED <<rowsVars, oauthVars>>
    \/ Only("consent") /\ Consent!OAuthNext /\ UNCHANGED <<rowsVars, workerVars>>

EarlierNext ==
    /\ UNCHANGED laterVars
    /\ \/ PageNext /\ UNCHANGED <<viewsVars, ansiVars, refreshVars, pushVars, formVars, popupVars>>
       \/ /\ UNCHANGED fullPageVars
          /\ \/ ViewNext /\ UNCHANGED <<ansiVars, refreshVars, pushVars, formVars, popupVars>>
             \/ /\ UNCHANGED viewsVars
                /\ \/ Only("output") /\ Colours!AnsiNext /\ UNCHANGED <<refreshVars, pushVars, formVars, popupVars>>
                   \/ Only("refresh") /\ Refresh!RefreshNext /\ UNCHANGED <<ansiVars, pushVars, formVars, popupVars>>
                   \/ Only("bell") /\ Push!PushNext /\ UNCHANGED <<ansiVars, refreshVars, formVars, popupVars>>
                   \/ Only("form") /\ F!FormsNext /\ UNCHANGED <<ansiVars, refreshVars, pushVars, popupVars>>
                   \/ Only("popup") /\ Popup!PopupNext /\ UNCHANGED <<ansiVars, refreshVars, pushVars, formVars>>

earlierVars == <<fullPageVars, viewsVars, ansiVars, refreshVars, pushVars, formVars, popupVars>>
Next == UNCHANGED open /\ (EarlierNext \/ (LaterNext /\ UNCHANGED earlierVars))

allVars == <<open, earlierVars, laterVars>>
Spec == Init /\ [][Next]_allVars

\* panes of different sessions have the same number
TwoPanes == {<<1, 7>>, <<2, 7>>}
OneClaude == {<<1, 7>>}
Alike == Permutations(Tabs) \cup Permutations(Accounts)

(* The page that is open is never without a way to hear of changes, and once  *)
(* it has handled what it heard it shows what there is, and something that is *)
(* there.                                                                     *)
PageCaughtUp ==
    /\ Only("dashboard") => DashTypeOK /\ NeverBlind /\ CaughtUp
    /\ Only("album") => AlbumTypeOK /\ NeverBlind /\ AlbumCaughtUp /\ OnView

(* The tokens page shows what its own operations did, and is busy while one   *)
(* that it announced as such is.                                              *)
OwnWork == Only("tokens") => TokensPageTypeOK /\ OwnWorkShown /\ BusyHonest

(* What two parts of the program make of the same data agrees: the panes that *)
(* are Claude's, badges and counts, the ages of the rows and the clock, the   *)
(* colours of a terminal, the service worker's shell and what is deployed.    *)
SameReading ==
    /\ open \in {"tree", "badges", "sent", "cards"} => V!ViewsTypeOK /\ V!ReadingsAgree
    /\ Only("rows") => R!RowsHonest
    /\ Only("output") => Colours!AsTerminal
    /\ Only("worker") => Sw!ShellSound

(* What a button or a form says is what became of it: a page alone with a     *)
(* machine is not told to slow down, and hints at reloads only when they were *)
(* earned; a tab that turned notifications on itself has its row as long as   *)
(* it is open and its endpoint lives (a tab that finds the permission granted *)
(* and asks for nothing is not covered); a code that was taken is said to be; *)
(* a popup has one outcome; and a code of a provider signs in once.           *)
ButtonsHonest ==
    /\ Only("refresh") => Refresh!NeverTooSoon /\ Refresh!NudgeEarned
    /\ Only("bell") => Push!StaysSubscribed
    /\ Only("form") => F!SuccessIsSaid
    /\ Only("popup") => Popup!OneOutcome
    /\ Only("consent") => Consent!OncePerCode

(* Nothing moves under the user: the photos of Spotlight stay where they are, *)
(* and so do the cards of machines that only report.                          *)
NothingJumps == PhotosStay /\ V!NoJitter
=============================================================================
