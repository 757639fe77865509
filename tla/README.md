# Zantiflow in TLA+

Zantiflow shows the terminal multiplexer sessions of a user's machines on a web dashboard. A
Zellij plugin on every machine samples the sessions once a second, posts snapshots to a backend
and listens to it over a control channel. The backend keeps one database and some state in the
memory of its only process, derives *attentions* (somebody is needed at a pane), notifies the user
by web push and chat bots, and relays the output of single panes on demand. Users sign in with a
provider or with a self-host secret, pair machines, link chat users and redeem promo codes.

This directory models the parts of it whose correctness depends on who acts in which order, checks
them on small instances with TLC and proves the properties that matter most with TLAPS. Paths
below are relative to the repository.

| file | what it is |
| --- | --- |
| 29 component modules (section 2) | state, one action per statement or handler, properties |
| `Outbox` | what the notification queue promises; `Delivery` implements it |
| `MC*.tla`, `MC*.cfg` | instances for TLC: 8 modules, 12 runs |
| `*Proofs.tla` | theorems with proofs checked by TLAPS: 8 modules |
| `PROJECT.json` | components, runs, mutants, map to the source lines, hazards, findings, theorems |

To check: `tlc -config MCDelivery.cfg MCDelivery` (each `.cfg` belongs to the `MC` module its
name starts with), and `tlapm DeliveryProofs.tla`.

## 1. The system

### Components, state, operations

| component | state | operations | modelled by |
| --- | --- | --- | --- |
| Ingest (`backend/src/ingest`) | tables Machine, Snapshot, PaneActivity | `storeSnapshot` in one transaction, then reconcile the attentions of the reported sessions | `Attention` (order of the two), `Telemetry` (the rows), `Tokens` (who may) |
| Attention engine (`attentions/`) | table Attention | `processAttentions`, in no transaction: clear, create, fire, clear what is no longer reported; `sweepMachineAttentions` for the machine scope | `Attention`; the idle rule in `Telemetry` |
| Notification queue (`notifications/`, `delivery/`, `push/`) | tables Notification, NotificationDelivery, PushSubscription | `createForFired`, `dispatchPending`, `dispatchBotDeliveries`, `pruneNotifications`, subscribe | `Delivery`, `PushDevice` |
| Bot hub and bots (`bots/`, `packages/notify-protocol`, `apps/*-bot`) | connections per platform, in memory | register, deliver, results, ping sweep; the client's loop with its back-off; commands | `BotSocket`, `BotCommands`, `Delivery` |
| Link tokens and integrations (`bots/linkToken.ts`, `integrations/`) | tables LinkToken, ChannelLink | mint, claim, prune, bind, unlink; the page that waits | `Integrations`, `LinkPage` |
| Accounts and sign-in (`auth/`, `packages/oauth*`) | table Account, signed cookies | sign in by provider or secret, log out, log out everywhere, epoch check | `SignIn`, `OAuth`, `PopupLogin`, `Forms` |
| Promo and tiers (`promo/`, `tiers/`) | tables PromoCode, Redemption, Account | generate, redeem under the row lock, lapse | `Promo` |
| Tokens (`tokens/`) | table Token | mint under a cap, revoke, kick (revoke and forget machines), authenticate ingest | `Tokens`, `TokensPage` |
| Pairing, backend (`pairing/`) | table PairingSession | start, approve, poll | `Tokens` (transactions), `Pairing` |
| Pairing, plugin (`plugin.rs:255-358`, `pairing.rs`) | session, flags, the shared `/cache` | load, permissions, request a code, poll, retry, reload, change of configuration | `Pairing` |
| Plugin: sampling, detectors, settings, log (`activity.rs`, `attentions.rs`, `privacy.rs`, `render.rs`) | tracker, gathered panes, renders | tick, SessionUpdate, configuration, log of onsets | `Watcher` |
| Send gate (`plugin/src/cadence.rs`) | what was last sent and when, force, watched, heartbeat | decide, record, re-price, force | `SendGate` |
| Control channel, presence (`control/`, `presence/`, `plugin.rs`) | flags of the plugin; parked polls and the refresh sequence in the backend's memory | issue, watchdog, touch, hold, wake, answer, handle; bump and mark | `Control` |
| Pane output (`output/`, `usePaneOutput.ts`) | table OutputRequest; captures and refresh windows in memory | request, read, deliver, fulfil, prune | `PaneOutput` |
| Machines (`machines/`), Spotlight (`spotlight/`) | - | merge the slices, roster, forget, refresh | `Telemetry`, `Views` |
| SSE bus (`sse/`) | listeners in memory | subscribe under a cap, publish | `Stream` |
| Rate limiter | buckets in memory | take | `RefreshButton`, `SignIn` |
| Web application (`apps/web`) | each page's own | requests, events, timers, buttons; service worker | `Dashboard`, `Album`, `TokensPage`, `LinkPage`, `Views`, `Rows`, `Ansi`, `RefreshButton`, `PushDevice`, `Forms`, `PopupLogin`, `Worker`, `PaneOutput` |
| Plugin distribution server (`apps/plugin-dist`) | one slot in memory | pass over the releases, serve | `Release` |
| HTTP plumbing, configuration, logging, health, build, documentation | | | not modelled, section 7 |

### How they interact

* plugin -> backend: `POST /ingest` is fire and forget; `POST /control` every 5 s, or held for up
  to 25 s as a long poll; `POST /output` with a captured pane. The host of the plugin reports the
  result of a request as an event, or drops the request and reports nothing.
* backend -> plugin: only as the answer of a control poll: pending panes, whether a dashboard
  watches, the refresh sequence, the price of the heartbeat.
* ingest and the machine sweep -> attention engine -> notification queue: function calls in one
  process, every database statement awaited; the timers of the sweeps do not wait for each other.
* queue -> push service over HTTP, -> bots over a web socket; a bot reports the result in a message
  of its own, and sends link requests and unlink notices over the same socket.
* backend -> web: events of the SSE stream name a machine, and the page asks for what it shows;
  polling stands in for a stream that cannot be opened.
* web -> backend: reads, the refresh button, pane requests, forgetting machines and tokens.
* plugin-dist -> GitHub: a timer starts passes of up to three requests.

### What is hard here

1. *Interleaving without transactions.* `processAttentions`, the dispatch sweeps, `registerRequest`,
   `submitOutput`, the kick of a token, sign-in and link requests all read, await and then write.
2. *Two clocks and two memories.* The control channel is timed by the plugin (watchdog) and by the
   backend (hold); a refresh is counted in the backend's memory and remembered in the plugin's.
3. *Loss.* Frames to half-dead sockets, requests the host drops, results on broken connections,
   events of a stream that broke unnoticed, and everything in memory when the backend restarts.
4. *Snapshots of transactions.* A `SELECT ... FOR UPDATE` serialises the pairing polls of a
   session and the mints of an account, but the plain reads next to it see an older state.
5. *Answers in another order.* Pages apply answers as they arrive, and so does the pairing plugin.
6. *Sharing.* The instances of a host share `/cache`; tabs share a cookie and a push subscription.
7. *Bounds.* Attempts, the batch, the token cap, the free refresh window, the heartbeat clamps.

`PROJECT.json` lists each hazard at its line, with the properties that watch it, or the reason why
none does.

## 2. Modules and code

The same conventions hold everywhere. An action is what runs between two awaits; a handler that
awaits has a program counter (`job`, `sweep`, `proc`, `poll`, `viewer`, `delivery`, `flow`, ...). A
table is a set of records or a function on ids. A value that only other values are compared with
(text, secrets, targets) is a model value or a small number. Variables marked *(history)* belong to
the properties and guard nothing. A definition commented *mutated form* (`DueAtThreshold`,
`Lapsed`, ...) belongs to no behaviour: it is what the definition below it would be with a
plausible bug, and shows that the property it is paired with in `PROJECT.json` is able to fail.
What each module models of which file is in its header, line by line in the map of `PROJECT.json`.

### Notifications: Attention, Delivery, Outbox

`Attention`: one machine; `Keys` are its (target, type) pairs, `SidOf` the session each belongs to,
the machine scope `''` being one more session. `Ingest` is the route `ingest/router.ts:29-78`,
`Sweep` one pass of `sweepMachineAttentions`; both become a job in `Handlers` that runs
`processAttentions` statement by statement: `ClearReported`, `Lookup`, `Create`, `Fire`, `Scan`,
`DeleteDoomed`, `EndClear`, `Enqueue`. A statement whose row is gone, or whose unique key is taken,
aborts the job (`Abort`) and forgets what it had fired. `Touch` is the control poll's touch,
`ForgetMachine` the transaction of `forgetMachine`, `Crash` a stop of the process between any two
steps. Which attentions are reported, and whether the Claude panes are idle, is arbitrary here.

`Delivery` is the table of deliveries with the two sweeps (`StartSweep`, then per row `PickPush`,
`SendPush`, `DropSub` or `PickChat`, `HubDeliver`, and `Record`), the prune in its two statements,
the hub (`live` connections, and `stale` ones that still are registered although they are dead),
the frames and results on their way, and the bots (`BotDM`, `BotReport`). The batch and its
attempt counters are read once, as the code does, and written back over whatever the row is by
then. A timer starts a sweep whether or not the one before has ended (`index.ts:76` awaits
nothing): any number of `Workers` may hold the same row. `overlaps` *(history)* counts per row how
often a sweep picked it while another had it in hand (`InHand`), and `MaxOverlaps` bounds that.
`Outbox` is the promise of ADR-0009 per row: its status, whether it was received, and the sweeps
that have it in hand. A sweep takes a row while it is pending and settles it once; only who has it
in hand can queue a settled row again. `Delivery` implements it under the mapping `Promise` (what a
sweep has in hand is what is left of its batch).

### Machines: Telemetry, Tokens

`Telemetry` is what the backend knows of one machine: the slices its Zellij sessions write by
ingest and keep alive by control polls, pane activity, and the views made of them (the merged
machine, the Spotlight roster, the sweep's verdict that every Claude is quiet). Timestamps are kept
as ages, which saturate; `forgetMachine` is several statements, with an ingest between them.

`Tokens` has the pairing sessions, tokens and machines, and requests in flight (`Procs`). MariaDB's
default REPEATABLE READ is modelled as the code meets it: `PollLock` takes the session's lock and
fixes the snapshot (`view`) with the first plain read, `PollDecide` and `PollAccount` decide on it,
`PollInsert` commits; `Rollback` abandons a transaction. A mint locks the account before it counts.
A kick reads its list of machines outside of its transaction (`KickRead`, `KickCommit`), an ingest
authenticates before it stores (`IngestAuth`, `IngestStore`).

### The plugin: SendGate, Control, PaneOutput, Watcher, Pairing

`SendGate` is `cadence.rs`: a record `gate` with the fields of the struct, the reasons of
`decide_reason` as one operator each, `Tick` for one telemetry tick and `Hurry` for what a control
response does to the gate. A signature has a structural part and the contents of the panes, as
`change_signature` hashes them; the structures with an active attention are a constant.

`Control` extends it with one plugin instance, the backend's handler and the messages between
them. A poll goes `out`, `compute` (touched), `read` (pending requests read), then `parked` or
`back`; a parked one is released once, by a signal, by the timeout or by a connection that closes,
and computes again. `Timer` is the plugin's timer event: the poll if `Due`, then the send decision.
`Handle` is the result event. `Lose` drops a request, an answer or a held connection without a
word, `Fail` reports an error, `Restart` empties the backend's memory. Time counts plugin ticks.
Messages that arrive take at most `Lag` ticks and a hold at most `Hold`; `Timely` stops the clock
until they have. `Hold + 2 * Lag < Watchdog` is what `cadence.rs:17-23` calls "the hold plus slack"
(25 ticks, 35 ticks): a network slower than five seconds each way breaks the assumption, and with
it the guarantee of one outstanding poll.

`PaneOutput`: one pane. A drawer (`Viewers`) asks (`Open`, or `Auto` on its own), is checked
(`Owns`), the capture is dropped (`Drop`), the rows are re-armed (`Rearm`) or one is created
(`Create`), and the drawer polls (`ReadRow`, `ReadStore`). A control response tells the plugin
(`Tell`), it captures (`Captured`) unless sharing is off (`Ignored`), and the delivery is checked,
put and marked fulfilled (`Check`, `Put`, `Fulfil`, or `FulfilFails` after five conflicts). `Prune`,
`Forget` and `Purge`, `Register`, and `Restart` happen in between. `crossed` remembers that a
request came between the two writes of a delivery (see the hazards).

`Watcher` puts the real sampling in front of the gate: a world of panes that print, retitle and
close, the late SessionUpdates by which the plugin knows of titles and panes, every detector of
`attentions.rs` on screens of a few looks, the settings in force with their fall-backs, what they
redact, the cache of renders and the debug log. `Pairing` is the plugin's other half: the instances
of one host, the permissions they ask for, the device pairing with polls that overtake each other,
the hostname, and the `/cache` directory they share.

### Accounts: SignIn, Promo, Integrations, OAuth, PopupLogin, Forms

`SignIn` has the cookie with its epoch, both ways to sign in and the token bucket before the
secret; `Promo` extends it with codes, redemptions in a transaction that holds the account's row,
and the lapse; `Integrations` extends that with link tokens and chat users. `OAuth` is the
redirects of a provider with the signed state that travels with them and the code that is
exchanged once; `PopupLogin` is the popup with its listener and its poll; `Forms` the two forms
that take a code.

### Bots and releases: BotSocket, BotCommands, Release

`BotSocket` is `client.py` against `ws.ts` and `hub.ts`: several loops may share `_ws`, paths die
without a word, the idle sweep terminates what did not answer its ping. `BotCommands` extends it
with a user's `/link` and `/unlink`. `Release` is the distribution server: passes that each make up
to three requests, which a timer starts whether or not the one before has ended.

### The website: Stream, Dashboard, Album, TokensPage, LinkPage, Views, Rows, Ansi, RefreshButton, PushDevice, Worker

`Stream` is what the pages read and hear: machines, the event stream with its cap and its losses,
the polling that stands in for it, and requests whose answers arrive in any order. `Dashboard` and
`Album` (Spotlight) extend it with what they do on every event and answer. `TokensPage` and
`LinkPage` are pages with operations of their own. `Views`, `Rows` and `Ansi` are pure: two parts
of the program that read the same data, compared. `RefreshButton` is the button with the bucket of
its route and the nudge, `PushDevice` the subscription that tabs and accounts share, `Worker` the
service worker with its shell.

## 3. Runs

| run | asks | instance | distinct states |
| --- | --- | --- | --- |
| `control` | one long poll, a fresh machine, a prompt refresh; requests of pane output that do not pile up, frames of fulfilled requests, the free window | 2 poll slots, 8 ticks, a fault, a restart, a click; or 2 drawers, a delivery, 2 time units, a restart or a forget | 1,990,530 |
| `control_restart` | (violation) does a click after a restart work? | 12 ticks, a restart, two clicks, no fault | |
| `attention` | no early fire with handlers that overlap, a crash or a forget; nothing lost between handlers that do not | 2 handlers, 2 sessions + machine scope, 2 tiers, 3 jobs | 1,218,474 |
| `attention_abort` | (violation) is every fire enqueued when scopes overlap? | both panes in one session, no crash | |
| `delivery` | is the promise of the queue kept, with the attempt budget and the ack window? does every row settle (liveness)? | a push row and a chat row with a restart, a chat row with a broken connection, or either row with a second sweep that overlaps the first; 2 attempts | 488,704 |
| `delivery_stranded` | (violation) can bots restart without missing messages? | a chat row, two broken connections | |
| `tokens` | one token per code, for its approver; the cap | 2 requests, 1 session, 2 accounts, 3 tokens, cap 1 | 637,271 |
| `tokens_cap` | (violation) is the cap held? | 2 sessions, 1 account, cap 1 | |
| `telemetry` | does a forgotten machine fade, is idle silence, do the views converge (liveness)? | 2 sessions with a Claude pane each; one POST at a time and three events (changes, ends of a process or session, a loss, a forget), or two POSTs that overtake each other and two events | 314,418 |
| `plugin` | is what the plugin says true and allowed, is it neither silent nor late, does pairing yield its token? | 1 pane, 6 ticks, 3 settings; or 2 instances, 2 codes, a mishap | 1,350,239 |
| `accounts` | sessions that end, grants that stay, sockets that recover, releases that are mirrored | one of five parts at a time (below) | 1,331,223 |
| `pages` | does a page show what there is, do two readings agree, are buttons honest, does nothing move? | one page or part of a page at a time (below) | 918,930 |

`control`, `plugin`, `accounts` and `pages` choose in their initial state which *part* takes its
steps, and the variables of the others keep one value: one run checks several components, each as
it would be alone. The parts of `accounts` are `accounts` (two browsers, two identities, codes and
links), `sockets` (two loops over four sockets), `commands`, `release` (three versions, one of them
a pre-release) and `page`. Those of `pages` are the three pages `dashboard` (two machines, three
events), `album` and `tokens` (two tokens, one machine, two operations), and `tree`, `badges`,
`sent`, `cards`, `output`, `refresh`, `bell` (two tabs, two accounts), `form`, `popup`, `rows`,
`worker` and `consent` (two providers, two attempts, a repeated callback).

### What the violations show

* **A fire without its notification** (`attention_abort`). Two reports of one session overlap; one
  has stamped `lastFiredAt` of a target and then fails to create the row of another one that the
  other report has just created. `processAttentions` throws (`attentions/service.ts:53`), and the
  fired target is in its cooldown without a notification.
* **A stranded row** (`delivery_stranded`). Handing a frame to a dead but registered connection
  counts as an attempt. After `MAX_ATTEMPTS` the row stays `pending`, is in no batch, and is
  expired by the prune, though its bot is back.
* **A cap exceeded** (`tokens_cap`). Polls of two sessions of an account open their snapshots
  before either has inserted; the account lock makes the second wait, but it then counts in its
  old snapshot.
* **A refresh that does nothing** (`control_restart`). After a restart the backend counts refreshes
  from 1 again, and the plugin, which has seen 1, waits for 2.

Other disagreements between the code and what is written about it were met and are not runs:
`machineView.ts:91` and `:105` recognise a Claude pane by other rules than `claude.ts:47`;
`promo/service.ts:54` generates the first code at a time `index.ts:98-101` does not call it; a
`/pair/start` that the host drops leaves the plugin waiting (`plugin.rs:290`), and a poll whose
answer was lost is told *already used*; bots do not deduplicate by `deliveryId` (`handlers.py:17`),
so a frame that is sent again is shown again; the stale banner of `MachineDetail.tsx:105-110`
cannot appear, because `getMachine` drops stale slices first; an update of the service worker whose
precache fails deletes the shell that `sw.js:1` promises; Apple's name is told with the first
consent only and is lost if that exchange fails; and the strict ratchet of `plugin-dist/README:12`
needs passes that do not overlap, which the smallest legal poll interval (15 s) does not give.

### Bounds, and why they are enough

* Counters of bad luck (`MaxCrashes`, `MaxForgets`, `MaxDrops`, `MaxFaults`, `MaxRestarts`,
  `MaxLosses`, `MaxMishaps`, `MaxTrouble`) are one or two: every property concerns one such event
  against the others' steps, and the properties that count them (`AttemptBudget`, `StaysFresh`) do
  so explicitly.
* Periods of the code are the smallest numbers that keep their order (hold < watchdog, debounce <
  watched floor < idle floor, time to live < retention, three timeouts < poll interval), so that
  every comparison is seen on both sides of its boundary.
* `Handlers`, `Procs`, `Instances`, `Browsers`, `Loops`, `Tabs`: two, as the races are between two.
  `Delivery` has a second sweep that may overlap the first for one row, once (`MaxOverlaps`); where a
  restart or a broken connection is added, sweeps follow each other. The proofs have no such limit.
* `Enqueue` in `Delivery` stops early enough (`clock + Retention + 1 < MaxTime`) for the prune to
  reach every row before the clock ends; otherwise liveness would fail for lack of time only.
* Clocks and counters of events end, so the systems stop: runs say `CHECK_DEADLOCK FALSE`.
* `control` uses two poll slots. A fixed poll would need a third only if two were still on their
  way when the next was due; with `Lag` 1 and a period of 2 this cannot be, and a long poll has one.
  It prices every heartbeat out of range (12 with a maximum of 9), so that the clamp is at work.
* Symmetry is used for handlers, requests, drawers, browsers, tabs and sessions where no operator
  chooses among them, and never with liveness.

### Assumptions a run makes

While `apart`, `attention` runs handlers of disjoint scope only: a plugin instance reports its own
session and the sweep is much shorter than its period; otherwise it drops the assumption, and so
does `attention_abort`. `Delivery` assumes nothing of how long a sweep takes. `Control` and `SendGate` treat the plugin's configuration as fixed: it is either a
fixed-poll or a long-poll plugin; `Watcher` and `Pairing` change it. Signatures of cookies and
states cannot be forged. `PagesAssumption` has ids and names of machines ordered, sessions, rows and
machines finite in number, periods and buckets positive, and no session with the number of the
machine scope. `Release` lets a pass of three timeouts end before the next is due, as the defaults
(20 s, 5 min) do. The run takes `MaxPosts` POSTs of `Telemetry` to be in flight at most.

### Fairness

`Settles` and `Converges` need it. `Fairness` of `Delivery` gives weak fairness to the clock, to
the start of a due sweep, to the steps of a sweep and to the prune: `setInterval` timers of a live
process, whose statements and HTTP requests return or throw. Nothing is assumed of bots, devices or
users, who may never act again; the row settles by the prune at the latest. `FairSpec` of
`Telemetry` gives it to the statements of a forget, to the events of the plugin's host and to the
control poll; strong fairness to sending (the gate lets it send again and again, `SilenceBounded`)
and to the arrival of what a session posts (a POST that is tried again and again arrives).
Every other property holds without fairness.

## 4. Properties

| property | says | proved |
| --- | --- | --- |
| `OneOutstanding` | a long poll is not re-issued while the first may still be held | yes |
| `StaysFresh` | how stale a live machine can get, in terms of the requests that did not arrive | yes |
| `RefreshInTime` | a click is answered by a snapshot within one hold and the time of the messages | yes |
| `RowsBounded` | requests of a pane do not pile up | yes |
| `FulfilledHasFrame` | the table and the memory agree on a fulfilled request | yes |
| `AutoWithinWindow` | no automatic request of a free account outside the window of a gesture | yes |
| `NoEarlyFire` | a row carries a fire only if its own episode had lasted a tier's threshold, though decisions are made on copies | yes |
| `ClearedByOwner` | a live episode ends only by a report that covers its session | yes |
| `OncePerWindow` | one fire per cooldown within an episode, judged against the table at that moment | yes |
| `ReconciledApart` | after its clearing pass, a handler's sessions hold exactly what it reported, and every fire has its notification | yes |
| `DeliveredWasReceived` | no false receipts | yes |
| `AttemptBudget` | what is *sent*, not what is counted, is bounded: the attempts, the restarts, and the sweeps that overlapped another | yes |
| `QueueContract` | `Delivery` implements `Outbox`, whatever sweeps overlap | yes |
| `ResendNeedsCause` | a chat row is re-sent only after the ack window, a settled push row never, unless two sweeps had the row in hand | yes |
| `Settles` | no row is pending for ever | no |
| `OneTokenPerSession`, `BoundToApprover` | a code yields one token, for who approved it first | yes |
| `CapKept` | a mint never passes the cap, and how far polls with old snapshots can | yes |
| `ForgottenFades` | a forgotten machine leaves every view, whatever was written meanwhile | yes |
| `IdleIsSilence` | *idle* is reported only if no Claude has printed within the threshold | yes |
| `Converges` | the views end up with what runs | no |
| `SilenceBounded` | a plugin that has sent is never silent for longer than the longest heartbeat | yes |
| `OnsetPrompt` | a changed structure is on the wire within the debounce | yes |
| `AttentionsTrue` | thinking is not told long after it ended, a question is told within the debounce, the log adds up | yes |
| `SettingsHold` | a debounce after a change nothing sent names what is hidden, and no render is kept that is not shared | yes |
| `PairingSound` | no token is lost or taken unapproved, and who started is owed an answer | yes |
| `NothingRevoked` | no refusal or change takes a permission or a token away | yes |
| `SignInSound` | sessions are their owner's, end for good, and guesses at the secret are metered | yes |
| `GrantsSound`, `NothingTaken` | tier and links are what was granted, and only the owner takes them back | yes |
| `ToldLinked` | a bot says *linked* only once it is true | yes |
| `Recovers` | a bot is back within a bounded time of the last trouble | yes |
| `BackoffKept` | a backend that accepts and drops at once is not stormed | yes |
| `MirrorsLatest` | the distribution server has the highest complete release in time | yes |
| `NoFalseEnd` | no healthy bot is dropped, no lower release served, no link command withdrawn without cause | yes |
| `ButtonsHonest` | what a button or a form says is what became of it | yes |
| `OwnWork` | the tokens page shows what its owner did and stays usable | yes |
| `PageCaughtUp` | a dashboard or album that has handled everything shows what there is, and always hears of changes | yes |
| `SameReading` | two parts of the program read the same data alike | yes |
| `NothingJumps` | photos and cards stay where they are | yes |

## 5. Proofs

Every theorem is proved for all values of the constants that satisfy the named assumptions of its
modules, any number of handlers, requests, sessions or machines; what it assumes beyond those is in
its statement. `SendGate` and `PaneOutput` are proved about in `ControlProofs`.

* **AttentionProofs.** `IInv` adds to the types: row ids are unique and below `nextId`
  (`RowsSound`), and what a job remembers of a row (`JobSound`): the id in `fire` was old enough
  when the job read its clock, *if it still names a row*. The code's stamp goes by row id, and ids
  are never reused, so a row deleted and created again cannot inherit the fire; this is the
  argument of `NeverEarly`, with handlers that overlap. `OwnerClears` follows from the same invariant
  by looking at the two actions that remove rows. For handlers of disjoint scopes `ApartInv` says of
  each place in a handler's program what of its work is in the table already (`Progress`), and that
  a fire is stamped, in the handler's memory or enqueued (`FireNoted`): `KeptApart`, `WindowKept`.
* **DeliveryProofs.** `NoFalseReceipt` needs to know of every place a positive result can wait in:
  a sweep's outcome, a bot's result, an ack on its way; each names a row whose recipient has been
  notified. That, and all else here, holds for any number of overlapping sweeps. `BudgetKept`: for
  each row, what was sent and what the sweeps that have it in hand (`Holders`) may still send
  (`Ready`) is paid for by one number of attempts that the table and every such sweep has reached,
  by the restarts, and by the overlaps (`Paid`, `Budgeted`); a sweep that joins others adds a send
  and an overlap. `Caused` says of a row that never was in two hands that whoever holds it found it
  unsettled, or lapsed (`CauseKept`). `ContractKept` maps every step to a step of `Outbox` or a
  stutter: a sweep's update settles a row it holds, and a result settles a chat row (`ChatOnly`).
* **BackendProofs** (`Tokens`, `Telemetry`). `LocksHeld` (two requests past the session's lock are the same request),
  `SessionsSound` and `TokensSound` make `OneToken` inductive; `ApproverBinds` is a step property
  under it. `CapNeverPassed` counts: for each account and moment, the active tokens that a request
  does not see in its snapshot are at most as many as the polls that are still below the cap
  (`RoomLeft`, `CapInv`). Of `Telemetry`: rows that outlive a forget are at least as old as it
  (`OrphansAge`), and a stamp is no older than what it stands for (`StampLate`).
* **ControlProofs.** `NeverSilent` needs that the heartbeat in force never exceeds the maximum, even
  re-priced in mid-silence; `OnsetsPrompt` needs `OnsetInv`, which ties the age of an unsent structure
  to the time since the last send. `Lone` says where the one long poll is and how old it can be in
  each state of its life; with `Hold + 2 * Lag < Watchdog` the watchdog cannot expire while it lives
  (`NeverReissuedEarly`). `Priced` makes every step of `Control` a step of `SendGate` or a stutter
  (`ImplementsGate`), so the gate's bounds hold on the faulty channel. `Contact` (`NeverStale`) charges
  every period without a touch to a poll that is out or was counted as missed. `Fetched`
  (`ButtonInTime`) says of a click that is not served which poll will bring it, and by when. For the
  pane output, `Few` bounds rows and drawers about to create one, `FrameInv` says for which rows the
  capture must be there, and `WindowInv` what an automatic request remembers of its gesture.
* **PluginProofs.** `HostInv`: a sold code is owed to somebody (an answer under way, a taker or a
  loss), and who has started is waiting for an answer or has a code. `WatcherInv`: what was
  gathered is what the settings allowed at that tick (`Obeys`), and the age of what is told as
  thinking or asking is bounded by the tick and the gate (`TrueAt`, `ToldTruly`, `SeenTruly`).
* **AccountsProofs.** `AccountsInv` is the conjunction for sessions (no cookie and no sign-in in
  flight has an epoch of the future; the bucket and the guesses of the last minutes add up, `Metered`),
  grants (a redemption that holds the row is alone, `Alone`) and links (`BoundOnce`). `Truthful`,
  `LoopsInv`, `PageInv` and `ReleaseInv` are those of the parts beside. `LatestMirrored` and
  `NothingEndsEarly` assume `3 * Timeout < PollEvery`: at most one pass at a time (`OnePass`).
  `NothingStormed` rests on `BackoffInv`: a loop that has connected *c* times without a stable
  connection has waited the backoffs of *c* - 1 turns, those of *c* when it sets out again (`Paid`), and
  of its connections at most the one that is intact is not charged to a trouble (`Counted`).
  What the backoffs add up to is the size of a set of ticks (`Waited`), which grows by a whole
  backoff from *n* to *n* + 1 (`LongerWait`), so the argument needs no induction over a sum.
* **FeedProofs** (`Stream`, `Dashboard`, `Album`, `TokensPage`). `StreamInv`: a page that is ready has
  a stream or polls. `DashInv`: for each machine that no failure excuses, the latest change is on view,
  on the wire, in a request that has yet to be answered or in an answer that has it (`Listed`,
  `Detailed`, `Heeded`). `AlbumInv` is that of Spotlight, where a roster is as of the moment it was
  made: what is shown and every roster on its way is dated (`Dated`), and a machine whose picture is
  older has a ping, a queued ping or a request to come (`Knows`); the photos are laid out once each
  (`Laid`), so what the merge of a roster keeps, adds and orders is known (`Reconciled`). `TokensInv`: an
  operation that is alone reads the lists after its own work and has no other beside it.
* **PagesProofs.** Each part takes its steps alone (`RefreshAlone`, ...). `PagesCaughtUp` and
  `OwnWorkKept` follow from `FeedProofs`. For `ButtonsSay`, `Paced` says that for a page
  that is alone the bucket refills no later than its button; `Hinted` that the remembered presses
  are the recent ones of this page and its predecessors; `DeviceInv` what a subscribing tab knows of
  the endpoint and of its row; `FormInv`, `PopupInv` that what counts is the last attempt;
  `ConsentInv` that a code is spent by the one exchange that gets through. `NothingMoves` joins a step
  property of the album (`PhotosKept`) with `CardsInv`: in the order of last use the cards are
  laid out by the bucket of the last change and the id, so two cards that only report keep their order.
  `ReadingsSame` has an invariant for each pair of readings. `ViewsInv`: a pane that the plugin has
  judged does not look otherwise, and however they are compared the cards are all the machines; that
  badges add up to the number on a card is a bijection (`MarksCount`). `ColoursInv`: the codes
  before the parameters that the terminal is taking are done with *whatever comes after them*
  (`DoneWith`), and the terminal shows their style with the partial colour on top (`Screen`). `RowsInv`:
  who reads the clock is who is on the page, and has read it this second or the timer is due (`Timed`).
  `ShellInv`: a cache that is not missed has a shell at least as new as its name (`StoresKnown`).

Every invariant and every step property of the passing runs is proved. Left to TLC are the two
liveness properties, `Settles` and `Converges`, since they rest on fairness and so on ENABLED, which
the prover cannot do, and the four violations, which are about single behaviours. TLC finds the
invariants named here true on the instance of their run too, except the few it cannot evaluate
because they range over an infinite set (`DoneWith`: over all continuations; `TokensInv`: over any
id).

The loops of the code are in reach because none is written as a RECURSIVE operator or a library fold where
a theorem needs what it computes. A loop over a list (`applySgr`, `listRecentNotifications`) is a function
over 0..n; that there is one (`LoopRuns`, `SgrRuns`) and what holds after each turn follow from
a least counterexample (`Earliest`). Orders are given by the comparison (`LaidOut`) and filters by the
positions kept, and that a finite set can be laid out is proved once (`Sorted`, `LaidByOrder`).

## 6. Abstractions worth knowing

* A notification and its deliveries are one row per recipient; message texts are left out.
* `Attention`: of a row, `state` is left out. `attentions/service.ts:57-64` makes a row active that is
  not, but no statement of the program ever writes another state, so that branch is never taken.
* `OncePerWindow` and `ReconciledApart` are about handlers of disjoint scope. Two reports of one session
  at once may fire a target twice inside its window.
* `SendGate`: a response that names no heartbeat (`Unpriced`) leaves the interval as it is; `Control`'s
  backend always names one.
* `Attention` models the machine sweep for one machine, and the tier of the account as a choice.
* Push answers are accepted, gone or an error, and an error does not tell whether the message came
  through. Results of bots are a set of messages: reordered freely, lost with the connection.
* `Control`: the plugin's snapshot registers or touches the machine in the tick it is sent, or is lost.
  `RequestOutput` joins the row's write with the signal that follows it in the same handler. A
  pending request ends at any time (`SettleOutput`); how it ends is the business of `PaneOutput`.
* `PaneOutput`: time of capture is the time of receipt, because the plugin's timestamp does not
  parse as a date (`output/service.ts:106`, `plugin.rs:564`). A drawer whose request is at the
  backend keeps its place among the `Viewers` until it is answered, even if it is closed: the
  request runs on. `FulfilledHasFrame` excepts a request that crossed a delivery (`crossed`).
* `Watcher`: a screen is one of a few looks, a title one of a few kinds; the detectors see no more.
* `Telemetry`: ages saturate at a cap above every threshold they are compared with.
* `SignIn`: a request of the login page that is lost is an event of `MaxEvents`. A browser calls a
  callback back only from a consent it started itself; states carried from one browser to another
  are left out.
* `BotSocket`: an exception of `on_message` that ends the turn on a good connection (`Drops`) is one of
  the `MaxTrouble`. Only pings and pongs and hello reset the server's idle timer, where in the code
  every frame does; so the model drops connections sooner. What a loop has to have waited, the sum of doubled
  backoffs, is the size of a set of ticks.
* `Views`, `Album`: sorting is *a* layout that the comparison allows, with ties as they were; the album's
  filters are the positions that stay, in order.
* `Album` clamps its index in the step that changes the list, where the page does so in an effect after a
  render that shows nothing (`SpotlightAlbum.tsx:36`). `NothingJumps` is about positions: the photos of
  the whole album in every mode of it, and cards in the order of last use (`recent`) only. With *Running only*
  the photo on view still changes when one before it stops.
* `Views`: a refetched detail of a machine moves its card by its activity; the order and the counts of
  the list stay until the list itself is fetched (`Relist`).
* `SameReading` is between readings of one abstraction: in `Ansi` the program and the terminal share the
  table of the plain codes and the palette (`Basic`, `xterm256`, colours in range, no italics); `Rows`
  counts whole units where `format.ts:8` rounds; in `Worker` a precache that failed is excepted.
* `PushDevice` leaves out `DELETE /push/subscribe`, which the website never calls. `ButtonsHonest` is about
  tabs that asked: one that finds the permission granted and shows no button is not covered.
* `RefreshButton`: the presses that are kept are cut from the front of a sequence that is in order,
  where the code filters it.

## 7. Not modelled

HTTP plumbing, configuration, logging, health, the database client, build, deployment,
documentation and scripts: wiring without a state of the kind the properties are about. Markup,
styles and the landing page. Conversions of text with unit tests of their own: scrubbing, parsing
of frames and versions, rendering of codes, schema validation. The overflow guards at 100000 entries (presence,
windows, rate limiter, captures) are too large for an instance; clearing presence has the effect of
`Restart`. A stop of the process between the stamp of a fire and its notification
(`ingest/router.ts:74`) loses it; nothing in the code guards against it, and no property says otherwise.

## 8. What would come next

No invariant or step property is left to prove. A change of the code begins at its module: the map of
`PROJECT.json` names the definition of every line that is modelled; TLC tells whether the properties
still hold, the mutants of `PROJECT.json` whether they still can fail, and the step of the
inductive invariant that no longer goes through says which argument of section 5 has gone.

* Proofs of `Settles` and `Converges` need a prover with ENABLED and fairness. The safety half of `Converges`
  is `ForgottenFades`; `Settles` would rest on `QueueContract` and the prune.
* A fire that is stamped but not enqueued when the process stops (`ingest/router.ts:74`) is lost.
  A property would have to say it is not; it can be stated once the stamp and the notification are
  one transaction, or a sweep looks for stamps without one.
* Several backends. The hub, presence, windows, limiter and locks are in one process's memory; a
  second one would make `Control`, `PaneOutput` and `Delivery` compositions with a shared table.
