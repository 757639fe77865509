------------------------------ MODULE BotSocket ------------------------------
(***************************************************************************)
(* The socket between one bot and the backend: the reconnecting client of  *)
(* the bots (client.py), the WebSocket server and its idle sweep (ws.ts),  *)
(* and the registrations of the hub.  Discord's on_ready starts the client *)
(* again each time Discord sends it, so several loops may share _ws.       *)
(***************************************************************************)
EXTENDS Naturals, FiniteSets, FiniteSetsExt

CONSTANTS
    Socks,         \* bounds the sockets at a time
    Loops,         \* the calls of start
    PingEvery,     \* PING_INTERVAL, in ticks
    PongWithin,    \* PING_TIMEOUT
    MaxIdle,       \* MAX_IDLE_MS
    StableAfter,   \* STABLE_CONNECTION_SEC
    MaxBackoff,    \* max_backoff
    MaxTrouble     \* bounds what goes wrong

Nil == 0
(* a clock that stops where nothing depends on it any more *)
Now(n, most) == IF n < most THEN n + 1 ELSE most

(* how long a broken connection may go unnoticed, and then wait *)
Recovery == Max({PingEvery + PongWithin + MaxBackoff, MaxIdle + 1})

(* the sum of the first n backoffs 1, 2, 4...: the ticks of each of them *)
Waited(n) == {p \in (1..n) \X (1..MaxBackoff) : p[2] <= 2^(p[1] - 1)}
Least(n) == Cardinality(Waited(n))

ASSUME BotSocketAssumption ==
    /\ {PingEvery, PongWithin, MaxIdle, StableAfter, MaxBackoff} \subseteq Nat \ {0}
    /\ PingEvery + 1 <= MaxIdle /\ MaxTrouble \in Nat /\ Socks \subseteq Nat \ {Nil}

VARIABLES
    loop,       \* run_forever: what it waits for, its backoff and its socket
    slot,       \* _ws
    sock,       \* a socket: its ends, whether it carries frames still, and its clocks
    registered, \* conns of the hub, this platform's
    up,         \* whether the backend listens
    trouble,
    calm,       \* ticks since the last trouble, with the backend up (history)
    tries       \* connections since one was stable: how many, and in how many ticks (history)

socketVars == <<loop, slot, sock, registered, up, trouble, calm, tries>>

NoSock == [bot |-> FALSE, hub |-> FALSE, alive |-> FALSE, hello |-> FALSE, age |-> 0, ping |-> 0, pong |-> 0, idle |-> 0]
Off == [at |-> "off", backoff |-> 1, wait |-> 0, sock |-> Nil]

SocketTypeOK ==
    /\ loop \in [Loops -> [at : {"off", "connect", "open", "sleep"}, backoff : 1..MaxBackoff,
                           wait : 0..MaxBackoff, sock : Socks \cup {Nil}]]
    /\ slot \in Socks \cup {Nil}
    /\ sock \in [Socks -> [bot : BOOLEAN, hub : BOOLEAN, alive : BOOLEAN, hello : BOOLEAN, age : 0..StableAfter,
                           ping : 0..PingEvery, pong : 0..PongWithin, idle : 0..MaxIdle + 1]]
    /\ registered \subseteq Socks
    /\ up \in BOOLEAN /\ trouble \in 0..MaxTrouble
    /\ calm \in 0..Recovery
    /\ tries \in [Loops -> [count : 0..MaxTrouble + 1, ticks : 0..Least(MaxTrouble)]]

SocketInit ==
    /\ loop = [l \in Loops |-> Off]
    /\ slot = Nil
    /\ sock = [s \in Socks |-> NoSock]
    /\ registered = {} /\ up \in BOOLEAN /\ trouble \in 0..MaxTrouble /\ calm = 0
    /\ tries = [l \in Loops |-> [count |-> 0, ticks |-> 0]]

Trouble == trouble < MaxTrouble /\ trouble' = trouble + 1 /\ calm' = 0
-----------------------------------------------------------------------------
(* start, from main or from on_ready *)
StartLoop(l) ==
    /\ loop[l] = Off
    /\ loop' = [loop EXCEPT ![l].at = "connect"]
    /\ UNCHANGED <<slot, sock, registered, up, trouble, calm, tries>>

(* the socket opens: _ws is set and hello is sent at once *)
Opened == [NoSock EXCEPT !.bot = TRUE, !.hub = TRUE, !.alive = TRUE, !.hello = TRUE]
Connect(l, s) ==
    /\ loop[l].at = "connect" /\ up
    /\ sock[s] = NoSock /\ \A f \in Socks : f < s => sock[f] # NoSock
    /\ loop' = [loop EXCEPT ![l].at = "open", ![l].sock = s]
    /\ slot' = s
    /\ sock' = [sock EXCEPT ![s] = Opened]
    /\ tries' = [tries EXCEPT ![l].count = @ + 1]
    /\ UNCHANGED <<registered, up, trouble, calm>>

(* the end of a turn of the loop: _ws is cleared whichever socket it holds, *)
(* the backoff starts over only after a stable connection, and doubles      *)
(* mutated form: any connection that opened starts it over *)
OpenedAtAll(age) == TRUE
Stable(age) == age >= StableAfter
Cleared(l) == Nil

EndsTurn(l, age) ==
    LET healthy == loop[l].at = "open" /\ Stable(age)
        b == IF healthy THEN 1 ELSE loop[l].backoff
    IN
    /\ slot' = Cleared(l)
    /\ loop' = [loop EXCEPT ![l] = [at |-> "sleep", wait |-> b, sock |-> Nil,
                                    backoff |-> Min({2 * b, MaxBackoff})]]
    /\ tries' = IF loop[l].at = "open" /\ age >= StableAfter
                THEN [tries EXCEPT ![l] = [count |-> 0, ticks |-> 0]] ELSE tries

ConnectFails(l) ==
    /\ loop[l].at = "connect"
    /\ \/ up /\ Trouble
       \/ ~up /\ UNCHANGED <<trouble, calm>>
    /\ EndsTurn(l, 0)
    /\ UNCHANGED <<sock, registered, up>>

Wakes(l) ==
    /\ loop[l].at = "sleep" /\ loop[l].wait = 0
    /\ loop' = [loop EXCEPT ![l].at = "connect"]
    /\ UNCHANGED <<slot, sock, registered, up, trouble, calm, tries>>

(* the bot's end of the socket is gone: the server closed it, or no pong    *)
(* came in time; or on_message threw, which ends the turn on a good socket  *)
Free(s, end) == IF end.bot \/ end.hub THEN end ELSE NoSock
Overdue(s) == ~sock[s].alive /\ sock[s].pong = PongWithin
Broken(l) == loop[l].at = "open" /\ LET s == loop[l].sock IN (sock[s].alive /\ ~sock[s].hub) \/ Overdue(s)
Drops(l) ==
    LET s == loop[l].sock IN
    /\ \/ Broken(l) /\ UNCHANGED <<trouble, calm>>
       \/ loop[l].at = "open" /\ sock[s].alive /\ Trouble
    /\ EndsTurn(l, sock[s].age)
    /\ sock' = [sock EXCEPT ![s] = Free(s, [@ EXCEPT !.bot = FALSE])]
    /\ UNCHANGED <<registered, up>>

-----------------------------------------------------------------------------
(* The server.  hello registers the connection; its end closes when the    *)
(* bot's close reaches it, in the sweep, or with the process; each close   *)
(* drops the registration                                                  *)
Hello(s) ==
    /\ sock[s].hello /\ sock[s].hub /\ sock[s].alive
    /\ registered' = registered \cup {s}
    /\ sock' = [sock EXCEPT ![s].hello = FALSE, ![s].idle = 0]
    /\ UNCHANGED <<loop, slot, up, trouble, calm, tries>>

(* mutated form: a terminated connection stays registered *)
Forgotten(S) == registered
unregister(S) == registered \ S
HubCloses(S) ==
    /\ registered' = unregister(S)
    /\ sock' = [s \in Socks |-> IF s \in S THEN Free(s, [sock[s] EXCEPT !.hub = FALSE]) ELSE sock[s]]

Closed(s) ==
    /\ sock[s].hub /\ ~sock[s].bot /\ sock[s].alive
    /\ HubCloses({s})
    /\ UNCHANGED <<loop, slot, up, trouble, calm, tries>>

TooQuiet(s) == sock[s].idle > MaxIdle
Sweep ==
    LET dead == {s \in Socks : sock[s].hub /\ TooQuiet(s)} IN
    /\ dead # {} /\ HubCloses(dead)
    /\ UNCHANGED <<loop, slot, up, trouble, calm, tries>>

(* the backend stops, its open sockets with it; or it resets one it had     *)
(* just accepted                                                            *)
GoesDown ==
    /\ up /\ up' = FALSE /\ Trouble
    /\ HubCloses({s \in Socks : sock[s].hub})
    /\ UNCHANGED <<loop, slot, tries>>

ComesUp == ~up /\ up' = TRUE /\ UNCHANGED <<loop, slot, sock, registered, trouble, calm, tries>>

Resets(s) ==
    /\ sock[s].hub /\ sock[s].alive /\ Trouble
    /\ HubCloses({s})
    /\ UNCHANGED <<loop, slot, up, tries>>

(* the path dies and neither end is told *)
Stalls(s) ==
    /\ sock[s].alive /\ Trouble
    /\ sock' = [sock EXCEPT ![s].alive = FALSE]
    /\ UNCHANGED <<loop, slot, registered, up, tries>>
-----------------------------------------------------------------------------
(* A tick.  A ping is due every PingEvery; over a live path it is heard and *)
(* answered within the tick, over a dead one the wait for its pong begins.  *)
Aged(s) ==
    LET k == sock[s]
        pinged == k.bot /\ k.ping = PingEvery
        heard == pinged /\ k.alive /\ k.hub
    IN IF k = NoSock THEN k ELSE
       [k EXCEPT !.age = Now(@, StableAfter),
                 !.ping = IF ~k.bot \/ k.pong > 0 THEN @ ELSE IF pinged THEN 1 ELSE @ + 1,
                 !.pong = IF k.pong > 0 \/ (pinged /\ ~heard) THEN Now(@, PongWithin) ELSE 0,
                 !.idle = IF heard THEN 0 ELSE Now(@, MaxIdle + 1)]

(* what takes no time has happened when a tick begins *)
Busy == \/ \A l \in Loops : loop[l] = Off
        \/ \E l \in Loops : loop[l].at = "connect" \/ (loop[l].at = "sleep" /\ loop[l].wait = 0) \/ Broken(l)
        \/ \E s \in Socks : sock[s].hub /\ (TooQuiet(s) \/ (sock[s].alive /\ (sock[s].hello \/ ~sock[s].bot)))

SocketTick ==
    /\ ~Busy
    /\ sock' = [s \in Socks |-> Aged(s)]
    /\ loop' = [l \in Loops |-> IF loop[l].at = "sleep" THEN [loop[l] EXCEPT !.wait = @ - 1] ELSE loop[l]]
    /\ tries' = [l \in Loops |-> IF tries[l].count = 0 THEN tries[l] ELSE [tries[l] EXCEPT !.ticks = Now(@, Least(MaxTrouble))]]
    /\ calm' = IF up THEN Now(calm, Recovery) ELSE 0
    /\ UNCHANGED <<slot, registered, up, trouble>>

(* the process ends and the supervisor starts another *)
BotRestarts ==
    /\ \E l \in Loops : loop[l] # Off
    /\ Trouble
    /\ loop' = [l \in Loops |-> Off] /\ slot' = Nil
    /\ sock' = [s \in Socks |-> Free(s, [sock[s] EXCEPT !.bot = FALSE])]
    /\ tries' = [l \in Loops |-> [count |-> 0, ticks |-> 0]]
    /\ UNCHANGED <<registered, up>>

SocketNext ==
    \/ \E l \in Loops : \/ StartLoop(l) \/ ConnectFails(l) \/ Wakes(l) \/ Drops(l)
                       \/ \E s \in Socks : Connect(l, s)
    \/ \E s \in Socks : Hello(s) \/ Closed(s) \/ Resets(s) \/ Stalls(s)
    \/ Sweep \/ GoesDown \/ ComesUp \/ SocketTick \/ BotRestarts
-----------------------------------------------------------------------------

(* A backend that accepts and drops at once is not stormed: before the n-th  *)
(* connection of a loop since a stable one, the backoffs 1, 2, 4... have      *)
(* passed since the first.                                                    *)
NoStorm == \A l \in Loops : tries[l].count > 1 => tries[l].ticks >= Least(tries[l].count - 1)

(* The server closes a connection whose path is alive only in trouble: the    *)
(* idle sweep never drops a healthy bot.                                      *)
HealthyKept ==
    \A s \in Socks : sock[s].hub /\ sock[s].alive /\ sock[s].bot /\ ~sock'[s].hub => trouble' # trouble

(* Within this time of the last trouble, with the backend up, the bot sends   *)
(* to a socket that is registered with the hub, and no dead one is registered. *)
Recovers ==
    (calm = Recovery /\ ~Busy) =>
        /\ slot \in registered
        /\ \A s \in registered : sock[s].alive /\ sock[s].bot
=============================================================================
