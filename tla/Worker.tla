------------------------------- MODULE Worker -------------------------------
(***************************************************************************)
(* The service worker (sw.js): the shell it keeps for when there is no     *)
(* network, its updates, which precache a shell of their own and then take *)
(* over, and the notifications it shows.  A deployment may or may not      *)
(* change the name of the cache.                                           *)
(***************************************************************************)
EXTENDS Naturals

CONSTANTS
    MaxDeploys, MaxWindows, MaxPushes, \* bound the deployments, the windows and the pushes
    MaxTries                           \* bounds the requests of the page

VARIABLES
    site,    \* the deployment the server serves
    cache,   \* CACHE, in the sw.js it serves
    online,
    worker,  \* CACHE of the worker that controls the pages, or 0
    coming,  \* the one that is being installed: [cache, step], cache 0 for none
    stores,  \* the shell of each cache, by the deployment it is from; 0 if there is none
    missed,  \* the caches whose shell could not be fetched (history)
    got,     \* the last answer to a page: [kind, of, net], net: was there a network? (history)
    windows, \* the windows of the dashboard
    focus,   \* has one of them the focus?
    pushed,  \* the pushes there have been
    tray,    \* the notification that is shown, by its push; 0 for none
    tries

workerVars == <<site, cache, online, worker, coming, stores, missed, got, windows, focus, pushed, tray, tries>>
-----------------------------------------------------------------------------
Caches == 1..(MaxDeploys + 1)
Nobody == [cache |-> 0, step |-> "no"]

Deploy(renamed) ==
    /\ site <= MaxDeploys /\ site' = site + 1
    /\ cache' = IF renamed THEN site + 1 ELSE cache
    /\ UNCHANGED <<online, worker, coming, stores, missed, got, windows, focus, pushed, tray, tries>>

Network ==
    /\ tries < MaxTries /\ tries' = tries + 1 /\ online' = ~online
    /\ UNCHANGED <<site, cache, worker, coming, stores, missed, got, windows, focus, pushed, tray>>

(* a page registers sw.js, and the browser finds that it has changed *)
Update ==
    /\ online /\ coming = Nobody /\ worker # cache
    /\ coming' = [cache |-> cache, step |-> "installing"]
    /\ UNCHANGED <<site, cache, online, worker, stores, missed, got, windows, focus, pushed, tray, tries>>

(* install: addAll keeps all of the shell or nothing, and a failure is caught *)
Install(ok) ==
    /\ coming.step = "installing" /\ (ok => online)
    /\ coming' = [coming EXCEPT !.step = "installed"]
    /\ stores' = IF ok THEN [stores EXCEPT ![coming.cache] = site] ELSE stores
    /\ missed' = IF ok THEN missed \ {coming.cache} ELSE missed \cup {coming.cache}
    /\ UNCHANGED <<site, cache, online, worker, got, windows, focus, pushed, tray, tries>>

(* activate, at once because of skipWaiting: the other caches are deleted *)
Activate ==
    /\ coming.step = "installed"
    /\ worker' = coming.cache /\ coming' = Nobody
    /\ stores' = [n \in Caches |-> IF n = coming.cache THEN stores[n] ELSE 0]
    /\ UNCHANGED <<site, cache, online, missed, got, windows, focus, pushed, tray, tries>>

(* caches.match: the oldest cache that has it *)
Match ==
    LET has == {n \in Caches : stores[n] # 0}
    IN  IF has = {} THEN 0 ELSE stores[CHOOSE n \in has : \A k \in has : n <= k]

(* fetch: the network first for a page, the cache first for an asset of the   *)
(* shell (manifest, icon), and no part in a request to the API                *)
Fetch(what) ==
    /\ tries < MaxTries /\ tries' = tries + 1
    /\ LET cached == IF worker = 0 \/ what = "api" THEN 0 ELSE Match
           reply(from, v) == [kind |-> what, from |-> from, of |-> v, net |-> online, now |-> site]
       IN got' = IF what = "asset" /\ cached # 0 THEN reply("cache", cached)
                 ELSE IF online THEN reply("network", site)
                 ELSE IF cached # 0 THEN reply("cache", cached) ELSE reply("nowhere", 0)
    /\ UNCHANGED <<site, cache, online, worker, coming, stores, missed, windows, focus, pushed, tray>>

(* push: one notification, under one tag, takes the place of the one before *)
Push ==
    /\ worker # 0 /\ pushed < MaxPushes /\ pushed' = pushed + 1 /\ tray' = pushed + 1
    /\ UNCHANGED <<site, cache, online, worker, coming, stores, missed, got, windows, focus, tries>>

(* notificationclick: a window there is, or a new one *)
Click ==
    /\ tray # 0 /\ tray' = 0 /\ focus' = TRUE
    /\ windows' = IF windows = 0 THEN 1 ELSE windows
    /\ UNCHANGED <<site, cache, online, worker, coming, stores, missed, got, pushed, tries>>

Windows(n) ==
    /\ n # windows /\ windows' = n /\ focus' = (n > windows)
    /\ UNCHANGED <<site, cache, online, worker, coming, stores, missed, got, pushed, tray, tries>>

WorkerInit ==
    /\ site = 1 /\ cache = 1 /\ online = TRUE /\ worker = 0 /\ coming = Nobody
    /\ stores = [n \in Caches |-> 0] /\ missed = {} /\ windows = 1 /\ focus = TRUE /\ pushed = 0 /\ tray = 0
    /\ got = [kind |-> "api", from |-> "network", of |-> 1, net |-> TRUE, now |-> 1] /\ tries = 0

WorkerNext ==
    \/ \E yes \in BOOLEAN : Deploy(yes) \/ Install(yes)
    \/ \E what \in {"page", "asset", "api"} : Fetch(what)
    \/ \E n \in 0..MaxWindows : Windows(n)
    \/ Network \/ Update \/ Activate \/ Push \/ Click
-----------------------------------------------------------------------------
(* With a network every page is of the current deployment, however old the   *)
(* caches are, and the API is never answered from one; without, the shell is  *)
(* there if the worker in charge could fetch it, and is at least as new as    *)
(* the deployment that named its cache; and what is shown is the last push.    *)
ShellSound ==
    /\ got.kind = "api" => got.from # "cache"
    /\ got.kind = "page" /\ got.net => got.of = got.now
    /\ worker # 0 /\ worker \notin missed => Match # 0
    /\ worker # 0 /\ coming = Nobody /\ Match # 0 => Match >= worker
    /\ tray \in {0, pushed} /\ (focus => windows > 0)
=============================================================================
