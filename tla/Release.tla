------------------------------- MODULE Release -------------------------------
(***************************************************************************)
(* The plugin distribution server (ADR-0022): it mirrors the highest       *)
(* release of a repository into one in-memory slot, by passes that each    *)
(* make up to three requests to GitHub, and serves the slot to whoever     *)
(* loads the plugin.  setInterval starts a pass whether or not the one     *)
(* before it has ended.                                                    *)
(***************************************************************************)
EXTENDS Naturals, FiniteSets, FiniteSetsExt

CONSTANTS
    V,             \* releases are numbered by precedence, 1..V
    Pre,           \* those that are pre-releases
    PollEvery,     \* POLL_INTERVAL_MS, in ticks
    Timeout,       \* REQUEST_TIMEOUT_MS, in ticks
    MaxEdits,      \* bounds what happens to the releases
    MaxFaults,     \* bounds the failed requests and the restarts
    Passes         \* bounds the passes under way at a time

Versions == 1..V
Nothing == 0

ASSUME ReleaseAssumption ==
    /\ V \in Nat \ {0} /\ Pre \subseteq Versions /\ Passes # {}
    /\ PollEvery \in Nat \ {0} /\ Timeout \in Nat \ {0} /\ MaxEdits \in Nat /\ MaxFaults \in Nat

VARIABLES
    allowPre, \* ALLOW_PRERELEASE
    repo,     \* the releases: whether published, the build of the asset, the build its checksum is of
    store,    \* the slot of store.ts
    pass,     \* refreshWasm, by the request it waits for
    due,      \* ticks to the next pass
    copy,     \* what a client that revalidates holds
    edits, faults,
    quiet     \* ticks since the last of both (history)

releaseVars == <<allowPre, repo, store, pass, due, copy, edits, faults, quiet>>

Builds == 0..2   \* Nothing, the first upload of a release's asset, and one that replaced it
Artifacts == [version : 0..V, build : Builds, verified : BOOLEAN]
NoArtifact == [version |-> Nothing, build |-> Nothing, verified |-> FALSE]
NoCopy == [version |-> Nothing, build |-> Nothing]
(* the longest until a pass starts, and ends; what is due then takes place *)
Catchup == PollEvery + 3 * Timeout + 1

Idle == [at |-> "off", version |-> Nothing, sums |-> FALSE, build |-> Nothing, age |-> 0]

ReleaseTypeOK ==
    /\ allowPre \in BOOLEAN
    /\ repo \in [Versions -> [published : BOOLEAN, build : Builds, sums : Builds]]
    /\ store \in Artifacts
    /\ pass \in [Passes -> [at : {"off", "list", "bytes", "sums"}, version : Versions \cup {Nothing},
                            sums : BOOLEAN, build : Builds, age : 0..Timeout]]
    /\ due \in 0..PollEvery
    /\ copy \in [version : 0..V, build : Builds]
    /\ edits \in 0..MaxEdits /\ faults \in 0..MaxFaults /\ quiet \in 0..Catchup

ReleaseInit ==
    /\ allowPre \in BOOLEAN
    /\ repo = [v \in Versions |-> [published |-> FALSE, build |-> Nothing, sums |-> Nothing]]
    /\ store = NoArtifact /\ copy = NoCopy
    /\ pass = [p \in Passes |-> Idle]
    /\ due = 0   \* startWasmPolling runs a pass at once
    /\ edits = 0 /\ faults = 0 /\ quiet = 0

Edit == edits < MaxEdits /\ edits' = edits + 1 /\ quiet' = 0
Fault == faults < MaxFaults /\ faults' = faults + 1 /\ quiet' = 0
-----------------------------------------------------------------------------
(* What the maintainers do: a release is created (a draft becomes public),  *)
(* its files are uploaded one by one or replaced, it is yanked.             *)
Publish(v) ==
    /\ ~repo[v].published /\ Edit
    /\ repo' = [repo EXCEPT ![v].published = TRUE]
    /\ UNCHANGED <<allowPre, store, pass, due, copy, faults>>

Upload(v) ==
    /\ repo[v].build < 2 /\ Edit
    /\ repo' = [repo EXCEPT ![v].build = @ + 1]
    /\ UNCHANGED <<allowPre, store, pass, due, copy, faults>>

UploadSums(v) ==
    /\ repo[v].sums # repo[v].build /\ Edit
    /\ repo' = [repo EXCEPT ![v].sums = repo[v].build]
    /\ UNCHANGED <<allowPre, store, pass, due, copy, faults>>

Yank(v) ==
    /\ repo[v].published /\ Edit
    /\ repo' = [repo EXCEPT ![v].published = FALSE]
    /\ UNCHANGED <<allowPre, store, pass, due, copy, faults>>
-----------------------------------------------------------------------------
Eligible == {v \in Versions : repo[v].published /\ (allowPre \/ v \notin Pre)}

(* the highest, not the latest; Nothing if there is none *)
(* mutated form: the first of the list *)
FirstListed(seen) == IF seen = {} THEN Nothing ELSE CHOOSE v \in seen : TRUE
pickLatestRelease(seen) == IF seen = {} THEN Nothing ELSE Max(seen)

Move(p, next) == pass' = [pass EXCEPT ![p] = next]

(* the timer of startWasmPolling; the guard bounds the passes under way *)
Start(p) ==
    /\ due = 0 /\ pass[p] = Idle
    /\ due' = PollEvery
    /\ Move(p, [Idle EXCEPT !.at = "list"])
    /\ UNCHANGED <<allowPre, repo, store, copy, edits, faults, quiet>>

(* the strict ratchet, which reads the slot before the requests that follow *)
(* mutated form: only the release that is served is passed over *)
Changed(v) == v # store.version
Ahead(v) == v > store.version

(* a list that came back incomplete is a fault; it names the assets of a    *)
(* release as they are by now, a checksum file or none among them           *)
Listed(p) ==
    \E seen \in SUBSET Eligible :
        LET v == pickLatestRelease(seen) IN
        /\ pass[p].at = "list"
        /\ \/ seen = Eligible /\ UNCHANGED <<faults, quiet>>
           \/ seen # Eligible /\ Fault
        /\ Move(p, IF v # Nothing /\ Ahead(v) /\ repo[v].build # Nothing
                   THEN [at |-> "bytes", version |-> v, sums |-> repo[v].sums # Nothing, build |-> Nothing, age |-> 0]
                   ELSE Idle)
        /\ UNCHANGED <<allowPre, repo, store, due, copy, edits>>

(* the bytes are those the asset has by now; if the list had no checksum    *)
(* file the pass ends here, and one that it had is fetched                  *)
Keep(v, b, verified) == store' = [version |-> v, build |-> b, verified |-> verified]

Downloaded(p) ==
    LET v == pass[p].version b == repo[v].build IN
    /\ pass[p].at = "bytes" /\ repo[v].published
    /\ IF pass[p].sums
       THEN Move(p, [at |-> "sums", version |-> v, sums |-> TRUE, build |-> b, age |-> 0]) /\ UNCHANGED store
       ELSE Keep(v, b, FALSE) /\ Move(p, Idle)
    /\ UNCHANGED <<allowPre, repo, due, copy, edits, faults, quiet>>

(* a digest that disagrees refuses the bytes *)
Checked(p) ==
    LET v == pass[p].version b == pass[p].build IN
    /\ pass[p].at = "sums" /\ repo[v].published
    /\ IF repo[v].sums = b THEN Keep(v, b, TRUE) ELSE UNCHANGED store
    /\ Move(p, Idle)
    /\ UNCHANGED <<allowPre, repo, due, copy, edits, faults, quiet>>

(* a request fails, times out or finds the release gone: the pass rejects   *)
(* and the slot is kept, but for the checksum file, without which the bytes *)
(* are served unverified                                                    *)
GivesUp(p) == IF pass[p].at = "sums" THEN Keep(pass[p].version, pass[p].build, FALSE) ELSE UNCHANGED store
Fails(p) ==
    /\ pass[p].at # "off"
    /\ \/ Fault
       \/ pass[p].at # "list" /\ ~repo[pass[p].version].published /\ UNCHANGED <<faults, quiet>>
    /\ GivesUp(p) /\ Move(p, Idle)
    /\ UNCHANGED <<allowPre, repo, due, copy, edits>>

(* time passes: no request outlives its timeout, and the timer is punctual *)
TimePasses ==
    /\ due > 0 /\ \A p \in Passes : pass[p].age < Timeout
    /\ due' = due - 1
    /\ pass' = [p \in Passes |-> IF pass[p] = Idle THEN Idle ELSE [pass[p] EXCEPT !.age = @ + 1]]
    /\ quiet' = Min({quiet + 1, Catchup})
    /\ UNCHANGED <<allowPre, repo, store, copy, edits, faults>>

(* main again, with an empty slot *)
Reboot ==
    /\ Fault
    /\ store' = NoArtifact /\ due' = 0
    /\ pass' = [p \in Passes |-> Idle]
    /\ UNCHANGED <<allowPre, repo, copy, edits>>

(* a conditional GET: a client that has these very bytes gets a 304 and the *)
(* version the slot has by now, any other gets the slot                     *)
Revalidate ==
    /\ store # NoArtifact
    /\ copy' = [version |-> store.version, build |-> store.build]
    /\ copy' # copy
    /\ UNCHANGED <<allowPre, repo, store, pass, due, edits, faults, quiet>>

ReleaseNext ==
    \/ \E v \in Versions : Publish(v) \/ Upload(v) \/ UploadSums(v) \/ Yank(v)
    \/ \E p \in Passes : Start(p) \/ Listed(p) \/ Downloaded(p) \/ Checked(p) \/ Fails(p)
    \/ TimePasses \/ Reboot \/ Revalidate
-----------------------------------------------------------------------------
(* While the server runs it never goes back to a lower version than the one  *)
(* it serves, nor to nothing, however releases are yanked, lists come back    *)
(* incomplete and passes fail.                                                *)
Reboots == \A p \in Passes : pass'[p] = Idle /\ due' = 0 /\ faults' # faults
Ratchet == store' # store /\ ~Reboots => store'.version > store.version

(* A poll interval and a pass after the last publishing and the last failure, *)
(* the highest release is served if its files are in place, or a higher one   *)
(* that has been yanked.                                                      *)
InPlace(v) == repo[v].build # Nothing /\ repo[v].sums \in {Nothing, repo[v].build}
Mirrors ==
    quiet = Catchup => \A v \in Eligible : InPlace(v) /\ (\A w \in Eligible : w <= v) => store.version >= v
=============================================================================
