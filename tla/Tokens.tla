------------------------------- MODULE Tokens -------------------------------
(***************************************************************************)
(* Ingest tokens and the server side of device pairing, over a database    *)
(* that reads from snapshots: inside a transaction an ordinary read sees   *)
(* the state of the transaction's first such read, SELECT ... FOR UPDATE   *)
(* waits for the row's lock and sees the latest.  A request is run by one  *)
(* of Procs and gives way at every await.                                  *)
(***************************************************************************)
EXTENDS Integers, FiniteSets

CONSTANTS
    Procs,                \* requests that may be in flight at once
    Sessions, NoSession,  \* pairing sessions
    Accounts, NoAccount,
    Tokens, NoToken,      \* rows that may be created in the Token table
    Machines,
    MaxActive,            \* MAX_ACTIVE_TOKENS
    Ttl,                  \* PAIRING_TTL_SEC in clock units
    Lifetimes,            \* lifetimes a new token may be given; Forever is one
    MaxTime

Forever == -1

ASSUME TokensAssumption ==
    /\ NoSession \notin Sessions /\ NoAccount \notin Accounts /\ NoToken \notin Tokens
    /\ IsFiniteSet(Procs) /\ IsFiniteSet(Tokens)
    /\ MaxActive \in Nat \ {0} /\ Ttl \in Nat /\ MaxTime \in Nat
    /\ Lifetimes \subseteq Nat \cup {Forever}

VARIABLES
    clock,
    session,   \* the PairingSession table
    token,     \* the Token table: a row exists if it has an account
    machine,   \* the Machine table: owner, and the token that last pushed
    proc       \* [Procs -> the request it runs]

vars == <<clock, session, token, machine, proc>>

SessionRow == [status : {"none", "pending", "approved", "expired", "consumed"},
               account : Accounts \cup {NoAccount}, expires : Nat]
TokenRow == [account : Accounts \cup {NoAccount}, expires : Nat \cup {Forever},
             revoked : BOOLEAN, from : Sessions \cup {NoSession}]
MachineRow == [account : Accounts \cup {NoAccount}, token : Tokens \cup {NoToken}]
Request == [pc : {"idle", "approve", "decide", "account", "pollInsert", "mint", "mintInsert",
                   "kick", "store"},
            session : Sessions \cup {NoSession}, account : Accounts \cup {NoAccount},
            token : Tokens \cup {NoToken}, now : Nat,
            view : SUBSET Tokens, list : SUBSET Machines]
Idle == [pc |-> "idle", session |-> NoSession, account |-> NoAccount, token |-> NoToken,
         now |-> 0, view |-> {}, list |-> {}]

TypeOK ==
    /\ clock \in 0..MaxTime
    /\ session \in [Sessions -> SessionRow]
    /\ token \in [Tokens -> TokenRow]
    /\ machine \in [Machines -> MachineRow]
    /\ proc \in [Procs -> Request]

Init ==
    /\ clock = 0
    /\ session = [s \in Sessions |-> [status |-> "none", account |-> NoAccount, expires |-> 0]]
    /\ token = [t \in Tokens |-> [account |-> NoAccount, expires |-> Forever,
                                  revoked |-> FALSE, from |-> NoSession]]
    /\ machine = [m \in Machines |-> [account |-> NoAccount, token |-> NoToken]]
    /\ proc = [p \in Procs |-> Idle]

Run(p, r) == proc' = [proc EXCEPT ![p] = r]
Unused == {t \in Tokens : token[t].account = NoAccount}
(* the rows a count over now would find, could it see the whole table *)
Unrevoked == {t \in Tokens \ Unused : ~token[t].revoked}
LiveAt(t, now) == token[t].expires = Forever \/ token[t].expires > now
Active(a) == {t \in Unrevoked : token[t].account = a /\ LiveAt(t, clock)}

(* mutated form: SELECT ... FOR UPDATE on the session is left out *)
SessionNeverLocked(s) == FALSE
SessionLocked(s) ==
    \E p \in Procs : proc[p].session = s /\ proc[p].pc \in {"decide", "account", "pollInsert"}
(* mutated form: ... and on the account *)
AccountNeverLocked(a) == FALSE
AccountLocked(a) ==
    \E p \in Procs : proc[p].account = a /\ proc[p].pc \in {"pollInsert", "mintInsert"}
-----------------------------------------------------------------------------
(* POST /pair/start *)
StartPairing(s) ==
    /\ session[s].status = "none"
    /\ session' = [session EXCEPT ![s] = [status |-> "pending", account |-> NoAccount,
                                          expires |-> clock + Ttl]]
    /\ UNCHANGED <<clock, token, machine, proc>>

(* approvePairing looks the code up and checks its expiry ... *)
ApproveRead(p, s, a) ==
    /\ proc[p].pc = "idle"
    /\ session[s].status # "none" /\ session[s].expires >= clock
    /\ Run(p, [Idle EXCEPT !.pc = "approve", !.session = s, !.account = a])
    /\ UNCHANGED <<clock, session, token, machine>>

(* mutated form: whoever approves last owns the session *)
MayApproveAgain(s) == session[s].status \in {"pending", "approved"}
MayApprove(s) == session[s].status = "pending"

(* ... and then claims it, if it is still pending *)
ApproveWrite(p) ==
    LET s == proc[p].session IN
    /\ proc[p].pc = "approve" /\ ~SessionLocked(s)
    /\ session' = IF MayApprove(s)
                  THEN [session EXCEPT ![s].status = "approved", ![s].account = proc[p].account]
                  ELSE session
    /\ Run(p, Idle)
    /\ UNCHANGED <<clock, token, machine>>

(* pollPairing locks its session, and its first plain read fixes what the    *)
(* transaction will see of the other tables.                                 *)
PollLock(p, s) ==
    /\ proc[p].pc = "idle" /\ session[s].status # "none"
    /\ ~SessionLocked(s)
    /\ Run(p, [Idle EXCEPT !.pc = "decide", !.session = s, !.view = Unrevoked])
    /\ UNCHANGED <<clock, session, token, machine>>

(* what a request counts of the rows it sees *)
Counted(p, seen, now) == {t \in seen : token[t].account = proc[p].account /\ LiveAt(t, now)}

(* it answers, unless the session is approved and has not expired *)
PollDecide(p) ==
    LET s == proc[p].session
        expired == session[s].status # "consumed" /\ session[s].expires < clock
    IN
    /\ proc[p].pc = "decide"
    /\ session' = IF expired THEN [session EXCEPT ![s].status = "expired"] ELSE session
    /\ IF session[s].status = "approved" /\ ~expired
       THEN Run(p, [proc[p] EXCEPT !.pc = "account", !.account = session[s].account, !.now = clock])
       ELSE Run(p, Idle)
    /\ UNCHANGED <<clock, token, machine>>

CapReached(p, seen, now) == Cardinality(Counted(p, seen, now)) >= MaxActive

(* the account is locked and its tokens are counted, in the poll's snapshot  *)
PollAccount(p) ==
    /\ proc[p].pc = "account" /\ ~AccountLocked(proc[p].account)
    /\ Run(p, IF CapReached(p, proc[p].view, proc[p].now) THEN Idle ELSE [proc[p] EXCEPT !.pc = "pollInsert"])
    /\ UNCHANGED <<clock, session, token, machine>>

NewToken(p, life) ==
    [account |-> proc[p].account, revoked |-> FALSE, from |-> proc[p].session,
     expires |-> IF life = Forever THEN Forever ELSE proc[p].now + life]

(* Insert, consume the session, commit and answer with the only copy of the  *)
(* secret.  If the answer is lost the plugin polls on.                       *)
PollInsert(p, t) ==
    LET s == proc[p].session IN
    /\ proc[p].pc = "pollInsert" /\ t \in Unused
    /\ token' = [token EXCEPT ![t] = NewToken(p, Forever)]
    /\ session' = [session EXCEPT ![s].status = "consumed"]
    /\ Run(p, Idle)
    /\ UNCHANGED <<clock, machine>>

(* mintToken: the lifetime is resolved, then the account locked, then its    *)
(* tokens are counted, in a snapshot that is opened only now.                *)
MintBegin(p, a) ==
    /\ proc[p].pc = "idle"
    /\ Run(p, [Idle EXCEPT !.pc = "mint", !.account = a, !.now = clock])
    /\ UNCHANGED <<clock, session, token, machine>>

MintLock(p) ==
    /\ proc[p].pc = "mint" /\ ~AccountLocked(proc[p].account)
    /\ Run(p, IF CapReached(p, Unrevoked, clock) THEN Idle ELSE [proc[p] EXCEPT !.pc = "mintInsert"])
    /\ UNCHANGED <<clock, session, token, machine>>

MintInsert(p, t, life) ==
    /\ proc[p].pc = "mintInsert" /\ t \in Unused
    /\ token' = [token EXCEPT ![t] = NewToken(p, life)]
    /\ Run(p, Idle)
    /\ UNCHANGED <<clock, session, machine>>

(* the statement fails, the transaction times out, the backend restarts *)
Rollback(p) ==
    /\ proc[p].pc # "idle" /\ Run(p, Idle)
    /\ UNCHANGED <<clock, session, token, machine>>
-----------------------------------------------------------------------------
Revoke(T) ==
    /\ T # {} /\ token' = [t \in Tokens |-> IF t \in T THEN [token[t] EXCEPT !.revoked = TRUE] ELSE token[t]]
    /\ UNCHANGED <<clock, session, machine, proc>>

(* revokeTokenAndForgetMachines lists the machines ... *)
KickRead(p, t) ==
    /\ proc[p].pc = "idle" /\ t \notin Unused
    /\ Run(p, [Idle EXCEPT !.pc = "kick", !.token = t,
                           !.list = {m \in Machines : machine[m].token = t}])
    /\ UNCHANGED <<clock, session, token, machine>>

(* ... and revokes and forgets in a transaction of its own *)
KickCommit(p) ==
    LET t == proc[p].token IN
    /\ proc[p].pc = "kick"
    /\ token' = [token EXCEPT ![t].revoked = TRUE]
    /\ machine' = [m \in Machines |->
                     IF m \in proc[p].list /\ machine[m].account = token[t].account
                     THEN [account |-> NoAccount, token |-> NoToken] ELSE machine[m]]
    /\ Run(p, Idle)
    /\ UNCHANGED <<clock, session>>

(* an ingest is authenticated ... *)
IngestAuth(p, t) ==
    /\ proc[p].pc = "idle" /\ t \in Unrevoked /\ LiveAt(t, clock)
    /\ Run(p, [Idle EXCEPT !.pc = "store", !.token = t, !.account = token[t].account])
    /\ UNCHANGED <<clock, session, token, machine>>

(* ... and storeSnapshot upserts its machine, unless another account owns it *)
IngestStore(p, m) ==
    /\ proc[p].pc = "store"
    /\ machine' = IF machine[m].account \in {NoAccount, proc[p].account}
                  THEN [machine EXCEPT ![m] = [account |-> proc[p].account, token |-> proc[p].token]]
                  ELSE machine
    /\ Run(p, Idle)
    /\ UNCHANGED <<clock, session, token>>

Tick ==
    /\ clock < MaxTime /\ clock' = clock + 1
    /\ UNCHANGED <<session, token, machine, proc>>
-----------------------------------------------------------------------------
Pairing(p) ==
    \/ \E s \in Sessions : PollLock(p, s) \/ (\E a \in Accounts : ApproveRead(p, s, a))
    \/ ApproveWrite(p) \/ PollDecide(p) \/ PollAccount(p)
    \/ \E t \in Tokens : PollInsert(p, t)
Minting(p) ==
    \/ MintLock(p) \/ (\E a \in Accounts : MintBegin(p, a))
    \/ (\E t \in Tokens, life \in Lifetimes : MintInsert(p, t, life))
Pushing(p) ==
    (\E t \in Tokens : KickRead(p, t) \/ IngestAuth(p, t)) \/ KickCommit(p)
    \/ \E m \in Machines : IngestStore(p, m)

Next ==
    \/ \E p \in Procs : Pairing(p) \/ Minting(p) \/ Pushing(p) \/ Rollback(p)
    \/ \E s \in Sessions : StartPairing(s)
    \/ \E t \in Unrevoked : Revoke({t})
    \/ \E a \in Accounts : Revoke({t \in Unrevoked : token[t].account = a})
    \/ Tick

Spec == Init /\ [][Next]_vars
-----------------------------------------------------------------------------
(* A code is good for one token: however many polls of a session overlap,    *)
(* fail or lose their answers, it yields at most one row, and once it has    *)
(* yielded it the session is consumed.                                       *)
OneTokenPerSession ==
    \A t \in Tokens, s \in Sessions : token[t].from = s =>
        /\ session[s].status = "consumed"
        /\ \A u \in Tokens : token[u].from = s => u = t

(* The token goes to the account that approved the code, and to no other     *)
(* that tried to at the same time, or after it.                              *)
BoundToApprover ==
    [][\A s \in Sessions : session[s].account # NoAccount =>
          /\ session'[s].account = session[s].account
          /\ \A t \in Tokens : token'[t].from = s => token'[t].account = session[s].account]_vars

(* The cap under any overlap: an account exceeds MAX_ACTIVE_TOKENS by no     *)
(* more than the polls that opened their snapshot below it.                  *)
CapOvershoot == \A a \in Accounts : Cardinality(Active(a)) < MaxActive + Cardinality(Procs)

(* A mint in the web app holds the cap whatever the polls do: it counts what *)
(* is committed, and from its lock to its insert nobody else inserts.        *)
MintsWithinCap ==
    \A t \in Unused, a \in Accounts :
        token'[t].account = a /\ token'[t].from = NoSession => Cardinality(Active(a)') <= MaxActive

(* The cap of active tokens under any overlap: a mint never passes it, and   *)
(* what the stale snapshots of polls let through stays below one token per   *)
(* request in flight.                                                        *)
CapKept == [][MintsWithinCap /\ CapOvershoot']_vars

(* "atomically counting against the account's <=10-token cap" (pairing).     *)
CapHeld == \A a \in Accounts : Cardinality(Active(a)) <= MaxActive
=============================================================================
