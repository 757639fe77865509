--------------------------- MODULE BackendProofs ---------------------------
(***************************************************************************)
(* The tables of the backend.                                              *)
(*                                                                         *)
(* Tokens: type correctness, OneTokenPerSession, BoundToApprover and       *)
(* CapKept, for any number of overlapping requests, sessions, accounts and *)
(* tokens.  The cap needs an invariant of its own, CapInv: an overlap can  *)
(* pass it only by as many tokens as polls opened a snapshot below it, and *)
(* such a poll is a request in flight no longer when it has inserted.      *)
(*                                                                         *)
(* Telemetry: its invariants for every number of sessions and panes, every *)
(* window and threshold and no bound on the events.                        *)
(***************************************************************************)
EXTENDS Tokens, Telemetry, FiniteSetTheorems, TLAPS

Polling == {"decide", "account", "pollInsert"}

(* a poll past its decision works for an approved session and its account *)
PollSound(r) ==
    /\ r.pc \in Polling => r.session \in Sessions
    /\ r.pc \in {"account", "pollInsert"} =>
         /\ session[r.session].status = "approved"
         /\ session[r.session].account = r.account
    /\ r.pc = "approve" => r.session \in Sessions /\ r.account \in Accounts
    /\ r.pc \in {"mint", "mintInsert", "store"} => r.account \in Accounts
    /\ r.pc \in {"mint", "mintInsert"} => r.session = NoSession
    /\ r.pc \in {"kick", "store"} => r.token \in Tokens

(* at most one poll holds the lock of a session *)
LocksHeld ==
    \A p, q \in Procs :
        proc[p].pc \in Polling /\ proc[q].pc \in Polling /\ proc[p].session = proc[q].session => p = q

(* a session is bound exactly when it has been approved *)
SessionsSound ==
    \A s \in Sessions :
        /\ session[s].status \in {"none", "pending"} => session[s].account = NoAccount
        /\ session[s].status \in {"approved", "consumed"} => session[s].account \in Accounts

TokensSound ==
    \A t \in Tokens :
        /\ token[t].account = NoAccount => token[t].from = NoSession
        /\ \A s \in Sessions : token[t].from = s => token[t].account = session[s].account

IInv ==
    /\ TypeOK
    /\ \A p \in Procs : PollSound(proc[p])
    /\ LocksHeld /\ SessionsSound /\ TokensSound /\ OneTokenPerSession

(* What a step does to sessions that are bound. *)
Bound ==
    \A s \in Sessions : session[s].account # NoAccount =>
        session'[s].account = session[s].account

USE DEF Forever

(* The initial state satisfies the invariant. *)
LEMMA InitIInv == Init => IInv
<1> SUFFICES ASSUME Init PROVE IInv
  OBVIOUS
<1> USE TokensAssumption
<1>1. Idle \in Request
  BY DEF Idle, Request
<1>2. TypeOK
  BY <1>1 DEF Init, TypeOK, SessionRow, TokenRow, MachineRow
<1>3. \A p \in Procs : PollSound(proc[p])
  BY DEF Init, PollSound, Idle, Polling
<1>4. LocksHeld
  BY DEF Init, LocksHeld, Idle, Polling
<1>5. SessionsSound /\ TokensSound /\ OneTokenPerSession
  BY DEF Init, SessionsSound, TokensSound, OneTokenPerSession
<1> QED BY <1>2, <1>3, <1>4, <1>5 DEF IInv

(* A request that moves on, alone, without touching a session or a token. *)
LEMMA MoveKeeps ==
    ASSUME IInv, NEW p \in Procs, NEW r \in Request, Run(p, r),
           UNCHANGED <<session, token>>,
           r.pc \in Polling => \/ proc[p].pc \in Polling /\ r.session = proc[p].session
                               \/ ~SessionLocked(r.session),
           PollSound(r)
    PROVE  /\ proc' \in [Procs -> Request]
           /\ (\A q \in Procs : PollSound(proc[q]))'
           /\ LocksHeld' /\ SessionsSound' /\ TokensSound' /\ OneTokenPerSession'
<1>1. proc' \in [Procs -> Request] /\ \A q \in Procs : proc'[q] = IF q = p THEN r ELSE proc[q]
  BY DEF IInv, TypeOK, Run
<1>2. (\A q \in Procs : PollSound(proc[q]))'
  <2> SUFFICES ASSUME NEW q \in Procs PROVE PollSound(proc[q])'
    OBVIOUS
  <2>1. PollSound(proc'[q])
    BY <1>1 DEF IInv
  <2> QED BY <2>1 DEF PollSound
<1>3. LocksHeld'
  BY <1>1 DEF IInv, LocksHeld, SessionLocked, Polling
<1>4. SessionsSound' /\ TokensSound' /\ OneTokenPerSession'
  BY DEF IInv, SessionsSound, TokensSound, OneTokenPerSession
<1> QED BY <1>1, <1>2, <1>3, <1>4

(* A step that changes sessions and tokens keeps the requests sound if the   *)
(* sessions that polls have decided on stay as they are.                     *)
LEMMA OthersKeep ==
    ASSUME IInv, NEW p \in Procs, Run(p, Idle),
           \A q \in Procs \ {p} : proc[q].pc \in {"account", "pollInsert"} =>
               session'[proc[q].session] = session[proc[q].session]
    PROVE  proc' \in [Procs -> Request] /\ (\A q \in Procs : PollSound(proc[q]))' /\ LocksHeld'
<1>1. Idle \in Request
  BY TokensAssumption DEF Idle, Request
<1>2. proc' \in [Procs -> Request] /\ \A q \in Procs : proc'[q] = IF q = p THEN Idle ELSE proc[q]
  BY <1>1 DEF IInv, TypeOK, Run
<1>3. ASSUME NEW q \in Procs PROVE PollSound(proc[q])'
  <2>1. CASE q = p
    BY <1>2, <2>1 DEF PollSound, Idle, Polling
  <2>2. CASE q # p
    <3>1. PollSound(proc[q])
      BY DEF IInv
    <3> QED BY <1>2, <2>2, <3>1 DEF PollSound
  <2> QED BY <2>1, <2>2
<1>4. LocksHeld'
  BY <1>2 DEF IInv, LocksHeld, Idle, Polling
<1> QED BY <1>2, <1>3, <1>4

(* A step that gives existing sessions and tokens what they had. *)
LEMMA TablesKeep ==
    ASSUME IInv,
           \A s \in Sessions : /\ session'[s].account = session[s].account
                               /\ session'[s].status = session[s].status,
           \A t \in Tokens : token'[t].account = token[t].account /\ token'[t].from = token[t].from
    PROVE  SessionsSound' /\ TokensSound' /\ OneTokenPerSession' /\ Bound
BY DEF IInv, SessionsSound, TokensSound, OneTokenPerSession, Bound

(* A poll inserts its token: the session's first. *)
LEMMA InsertKeeps ==
    ASSUME IInv, NEW p \in Procs, NEW t \in Tokens,
           PollInsert(p, t)
    PROVE  IInv' /\ Bound
<1> DEFINE s == proc[p].session
           a == proc[p].account
<1> USE TokensAssumption
<1>1. /\ s \in Sessions /\ session[s].status = "approved" /\ session[s].account = a
      /\ a \in Accounts /\ token[t].account = NoAccount /\ proc[p].now \in Nat
  BY DEF PollInsert, IInv, TypeOK, PollSound, Polling, SessionsSound, Unused, Request
<1> DEFINE new == NewToken(p, Forever)
<1>2. new \in TokenRow /\ new.account = a /\ new.from = s
  BY <1>1 DEF NewToken, TokenRow
<1>3. token' = [token EXCEPT ![t] = new] /\ session' = [session EXCEPT ![s].status = "consumed"]
  BY DEF PollInsert
<1> HIDE DEF new
<1>4. /\ session' \in [Sessions -> SessionRow]
      /\ \A r \in Sessions : /\ session'[r].account = session[r].account
                              /\ session'[r].status = IF r = s THEN "consumed" ELSE session[r].status
      /\ \A r \in Sessions \ {s} : session'[r] = session[r]
  BY <1>1, <1>3 DEF IInv, TypeOK, SessionRow
<1>5. /\ token' \in [Tokens -> TokenRow]
      /\ \A u \in Tokens : token'[u] = IF u = t THEN new ELSE token[u]
  BY <1>2, <1>3 DEF IInv, TypeOK
<1>6. \A q \in Procs \ {p} : proc[q].pc \in {"account", "pollInsert"} =>
          session'[proc[q].session] = session[proc[q].session]
  BY <1>1, <1>4 DEF PollInsert, IInv, PollSound, LocksHeld, Polling
<1>7. proc' \in [Procs -> Request] /\ (\A q \in Procs : PollSound(proc[q]))' /\ LocksHeld'
  BY <1>6, OthersKeep DEF PollInsert
<1>8. TypeOK'
  BY <1>1, <1>4, <1>5, <1>7 DEF PollInsert, IInv, TypeOK
<1>9. \A u \in Tokens : token[u].from # s
  BY <1>1 DEF IInv, OneTokenPerSession
<1>10. SessionsSound'
  BY <1>1, <1>4 DEF IInv, SessionsSound
<1>11. TokensSound'
  BY <1>1, <1>2, <1>4, <1>5 DEF IInv, TokensSound
<1>12. OneTokenPerSession'
  BY <1>1, <1>2, <1>4, <1>5, <1>9 DEF IInv, OneTokenPerSession
<1>13. Bound
  BY <1>4 DEF Bound
<1> QED BY <1>7, <1>8, <1>10, <1>11, <1>12, <1>13 DEF IInv

(* The code is approved, or the session expires under its own poll. *)
LEMMA SessionStepKeeps ==
    ASSUME IInv, NEW p \in Procs, NEW s \in Sessions, NEW row \in SessionRow, Run(p, Idle),
           session' = [session EXCEPT ![s] = row],
           UNCHANGED <<clock, token, machine>>,
           session[s].status # "consumed", row.status # "consumed",
           row.status = "approved" => row.account \in Accounts,
           row.status \in {"none", "pending"} => row.account = NoAccount,
           session[s].account # NoAccount => row.account = session[s].account,
           \A q \in Procs \ {p} : ~(proc[q].session = s /\ proc[q].pc \in Polling)
    PROVE  IInv' /\ Bound
<1>1. /\ session' \in [Sessions -> SessionRow]
      /\ \A r \in Sessions : session'[r] = IF r = s THEN row ELSE session[r]
  BY DEF IInv, TypeOK
<1>2. proc' \in [Procs -> Request] /\ (\A q \in Procs : PollSound(proc[q]))' /\ LocksHeld'
  <2>1. \A q \in Procs \ {p} : proc[q].pc \in {"account", "pollInsert"} =>
            session'[proc[q].session] = session[proc[q].session]
    BY <1>1 DEF IInv, PollSound, Polling
  <2> QED BY <2>1, OthersKeep
<1>3. TypeOK'
  BY <1>1, <1>2 DEF IInv, TypeOK
<1>4. \A t \in Tokens : token[t].from # s
  BY DEF IInv, OneTokenPerSession
<1>5. SessionsSound' /\ TokensSound' /\ OneTokenPerSession'
  BY <1>1, <1>4 DEF IInv, SessionsSound, TokensSound, OneTokenPerSession
<1>6. Bound
  BY <1>1 DEF Bound
<1> QED BY <1>2, <1>3, <1>5, <1>6 DEF IInv

(* A request moves on and nothing else changes. *)
LEMMA QuietKeeps ==
    ASSUME IInv, NEW p \in Procs, NEW r \in Request, Run(p, r),
           UNCHANGED <<clock, session, token, machine>>,
           r.pc \in Polling => \/ proc[p].pc \in Polling /\ r.session = proc[p].session
                               \/ ~SessionLocked(r.session),
           PollSound(r)
    PROVE  IInv' /\ Bound
<1>1. /\ proc' \in [Procs -> Request] /\ (\A q \in Procs : PollSound(proc[q]))'
      /\ LocksHeld' /\ SessionsSound' /\ TokensSound' /\ OneTokenPerSession'
  BY MoveKeeps
<1>2. TypeOK' /\ Bound
  BY <1>1 DEF IInv, TypeOK, Bound
<1> QED BY <1>1, <1>2 DEF IInv

(* A request ends and nothing else changes. *)
LEMMA EndKeeps ==
    ASSUME IInv, NEW p \in Procs, Run(p, Idle),
           UNCHANGED <<clock, session, token, machine>>
    PROVE  IInv' /\ Bound
<1>1. Idle \in Request /\ PollSound(Idle) /\ Idle.pc \notin Polling
  BY TokensAssumption DEF Idle, Request, PollSound, Polling
<1> QED BY <1>1, QuietKeeps

(* The steps of approving and of polling a code. *)
LEMMA PairingKeeps ==
    ASSUME IInv, NEW p \in Procs, Pairing(p)
    PROVE  IInv' /\ Bound
<1> USE TokensAssumption
<1>1. proc[p] \in Request /\ PollSound(proc[p])
  BY DEF IInv, TypeOK
<1>2. ASSUME NEW s \in Sessions, PollLock(p, s) PROVE IInv' /\ Bound
  <2> DEFINE r == [Idle EXCEPT !.pc = "decide", !.session = s, !.view = Unrevoked]
  <2>1. r \in Request /\ PollSound(r) /\ r.session = s
    BY DEF Idle, Request, PollSound, Polling, Unrevoked
  <2>2. Run(p, r) /\ ~SessionLocked(s) /\ UNCHANGED <<clock, session, token, machine>>
    BY <1>2 DEF PollLock
  <2> HIDE DEF r
  <2> QED BY <2>1, <2>2, QuietKeeps
<1>3. ASSUME NEW s \in Sessions, NEW a \in Accounts, ApproveRead(p, s, a) PROVE IInv' /\ Bound
  <2> DEFINE r == [Idle EXCEPT !.pc = "approve", !.session = s, !.account = a]
  <2>1. r \in Request /\ PollSound(r) /\ r.pc \notin Polling
    BY DEF Idle, Request, PollSound, Polling
  <2>2. Run(p, r) /\ UNCHANGED <<clock, session, token, machine>>
    BY <1>3 DEF ApproveRead
  <2> HIDE DEF r
  <2> QED BY <2>1, <2>2, QuietKeeps
<1>4. CASE ApproveWrite(p)
  <2> DEFINE s == proc[p].session
             row == [session[s] EXCEPT !.status = "approved", !.account = proc[p].account]
  <2>1. s \in Sessions /\ proc[p].account \in Accounts /\ session[s] \in SessionRow
    BY <1>1, <1>4 DEF ApproveWrite, PollSound, IInv, TypeOK
  <2>2. CASE ~MayApprove(s)
    BY <1>4, <2>2, EndKeeps DEF ApproveWrite
  <2>3. CASE MayApprove(s)
    <3>1. /\ row \in SessionRow /\ row.status = "approved" /\ row.account \in Accounts
          /\ session[s].status = "pending" /\ session[s].account = NoAccount
      BY <2>1, <2>3 DEF SessionRow, MayApprove, IInv, SessionsSound
    <3>2. session' = [session EXCEPT ![s] = row]
      BY <1>4, <2>1, <2>3 DEF ApproveWrite, IInv, TypeOK, SessionRow
    <3>3. \A q \in Procs \ {p} : ~(proc[q].session = s /\ proc[q].pc \in Polling)
      BY <1>4 DEF ApproveWrite, SessionLocked, Polling
    <3>4. Run(p, Idle) /\ UNCHANGED <<clock, token, machine>>
      BY <1>4 DEF ApproveWrite
    <3> HIDE DEF row, s
    <3> QED BY <2>1, <3>1, <3>2, <3>3, <3>4, SessionStepKeeps
  <2> QED BY <2>2, <2>3
<1>5. CASE PollDecide(p)
  <2> DEFINE s == proc[p].session
             expired == session[s].status # "consumed" /\ session[s].expires < clock
             row == [session[s] EXCEPT !.status = "expired"]
             r == [proc[p] EXCEPT !.pc = "account", !.account = session[s].account, !.now = clock]
  <2>1. s \in Sessions /\ session[s] \in SessionRow
    BY <1>1, <1>5 DEF PollDecide, PollSound, Polling, IInv, TypeOK
  <2>2. CASE expired
    <3>1. row \in SessionRow /\ row.status = "expired" /\ row.account = session[s].account
      BY <2>1 DEF SessionRow
    <3>2. session' = [session EXCEPT ![s] = row] /\ Run(p, Idle)
          /\ UNCHANGED <<clock, token, machine>>
      BY <1>5, <2>1, <2>2 DEF PollDecide, IInv, TypeOK, SessionRow
    <3>3. \A q \in Procs \ {p} : ~(proc[q].session = s /\ proc[q].pc \in Polling)
      BY <1>5 DEF PollDecide, IInv, LocksHeld, Polling
    <3>4. session[s].status # "consumed"
      BY <2>2
    <3> HIDE DEF row, s
    <3> QED BY <2>1, <3>1, <3>2, <3>3, <3>4, SessionStepKeeps
  <2>3. CASE ~expired /\ session[s].status = "approved"
    <3>1. clock \in Nat /\ session[s].account \in Accounts
      BY <2>1, <2>3 DEF IInv, TypeOK, SessionsSound
    <3>2. r \in Request /\ r.pc = "account" /\ r.session = s /\ r.account = session[s].account
      BY <1>1, <3>1 DEF Request
    <3>3. PollSound(r)
      BY <2>1, <2>3, <3>2 DEF PollSound, Polling
    <3>4. Run(p, r) /\ UNCHANGED <<clock, session, token, machine>>
      BY <1>5, <2>3 DEF PollDecide
    <3>5. proc[p].pc \in Polling
      BY <1>5 DEF PollDecide, Polling
    <3> HIDE DEF r
    <3> QED BY <3>2, <3>3, <3>4, <3>5, QuietKeeps
  <2>4. CASE ~expired /\ session[s].status # "approved"
    BY <1>5, <2>4, EndKeeps DEF PollDecide
  <2> QED BY <2>2, <2>3, <2>4
<1>6. CASE PollAccount(p)
  <2> DEFINE r == [proc[p] EXCEPT !.pc = "pollInsert"]
  <2>1. CASE CapReached(p, proc[p].view, proc[p].now)
    BY <1>6, <2>1, EndKeeps DEF PollAccount
  <2>2. CASE ~CapReached(p, proc[p].view, proc[p].now)
    <3>1. /\ r \in Request /\ r.pc = "pollInsert" /\ r.session = proc[p].session
          /\ r.account = proc[p].account
      BY <1>1 DEF Request
    <3>2. PollSound(r) /\ proc[p].pc \in Polling
      BY <1>1, <1>6, <3>1 DEF PollAccount, PollSound, Polling
    <3>3. Run(p, r) /\ UNCHANGED <<clock, session, token, machine>>
      BY <1>6, <2>2 DEF PollAccount
    <3> HIDE DEF r
    <3> QED BY <3>1, <3>2, <3>3, QuietKeeps
  <2> QED BY <2>1, <2>2
<1> QED BY <1>2, <1>3, <1>4, <1>5, <1>6, InsertKeeps DEF Pairing

(* The steps of minting in the web app. *)
LEMMA MintingKeeps ==
    ASSUME IInv, NEW p \in Procs, Minting(p)
    PROVE  IInv' /\ Bound
<1> USE TokensAssumption
<1>1. proc[p] \in Request /\ PollSound(proc[p])
  BY DEF IInv, TypeOK
<1>2. ASSUME NEW a \in Accounts, MintBegin(p, a) PROVE IInv' /\ Bound
  <2> DEFINE r == [Idle EXCEPT !.pc = "mint", !.account = a, !.now = clock]
  <2>0. clock \in Nat
    BY DEF IInv, TypeOK
  <2>1. r \in Request /\ PollSound(r) /\ r.pc \notin Polling
    BY <2>0 DEF Idle, Request, PollSound, Polling
  <2>2. Run(p, r) /\ UNCHANGED <<clock, session, token, machine>>
    BY <1>2 DEF MintBegin
  <2> HIDE DEF r
  <2> QED BY <2>1, <2>2, QuietKeeps
<1>3. CASE MintLock(p)
  <2> DEFINE r == [proc[p] EXCEPT !.pc = "mintInsert"]
  <2>1. CASE CapReached(p, Unrevoked, clock)
    BY <1>3, <2>1, EndKeeps DEF MintLock
  <2>2. CASE ~CapReached(p, Unrevoked, clock)
    <3>1. r \in Request /\ PollSound(r) /\ r.pc \notin Polling
      BY <1>1, <1>3 DEF MintLock, Request, PollSound, Polling
    <3>2. Run(p, r) /\ UNCHANGED <<clock, session, token, machine>>
      BY <1>3, <2>2 DEF MintLock
    <3> HIDE DEF r
    <3> QED BY <3>1, <3>2, QuietKeeps
  <2> QED BY <2>1, <2>2
<1>4. ASSUME NEW t \in Tokens, NEW life \in Lifetimes, MintInsert(p, t, life) PROVE IInv' /\ Bound
  <2> DEFINE new == NewToken(p, life)
  <2>1. /\ new \in TokenRow /\ new.account \in Accounts /\ new.from = NoSession
        /\ token[t].account = NoAccount
    BY <1>1, <1>4 DEF MintInsert, NewToken, TokenRow, PollSound, Request, Unused
  <2>2. token' = [token EXCEPT ![t] = new] /\ Run(p, Idle)
        /\ UNCHANGED <<clock, session, machine>>
    BY <1>4 DEF MintInsert
  <2> HIDE DEF new
  <2>3. token' \in [Tokens -> TokenRow] /\ \A u \in Tokens : token'[u] = IF u = t THEN new ELSE token[u]
    BY <2>1, <2>2 DEF IInv, TypeOK
  <2>4. proc' \in [Procs -> Request] /\ (\A q \in Procs : PollSound(proc[q]))' /\ LocksHeld'
    BY <2>2, OthersKeep
  <2>5. TypeOK'
    BY <2>2, <2>3, <2>4 DEF IInv, TypeOK
  <2>6. SessionsSound' /\ TokensSound' /\ OneTokenPerSession' /\ Bound
    BY <2>1, <2>2, <2>3 DEF IInv, SessionsSound, TokensSound, OneTokenPerSession, Bound
  <2> QED BY <2>4, <2>5, <2>6 DEF IInv
<1> QED BY <1>2, <1>3, <1>4 DEF Minting

(* The steps of kicking a token and of storing a snapshot. *)
LEMMA PushingKeeps ==
    ASSUME IInv, NEW p \in Procs, Pushing(p)
    PROVE  IInv' /\ Bound
<1> USE TokensAssumption
<1>1. proc[p] \in Request /\ PollSound(proc[p])
  BY DEF IInv, TypeOK
<1>2. ASSUME NEW t \in Tokens, KickRead(p, t) PROVE IInv' /\ Bound
  <2> DEFINE r == [Idle EXCEPT !.pc = "kick", !.token = t,
                               !.list = {m \in Machines : machine[m].token = t}]
  <2>1. r \in Request /\ PollSound(r) /\ r.pc \notin Polling
    BY DEF Idle, Request, PollSound, Polling
  <2>2. Run(p, r) /\ UNCHANGED <<clock, session, token, machine>>
    BY <1>2 DEF KickRead
  <2> HIDE DEF r
  <2> QED BY <2>1, <2>2, QuietKeeps
<1>3. ASSUME NEW t \in Tokens, IngestAuth(p, t) PROVE IInv' /\ Bound
  <2> DEFINE r == [Idle EXCEPT !.pc = "store", !.token = t, !.account = token[t].account]
  <2>1. token[t].account \in Accounts
    BY <1>3 DEF IngestAuth, Unrevoked, Unused, IInv, TypeOK, TokenRow
  <2>2. r \in Request /\ PollSound(r) /\ r.pc \notin Polling
    BY <2>1 DEF Idle, Request, PollSound, Polling
  <2>3. Run(p, r) /\ UNCHANGED <<clock, session, token, machine>>
    BY <1>3 DEF IngestAuth
  <2> HIDE DEF r
  <2> QED BY <2>2, <2>3, QuietKeeps
<1>4. CASE KickCommit(p)
  <2>1. proc[p].token \in Tokens
    BY <1>1, <1>4 DEF KickCommit, PollSound
  <2>2. /\ token' \in [Tokens -> TokenRow] /\ machine' \in [Machines -> MachineRow]
        /\ \A u \in Tokens : token'[u].account = token[u].account /\ token'[u].from = token[u].from
    <3>1. /\ token' \in [Tokens -> TokenRow]
          /\ \A u \in Tokens : token'[u].account = token[u].account /\ token'[u].from = token[u].from
      <4> DEFINE t == proc[p].token
                 row == [token[t] EXCEPT !.revoked = TRUE]
      <4>1. token[t] \in TokenRow
        BY <2>1 DEF IInv, TypeOK
      <4>2. row \in TokenRow /\ row.account = token[t].account /\ row.from = token[t].from
        BY <4>1 DEF TokenRow
      <4>3. token' = [token EXCEPT ![t] = row]
        BY <1>4 DEF KickCommit
      <4> HIDE DEF row
      <4> QED BY <2>1, <4>2, <4>3 DEF IInv, TypeOK
    <3>2. machine' \in [Machines -> MachineRow]
      BY <1>4, SMTT(30) DEF KickCommit, IInv, TypeOK, MachineRow
    <3> QED BY <3>1, <3>2
  <2>3. proc' \in [Procs -> Request] /\ (\A q \in Procs : PollSound(proc[q]))' /\ LocksHeld'
    BY <1>4, OthersKeep DEF KickCommit
  <2>4. TypeOK'
    BY <1>4, <2>2, <2>3 DEF KickCommit, IInv, TypeOK
  <2>5. SessionsSound' /\ TokensSound' /\ OneTokenPerSession' /\ Bound
    BY <1>4, <2>2, TablesKeep DEF KickCommit
  <2> QED BY <2>3, <2>4, <2>5 DEF IInv
<1>5. ASSUME NEW m \in Machines, IngestStore(p, m) PROVE IInv' /\ Bound
  <2>1. proc[p].account \in Accounts /\ proc[p].token \in Tokens
    BY <1>1, <1>5 DEF IngestStore, PollSound
  <2>2. machine' \in [Machines -> MachineRow]
    BY <1>5, <2>1 DEF IngestStore, IInv, TypeOK, MachineRow
  <2>3. proc' \in [Procs -> Request] /\ (\A q \in Procs : PollSound(proc[q]))' /\ LocksHeld'
    BY <1>5, OthersKeep DEF IngestStore
  <2>4. TypeOK'
    BY <1>5, <2>2, <2>3 DEF IngestStore, IInv, TypeOK
  <2>5. SessionsSound' /\ TokensSound' /\ OneTokenPerSession' /\ Bound
    BY <1>5, TablesKeep DEF IngestStore
  <2> QED BY <2>3, <2>4, <2>5 DEF IInv
<1> QED BY <1>2, <1>3, <1>4, <1>5 DEF Pushing

(* A plugin asks for a code: no one can have acted on the session before. *)
LEMMA StartKeeps ==
    ASSUME IInv, NEW s \in Sessions, StartPairing(s)
    PROVE  IInv' /\ Bound
<1> USE TokensAssumption
<1> DEFINE row == [status |-> "pending", account |-> NoAccount, expires |-> clock + Ttl]
<1>1. row \in SessionRow /\ row.status = "pending" /\ row.account = NoAccount
  BY DEF SessionRow, IInv, TypeOK
<1>2. session' = [session EXCEPT ![s] = row] /\ session[s].status = "none"
      /\ UNCHANGED <<clock, token, machine, proc>>
  BY DEF StartPairing
<1> HIDE DEF row
<1>3. /\ session' \in [Sessions -> SessionRow] /\ session[s].account = NoAccount
      /\ \A r \in Sessions : session'[r] = IF r = s THEN row ELSE session[r]
  BY <1>1, <1>2 DEF IInv, TypeOK, SessionsSound
<1>4. \A q \in Procs : PollSound(proc[q])'
  <2> SUFFICES ASSUME NEW q \in Procs PROVE PollSound(proc[q])'
    OBVIOUS
  <2>1. PollSound(proc[q])
    BY DEF IInv
  <2> QED BY <1>2, <1>3, <2>1 DEF PollSound, Polling
<1>5. TypeOK' /\ LocksHeld'
  BY <1>2, <1>3 DEF IInv, TypeOK, LocksHeld
<1>6. SessionsSound' /\ TokensSound' /\ OneTokenPerSession' /\ Bound
  BY <1>1, <1>2, <1>3 DEF IInv, SessionsSound, TokensSound, OneTokenPerSession, Bound
<1> QED BY <1>4, <1>5, <1>6 DEF IInv

(* Steps that change neither a session, nor a request, nor whose a token is. *)
LEMMA RestKeeps ==
    ASSUME IInv, UNCHANGED <<session, proc>>, TypeOK',
           \A t \in Tokens : token'[t].account = token[t].account /\ token'[t].from = token[t].from
    PROVE  IInv' /\ Bound
<1>1. \A q \in Procs : PollSound(proc[q])'
  <2> SUFFICES ASSUME NEW q \in Procs PROVE PollSound(proc[q])'
    OBVIOUS
  <2>1. PollSound(proc[q])
    BY DEF IInv
  <2> QED BY <2>1 DEF PollSound
<1>2. LocksHeld'
  BY DEF IInv, LocksHeld
<1>3. SessionsSound' /\ TokensSound' /\ OneTokenPerSession' /\ Bound
  BY TablesKeep
<1> QED BY <1>1, <1>2, <1>3 DEF IInv

(* Every step preserves the invariant and leaves bound sessions bound. *)
LEMMA NextIInv == IInv /\ [Next]_vars => IInv' /\ Bound
<1> SUFFICES ASSUME IInv, [Next]_vars PROVE IInv' /\ Bound
  OBVIOUS
<1>1. ASSUME NEW p \in Procs, Rollback(p) PROVE IInv' /\ Bound
  BY <1>1, EndKeeps DEF Rollback
<1>2. ASSUME NEW T, Revoke(T) PROVE IInv' /\ Bound
  <2>1. /\ token' \in [Tokens -> TokenRow]
        /\ \A t \in Tokens : token'[t].account = token[t].account /\ token'[t].from = token[t].from
    BY <1>2 DEF Revoke, IInv, TypeOK, TokenRow
  <2>2. TypeOK'
    BY <1>2, <2>1 DEF Revoke, IInv, TypeOK
  <2> QED BY <1>2, <2>1, <2>2, RestKeeps DEF Revoke
<1>3. CASE Tick
  <2>1. TypeOK'
    BY <1>3, TokensAssumption DEF Tick, IInv, TypeOK
  <2> QED BY <1>3, <2>1, RestKeeps DEF Tick
<1>4. CASE UNCHANGED vars
  <2>1. TypeOK'
    BY <1>4 DEF vars, IInv, TypeOK
  <2> QED BY <1>4, <2>1, RestKeeps DEF vars
<1> QED BY <1>1, <1>2, <1>3, <1>4, PairingKeeps, MintingKeeps, PushingKeeps, StartKeeps DEF Next

(* The invariant holds always. *)
LEMMA Invariance == Spec => []IInv
BY InitIInv, NextIInv, PTL DEF Spec

(* Type correctness: every row and every request in flight is well formed. *)
THEOREM TypeCorrect == Spec => []TypeOK
<1>1. IInv => TypeOK
  BY DEF IInv
<1> QED BY <1>1, Invariance, PTL

(* However the polls of a session overlap, roll back and lose their answers, *)
(* a code yields at most one token, and a session that has yielded one is    *)
(* consumed (pollPairing's lock on its session row).                         *)
THEOREM OneToken == Spec => []OneTokenPerSession
<1>1. IInv => OneTokenPerSession
  BY DEF IInv
<1> QED BY <1>1, Invariance, PTL

(* A session once approved stays its approver's, and its token goes to that  *)
(* account (approvePairing's conditional update).                            *)
THEOREM ApproverBinds == Spec => BoundToApprover
<1>1. ASSUME IInv, IInv', [Bound]_vars, [Next]_vars
      PROVE  [\A s \in Sessions : session[s].account # NoAccount =>
                /\ session'[s].account = session[s].account
                /\ \A t \in Tokens : token'[t].from = s => token'[t].account = session[s].account]_vars
  BY <1>1 DEF IInv, TokensSound, Bound
<1>2. IInv /\ [Next]_vars => [Bound]_vars
  BY NextIInv
<1> QED BY <1>1, <1>2, Invariance, PTL DEF Spec, BoundToApprover

-----------------------------------------------------------------------------
(* The cap.  What an account will have active at a later time tau, if nothing *)
(* happens, and what a poll will count of it in the snapshot it holds.       *)
ActiveAt(a, tau) == {t \in Unrevoked : token[t].account = a /\ LiveAt(t, tau)}
SeenBy(p, a, tau) == {t \in proc[p].view : token[t].account = a /\ LiveAt(t, tau)}

(* the polls in flight that may yet find the account below the cap *)
Below(a, tau) == {p \in Procs : proc[p].pc \in Polling /\ Cardinality(SeenBy(p, a, tau)) < MaxActive}

(* Requests past their count hold the lock of their account; a poll counted  *)
(* below the cap in its snapshot, and a mint in the table, where it stays so.*)
Inserting == {"pollInsert", "mintInsert"}
InsertSound(p) ==
    /\ proc[p].pc \in Polling => proc[p].view \cap Unused = {}
    /\ proc[p].pc \in {"account", "pollInsert"} => proc[p].now <= clock
    /\ proc[p].pc = "pollInsert" => Cardinality(SeenBy(p, proc[p].account, proc[p].now)) < MaxActive
    /\ proc[p].pc = "mintInsert" => Cardinality(ActiveAt(proc[p].account, clock)) < MaxActive
    /\ \A q \in Procs : proc[p].pc \in Inserting /\ proc[q].pc \in Inserting
                          /\ proc[p].account = proc[q].account => p = q

(* Whoever may yet insert below the cap is among the requests in flight: the *)
(* rows beyond the cap and the polls that may still add to them are, taken   *)
(* together, fewer than the requests, now and at any later time.             *)
RoomLeft(a, tau) ==
    Cardinality(ActiveAt(a, tau)) + Cardinality(Below(a, tau)) < MaxActive + Cardinality(Procs)

CapInv ==
    /\ \A p \in Procs : InsertSound(p)
    /\ \A a \in Accounts, tau \in Nat : tau >= clock => RoomLeft(a, tau)

(* A step that creates no token and brings none back. *)
NoneCreated ==
    \A t \in Tokens : /\ token'[t].account = token[t].account /\ token'[t].expires = token[t].expires
                      /\ token[t].revoked => token'[t].revoked

(* The sets that are counted are finite, and what they are part of bounds them. *)
LEMMA Counts ==
    /\ Cardinality(Procs) \in Nat
    /\ \A S \in SUBSET Tokens : Cardinality(S) \in Nat /\ \A T \in SUBSET S : Cardinality(T) <= Cardinality(S)
    /\ \A S \in SUBSET Procs : Cardinality(S) \in Nat /\ \A T \in SUBSET S : Cardinality(T) <= Cardinality(S)
<1>1. ASSUME NEW U, IsFiniteSet(U), NEW S \in SUBSET U
      PROVE  Cardinality(S) \in Nat /\ \A T \in SUBSET S : Cardinality(T) <= Cardinality(S)
  <2>1. IsFiniteSet(S)
    BY <1>1, FS_Subset
  <2> QED BY <2>1, FS_Subset, FS_CardinalityType
<1> QED BY <1>1, TokensAssumption, FS_CardinalityType

LEMMA Parts ==
    /\ \A a, tau : ActiveAt(a, tau) \in SUBSET Tokens /\ Below(a, tau) \in SUBSET Procs
    /\ IInv => \A p \in Procs : \A a, tau : SeenBy(p, a, tau) \in SUBSET Tokens
<1>1. IInv => \A p \in Procs : proc[p].view \subseteq Tokens
  BY DEF IInv, TypeOK, Request
<1> QED BY <1>1 DEF ActiveAt, Below, Unrevoked, SeenBy

(* What is live later is live now. *)
LEMMA Later ==
    ASSUME IInv, NEW t \in Tokens, NEW now \in Nat, NEW tau \in Nat, now <= tau, LiveAt(t, tau)
    PROVE  LiveAt(t, now)
BY DEF LiveAt, IInv, TypeOK, TokenRow

(* No token is created: the room stays, if no poll has begun. *)
LEMMA RoomStays ==
    ASSUME IInv, CapInv, NoneCreated, clock' \in Nat, clock' >= clock,
           \A q \in Procs : proc'[q].pc \in Polling =>
               proc[q].pc \in Polling /\ proc'[q].view = proc[q].view
    PROVE  /\ \A a, tau : (ActiveAt(a, tau))' \subseteq ActiveAt(a, tau)
           /\ \A q \in Procs : \A a, tau : proc'[q].pc \in Polling => (SeenBy(q, a, tau))' = SeenBy(q, a, tau)
           /\ \A a \in Accounts, tau \in Nat : tau >= clock' => RoomLeft(a, tau)'
<1>1. \A a, tau : (ActiveAt(a, tau))' \subseteq ActiveAt(a, tau)
  BY DEF ActiveAt, Unrevoked, Unused, LiveAt, NoneCreated
<1>2. ASSUME NEW q \in Procs, NEW a, NEW tau, proc'[q].pc \in Polling
      PROVE  (SeenBy(q, a, tau))' = SeenBy(q, a, tau)
  <2>1. proc[q].view \subseteq Tokens /\ proc'[q].view = proc[q].view
    BY <1>2 DEF IInv, TypeOK, Request
  <2> QED BY <2>1 DEF SeenBy, LiveAt, NoneCreated
<1>3. ASSUME NEW a \in Accounts, NEW tau \in Nat, tau >= clock' PROVE RoomLeft(a, tau)'
  <2>1. (Below(a, tau))' \subseteq Below(a, tau)
    BY <1>2 DEF Below
  <2>2. RoomLeft(a, tau)
    BY <1>3 DEF CapInv, IInv, TypeOK
  <2>3. /\ Cardinality((ActiveAt(a, tau))') <= Cardinality(ActiveAt(a, tau))
        /\ Cardinality((Below(a, tau))') <= Cardinality(Below(a, tau))
        /\ Cardinality((ActiveAt(a, tau))') \in Nat /\ Cardinality(ActiveAt(a, tau)) \in Nat
        /\ Cardinality((Below(a, tau))') \in Nat /\ Cardinality(Below(a, tau)) \in Nat
        /\ Cardinality(Procs) \in Nat
    <3>1. ActiveAt(a, tau) \in SUBSET Tokens /\ Below(a, tau) \in SUBSET Procs
      BY Parts
    <3> QED BY <1>1, <2>1, <3>1, Counts
  <2> QED BY <2>2, <2>3, TokensAssumption DEF RoomLeft
<1> QED BY <1>1, <1>2, <1>3

(* One request moves on; it neither opens a snapshot nor creates a token. *)
LEMMA CapQuiet ==
    ASSUME IInv, CapInv, NEW p \in Procs, NEW r \in Request, Run(p, r), clock' = clock, NoneCreated,
           r.pc \in Polling => proc[p].pc \in Polling /\ r.view = proc[p].view,
           r.pc \in {"account", "pollInsert"} => r.now <= clock,
           r.pc = "pollInsert" => Cardinality({t \in r.view : token[t].account = r.account /\ LiveAt(t, r.now)}) < MaxActive,
           r.pc = "mintInsert" => Cardinality(ActiveAt(r.account, clock)) < MaxActive,
           r.pc \in Inserting => ~AccountLocked(r.account)
    PROVE  CapInv'
<1>0. /\ \A q \in Procs : proc'[q] = IF q = p THEN r ELSE proc[q]
      /\ clock \in Nat
      /\ \A q \in Procs : proc[q] \in Request
  BY DEF IInv, TypeOK, Run
<1>1. \A q \in Procs : proc'[q].pc \in Polling => proc[q].pc \in Polling /\ proc'[q].view = proc[q].view
  BY <1>0
<1>2. /\ \A a, tau : (ActiveAt(a, tau))' \subseteq ActiveAt(a, tau)
      /\ \A q \in Procs : \A a, tau : proc'[q].pc \in Polling => (SeenBy(q, a, tau))' = SeenBy(q, a, tau)
      /\ \A a \in Accounts, tau \in Nat : tau >= clock' => RoomLeft(a, tau)'
  BY <1>0, <1>1, RoomStays
<1>3. ASSUME NEW q \in Procs PROVE InsertSound(q)'
  <2>0. InsertSound(q) /\ InsertSound(p)
    BY DEF CapInv
  <2>1. proc'[q].pc \in Polling => proc'[q].view \cap Unused' = {}
    BY <1>1, <2>0 DEF InsertSound, Unused, NoneCreated
  <2>2. proc'[q].pc \in {"account", "pollInsert"} => proc'[q].now <= clock'
    BY <1>0, <2>0 DEF InsertSound
  <2>3. ASSUME proc'[q].pc = "pollInsert"
        PROVE  Cardinality((SeenBy(q, proc[q].account, proc[q].now))') < MaxActive
    <3>1. proc'[q].pc \in Polling
      BY <2>3 DEF Polling
    <3>2. CASE q = p
      <4>1. proc'[q] = r /\ r.view \subseteq Tokens
        BY <1>0, <3>2 DEF Request
      <4>2. (SeenBy(q, proc[q].account, proc[q].now))' = {t \in r.view : token[t].account = r.account /\ LiveAt(t, r.now)}
        BY <4>1 DEF SeenBy, LiveAt, NoneCreated
      <4> QED BY <2>3, <4>1, <4>2
    <3>3. CASE q # p
      <4>1. proc'[q] = proc[q] /\ proc[q].view \subseteq Tokens
        BY <1>0, <3>3 DEF Request
      <4>2. (SeenBy(q, proc[q].account, proc[q].now))' = SeenBy(q, proc[q].account, proc[q].now)
        BY <4>1 DEF SeenBy, LiveAt, NoneCreated
      <4> QED BY <2>0, <2>3, <4>1, <4>2 DEF InsertSound
    <3> QED BY <3>2, <3>3
  <2>4. ASSUME proc'[q].pc = "mintInsert"
        PROVE  Cardinality((ActiveAt(proc[q].account, clock))') < MaxActive
    <3>1. PICK b : b = proc'[q].account
      OBVIOUS
    <3>2. Cardinality(ActiveAt(b, clock)) < MaxActive
      BY <1>0, <2>0, <2>4, <3>1 DEF InsertSound
    <3>3. (ActiveAt(proc[q].account, clock))' \subseteq ActiveAt(b, clock)
      BY <3>1 DEF ActiveAt, Unrevoked, Unused, LiveAt, NoneCreated
    <3>4. ActiveAt(b, clock) \in SUBSET Tokens
      BY Parts
    <3>5. /\ Cardinality((ActiveAt(proc[q].account, clock))') <= Cardinality(ActiveAt(b, clock))
          /\ Cardinality((ActiveAt(proc[q].account, clock))') \in Nat
          /\ Cardinality(ActiveAt(b, clock)) \in Nat
      BY <3>3, <3>4, Counts
    <3> QED BY <3>2, <3>5, TokensAssumption
  <2>5. ASSUME NEW s \in Procs, proc'[q].pc \in Inserting, proc'[s].pc \in Inserting,
               proc'[q].account = proc'[s].account
        PROVE  q = s
    BY <1>0, <2>0, <2>5 DEF InsertSound, AccountLocked, Inserting
  <2> QED BY <2>1, <2>2, <2>3, <2>4, <2>5 DEF InsertSound
<1> QED BY <1>2, <1>3 DEF CapInv

(* A request ends. *)
LEMMA CapEnd ==
    ASSUME IInv, CapInv, NEW p \in Procs, Run(p, Idle), clock' = clock, NoneCreated
    PROVE  CapInv'
<1>1. Idle \in Request /\ Idle.pc = "idle"
  BY TokensAssumption DEF Idle, Request
<1> QED BY <1>1, CapQuiet DEF Polling, Inserting

(* The requests stay as they are: time passes, tokens are revoked. *)
LEMMA CapStill ==
    ASSUME IInv, CapInv, proc' = proc, clock' \in Nat, clock' >= clock, NoneCreated
    PROVE  CapInv'
<1>1. /\ \A a, tau : (ActiveAt(a, tau))' \subseteq ActiveAt(a, tau)
      /\ \A q \in Procs : \A a, tau : proc'[q].pc \in Polling => (SeenBy(q, a, tau))' = SeenBy(q, a, tau)
      /\ \A a \in Accounts, tau \in Nat : tau >= clock' => RoomLeft(a, tau)'
  BY RoomStays
<1>2. ASSUME NEW q \in Procs PROVE InsertSound(q)'
  <2>0. InsertSound(q) /\ clock \in Nat /\ proc[q].now \in Nat /\ proc[q].view \subseteq Tokens
    BY DEF CapInv, IInv, TypeOK, Request
  <2>1. proc[q].pc \in Polling => proc[q].view \cap Unused' = {}
    BY <2>0 DEF InsertSound, Unused, NoneCreated
  <2>2. (SeenBy(q, proc[q].account, proc[q].now))' = SeenBy(q, proc[q].account, proc[q].now)
    BY <2>0 DEF SeenBy, LiveAt, NoneCreated
  <2>3. proc[q].pc = "mintInsert" => Cardinality((ActiveAt(proc[q].account, clock))') < MaxActive
    <3>1. \A t \in Tokens : LiveAt(t, clock)' => LiveAt(t, clock)
      BY <2>0 DEF LiveAt, NoneCreated, IInv, TypeOK, TokenRow
    <3>2. (ActiveAt(proc[q].account, clock))' \subseteq ActiveAt(proc[q].account, clock)
      BY <3>1 DEF ActiveAt, Unrevoked, Unused, NoneCreated
    <3>3. ActiveAt(proc[q].account, clock) \in SUBSET Tokens
      BY Parts
    <3>4. /\ Cardinality((ActiveAt(proc[q].account, clock))') <= Cardinality(ActiveAt(proc[q].account, clock))
          /\ Cardinality((ActiveAt(proc[q].account, clock))') \in Nat
          /\ Cardinality(ActiveAt(proc[q].account, clock)) \in Nat
      BY <3>2, <3>3, Counts
    <3> QED BY <2>0, <3>4, TokensAssumption DEF InsertSound
  <2> QED BY <2>0, <2>1, <2>2, <2>3 DEF InsertSound
<1> QED BY <1>1, <1>2 DEF CapInv

(* A poll opens its snapshot: if it sees an account below the cap at a time,  *)
(* then so it is, and the requests bound the rest.                           *)
LEMMA CapSnapshot ==
    ASSUME IInv, CapInv, NEW p \in Procs, NEW s \in Sessions, PollLock(p, s)
    PROVE  CapInv'
<1> DEFINE r == [Idle EXCEPT !.pc = "decide", !.session = s, !.view = Unrevoked]
<1>0. /\ clock' = clock /\ clock \in Nat /\ token' = token /\ Unrevoked' = Unrevoked /\ Unused' = Unused
      /\ \A q \in Procs : proc'[q] = IF q = p THEN r ELSE proc[q]
  BY DEF PollLock, IInv, TypeOK, Run, Unrevoked, Unused
<1>1. r.pc = "decide" /\ r.view = Unrevoked
  BY DEF Idle
<1> HIDE DEF r
<1>2. ASSUME NEW q \in Procs PROVE InsertSound(q)'
  <2>0. InsertSound(q)
    BY DEF CapInv
  <2>1. CASE q = p
    BY <1>0, <1>1, <2>1 DEF InsertSound, Inserting, Polling, Unrevoked
  <2>2. CASE q # p
    <3>1. proc'[q] = proc[q]
      BY <1>0, <2>2
    <3>2. \A v \in Procs : proc'[v].pc \in Inserting => proc'[v] = proc[v]
      BY <1>0, <1>1 DEF Inserting
    <3>3. /\ (SeenBy(q, proc[q].account, proc[q].now))' = SeenBy(q, proc[q].account, proc[q].now)
          /\ (ActiveAt(proc[q].account, clock))' = ActiveAt(proc[q].account, clock)
      BY <1>0, <3>1 DEF SeenBy, ActiveAt, LiveAt
    <3> QED BY <1>0, <2>0, <3>1, <3>2, <3>3 DEF InsertSound
  <2> QED BY <2>1, <2>2
<1>3. ASSUME NEW a \in Accounts, NEW tau \in Nat, tau >= clock' PROVE RoomLeft(a, tau)'
  <2>1. (ActiveAt(a, tau))' = ActiveAt(a, tau)
    BY <1>0 DEF ActiveAt, LiveAt
  <2>2. \A q \in Procs \ {p} : (SeenBy(q, a, tau))' = SeenBy(q, a, tau)
    BY <1>0 DEF SeenBy, LiveAt
  <2>3. (SeenBy(p, a, tau))' = ActiveAt(a, tau)
    BY <1>0, <1>1 DEF SeenBy, LiveAt, ActiveAt
  <2>4. /\ Cardinality(ActiveAt(a, tau)) \in Nat /\ Cardinality(Procs) \in Nat
        /\ Cardinality(Below(a, tau)) \in Nat /\ Cardinality((Below(a, tau))') \in Nat
        /\ Cardinality((Below(a, tau))') <= Cardinality(Procs)
        /\ (Below(a, tau))' \subseteq Below(a, tau) => Cardinality((Below(a, tau))') <= Cardinality(Below(a, tau))
    <3>1. ActiveAt(a, tau) \in SUBSET Tokens /\ Below(a, tau) \in SUBSET Procs
      BY Parts
    <3>2. (Below(a, tau))' \in SUBSET Procs
      BY DEF Below
    <3> QED BY <3>1, <3>2, Counts
  <2>5. CASE Cardinality(ActiveAt(a, tau)) < MaxActive
    BY <2>1, <2>4, <2>5, TokensAssumption DEF RoomLeft
  <2>6. CASE ~(Cardinality(ActiveAt(a, tau)) < MaxActive)
    <3>1. (Below(a, tau))' \subseteq Below(a, tau)
      BY <1>0, <2>2, <2>3, <2>6 DEF Below
    <3>2. RoomLeft(a, tau)
      BY <1>0, <1>3 DEF CapInv
    <3> QED BY <2>1, <2>4, <3>1, <3>2, TokensAssumption DEF RoomLeft
  <2> QED BY <2>5, <2>6
<1> QED BY <1>2, <1>3 DEF CapInv

(* A request p creates a token t for account a, and ends. *)
Creates(p, t, a) ==
    /\ proc[p].pc \in Inserting /\ proc[p].account = a /\ t \in Unused /\ clock' = clock /\ Run(p, Idle)
    /\ token'[t].account = a /\ \A u \in Tokens \ {t} : token'[u] = token[u]

(* What that does to the counts. *)
LEMMA Created ==
    ASSUME IInv, CapInv, NEW p \in Procs, NEW t \in Tokens, NEW a \in Accounts, Creates(p, t, a)
    PROVE  /\ \A tau : (ActiveAt(a, tau))' \subseteq ActiveAt(a, tau) \cup {t}
           /\ \A b, tau : b # a => (ActiveAt(b, tau))' = ActiveAt(b, tau)
           /\ \A q \in Procs \ {p} : \A b, tau : proc[q].pc \in Polling =>
                 (SeenBy(q, b, tau))' = SeenBy(q, b, tau)
           /\ \A q \in Procs \ {p} : proc'[q] = proc[q]
           /\ proc'[p] = Idle
           /\ \A b, tau : (Below(b, tau))' \subseteq Below(b, tau) \ {p}
<1>0. token[t].account = NoAccount /\ a # NoAccount
  BY TokensAssumption DEF Creates, Unused
<1>1. \A tau : (ActiveAt(a, tau))' \subseteq ActiveAt(a, tau) \cup {t}
  BY <1>0 DEF Creates, ActiveAt, Unrevoked, Unused, LiveAt
<1>2. ASSUME NEW b, NEW tau, b # a PROVE (ActiveAt(b, tau))' = ActiveAt(b, tau)
  <2>1. \A u \in Tokens \ {t} : u \in (ActiveAt(b, tau))' <=> u \in ActiveAt(b, tau)
    BY DEF Creates, ActiveAt, Unrevoked, Unused, LiveAt
  <2>2. t \notin (ActiveAt(b, tau))' /\ t \notin ActiveAt(b, tau)
    BY <1>0, <1>2 DEF Creates, ActiveAt, Unrevoked, Unused
  <2> QED BY <2>1, <2>2 DEF ActiveAt, Unrevoked
<1>3. (\A q \in Procs \ {p} : proc'[q] = proc[q]) /\ proc'[p] = Idle
  BY DEF Creates, Run, IInv, TypeOK
<1>4. ASSUME NEW q \in Procs \ {p}, NEW b, NEW tau, proc[q].pc \in Polling
      PROVE  (SeenBy(q, b, tau))' = SeenBy(q, b, tau)
  <2>1. proc[q].view \subseteq Tokens /\ t \notin proc[q].view
    BY <1>4 DEF CapInv, InsertSound, Creates, IInv, TypeOK, Request
  <2> QED BY <1>3, <2>1 DEF SeenBy, LiveAt, Creates
<1>5. ASSUME NEW b, NEW tau PROVE (Below(b, tau))' \subseteq Below(b, tau) \ {p}
  <2>1. proc'[p].pc \notin Polling
    BY <1>3 DEF Idle, Polling
  <2> QED BY <1>3, <1>4, <2>1 DEF Below
<1> QED BY <1>1, <1>2, <1>3, <1>4, <1>5

(* The other requests stay sound. *)
LEMMA CreatedSound ==
    ASSUME IInv, CapInv, NEW p \in Procs, NEW t \in Tokens, NEW a \in Accounts, Creates(p, t, a),
           NEW q \in Procs
    PROVE  InsertSound(q)'
<1>0. InsertSound(q) /\ clock' = clock /\ proc[p].pc \in Inserting /\ proc[p].account = a
  BY DEF CapInv, Creates
<1>1. CASE q = p
  BY <1>1, Created DEF InsertSound, Idle, Polling, Inserting
<1>2. CASE q # p
  <2>1. proc'[q] = proc[q] /\ \A v \in Procs : proc'[v].pc \in Inserting => proc'[v] = proc[v]
    BY <1>2, Created DEF Idle, Inserting
  <2>2. Unused' \subseteq Unused
    BY TokensAssumption DEF Creates, Unused
  <2>3. proc[q].pc \in Polling => proc[q].view \cap Unused' = {}
    BY <1>0, <2>2 DEF InsertSound
  <2>4. proc[q].pc = "pollInsert" =>
            (SeenBy(q, proc[q].account, proc[q].now))' = SeenBy(q, proc[q].account, proc[q].now)
    <3> PICK b, n : b = proc[q].account /\ n = proc[q].now
      OBVIOUS
    <3>1. proc[q].pc = "pollInsert" => (SeenBy(q, b, n))' = SeenBy(q, b, n)
      BY <1>2, Created DEF Polling
    <3>2. (SeenBy(q, proc[q].account, proc[q].now))' = (SeenBy(q, b, n))'
      BY <2>1 DEF SeenBy
    <3> QED BY <3>1, <3>2
  <2>5. proc[q].pc = "mintInsert" => (ActiveAt(proc[q].account, clock))' = ActiveAt(proc[q].account, clock)
    <3> PICK b, n : b = proc[q].account /\ n = clock
      OBVIOUS
    <3>1. proc[q].pc = "mintInsert" => b # a
      BY <1>0, <1>2 DEF InsertSound, Inserting
    <3>2. b # a => (ActiveAt(b, n))' = ActiveAt(b, n)
      BY Created
    <3>3. (ActiveAt(proc[q].account, clock))' = (ActiveAt(b, n))'
      BY <1>0, <2>1
    <3> QED BY <3>1, <3>2, <3>3
  <2> QED BY <1>0, <2>1, <2>3, <2>4, <2>5 DEF InsertSound
<1> QED BY <1>1, <1>2

(* A token more, and a request fewer that may add one. *)
LEMMA CreatedCounts ==
    ASSUME IInv, CapInv, NEW p \in Procs, NEW t \in Tokens, NEW a \in Accounts, Creates(p, t, a),
           NEW tau \in Nat
    PROVE  /\ Cardinality((ActiveAt(a, tau))') \in Nat
           /\ Cardinality((ActiveAt(a, tau))') <= Cardinality(ActiveAt(a, tau)) + 1
           /\ \A b : /\ Cardinality((Below(b, tau))') \in Nat
                     /\ Cardinality((Below(b, tau))') <= Cardinality(Below(b, tau))
                     /\ Cardinality((Below(b, tau))') <= Cardinality(Procs) - 1
                     /\ p \in Below(b, tau) =>
                           Cardinality((Below(b, tau))') <= Cardinality(Below(b, tau)) - 1
<1>1. /\ ActiveAt(a, tau) \in SUBSET Tokens /\ IsFiniteSet(ActiveAt(a, tau))
      /\ Cardinality(ActiveAt(a, tau)) \in Nat /\ Cardinality(Procs) \in Nat
  BY Parts, Counts, FS_Subset, TokensAssumption
<1>2. /\ Cardinality((ActiveAt(a, tau))') \in Nat
      /\ Cardinality((ActiveAt(a, tau))') <= Cardinality(ActiveAt(a, tau)) + 1
  <2>1. (ActiveAt(a, tau))' \subseteq ActiveAt(a, tau) \cup {t}
    BY Created
  <2>2. ActiveAt(a, tau) \cup {t} \in SUBSET Tokens
    BY <1>1
  <2>3. /\ Cardinality((ActiveAt(a, tau))') \in Nat
        /\ Cardinality((ActiveAt(a, tau))') <= Cardinality(ActiveAt(a, tau) \cup {t})
    BY <2>1, <2>2, Counts
  <2>4. Cardinality(ActiveAt(a, tau) \cup {t}) \in {Cardinality(ActiveAt(a, tau)), Cardinality(ActiveAt(a, tau)) + 1}
    BY <1>1, FS_AddElement
  <2> QED BY <1>1, <2>3, <2>4
<1>3. ASSUME NEW b
      PROVE  /\ Cardinality((Below(b, tau))') \in Nat
             /\ Cardinality((Below(b, tau))') <= Cardinality(Below(b, tau))
             /\ Cardinality((Below(b, tau))') <= Cardinality(Procs) - 1
             /\ p \in Below(b, tau) =>
                   Cardinality((Below(b, tau))') <= Cardinality(Below(b, tau)) - 1
  <2>1. /\ Below(b, tau) \in SUBSET Procs /\ IsFiniteSet(Below(b, tau))
        /\ Cardinality(Below(b, tau)) \in Nat
    BY Parts, Counts, FS_Subset, TokensAssumption
  <2>2. (Below(b, tau))' \subseteq Below(b, tau) \ {p}
    BY Created
  <2>3. Below(b, tau) \ {p} \in SUBSET Procs /\ Procs \ {p} \in SUBSET Procs
    BY <2>1
  <2>4. (Below(b, tau))' \subseteq Procs \ {p}
    BY <2>1, <2>2
  <2>5. /\ Cardinality((Below(b, tau))') \in Nat
        /\ Cardinality((Below(b, tau))') <= Cardinality(Below(b, tau) \ {p})
        /\ Cardinality((Below(b, tau))') <= Cardinality(Procs \ {p})
    BY <2>2, <2>3, <2>4, Counts
  <2>6. Cardinality(Procs \ {p}) = Cardinality(Procs) - 1
    BY FS_RemoveElement, TokensAssumption
  <2>7. Cardinality(Below(b, tau) \ {p}) =
            IF p \in Below(b, tau) THEN Cardinality(Below(b, tau)) - 1 ELSE Cardinality(Below(b, tau))
    BY <2>1, FS_RemoveElement
  <2> QED BY <1>1, <2>1, <2>5, <2>6, <2>7
<1> QED BY <1>2, <1>3

(* The room holds when a token is created by someone who may. *)
LEMMA CapCreated ==
    ASSUME IInv, CapInv, NEW p \in Procs, NEW t \in Tokens, NEW a \in Accounts, Creates(p, t, a),
           \/ \A tau \in Nat : tau >= clock => p \in Below(a, tau)
           \/ \A tau \in Nat : tau >= clock => Cardinality(ActiveAt(a, tau)) < MaxActive
    PROVE  CapInv'
<1>1. ASSUME NEW q \in Procs PROVE InsertSound(q)'
  BY CreatedSound
<1>2. ASSUME NEW b \in Accounts, NEW tau \in Nat, tau >= clock' PROVE RoomLeft(b, tau)'
  <2>1. clock' = clock /\ RoomLeft(b, tau)
    BY <1>2 DEF Creates, CapInv
  <2>2. /\ Cardinality(ActiveAt(b, tau)) \in Nat /\ Cardinality(Below(b, tau)) \in Nat
        /\ Cardinality(Procs) \in Nat
    BY Parts, Counts
  <2>3. CASE b = a
    <3>1. /\ Cardinality((ActiveAt(b, tau))') \in Nat
          /\ Cardinality((ActiveAt(b, tau))') <= Cardinality(ActiveAt(b, tau)) + 1
          /\ Cardinality((Below(b, tau))') \in Nat
          /\ Cardinality((Below(b, tau))') <= Cardinality(Procs) - 1
          /\ p \in Below(b, tau) =>
                Cardinality((Below(b, tau))') <= Cardinality(Below(b, tau)) - 1
      BY <2>3, CreatedCounts
    <3>2. p \in Below(b, tau) \/ Cardinality(ActiveAt(b, tau)) < MaxActive
      BY <1>2, <2>1, <2>3
    <3> QED BY <2>1, <2>2, <3>1, <3>2, TokensAssumption DEF RoomLeft
  <2>4. CASE b # a
    <3>1. (ActiveAt(b, tau))' = ActiveAt(b, tau)
      BY <2>4, Created
    <3>2. /\ Cardinality((Below(b, tau))') \in Nat
          /\ Cardinality((Below(b, tau))') <= Cardinality(Below(b, tau))
      BY CreatedCounts
    <3> QED BY <2>1, <2>2, <3>1, <3>2, TokensAssumption DEF RoomLeft
  <2> QED BY <2>3, <2>4
<1> QED BY <1>1, <1>2 DEF CapInv

(* A poll that inserts was among those below the cap. *)
LEMMA CapPollInsert ==
    ASSUME IInv, CapInv, NEW p \in Procs, NEW t \in Tokens, PollInsert(p, t)
    PROVE  CapInv'
<1> DEFINE a == proc[p].account
<1>1. a \in Accounts /\ proc[p].session \in Sessions
  BY DEF PollInsert, IInv, PollSound, SessionsSound, Polling
<1>2. Creates(p, t, a)
  BY <1>1 DEF PollInsert, Creates, Inserting, NewToken, IInv, TypeOK
<1>3. ASSUME NEW tau \in Nat, tau >= clock PROVE p \in Below(a, tau)
  <2>1. /\ proc[p].now \in Nat /\ clock \in Nat /\ proc[p].now <= clock /\ proc[p].view \subseteq Tokens
        /\ Cardinality(SeenBy(p, a, proc[p].now)) < MaxActive
    BY DEF PollInsert, CapInv, InsertSound, IInv, TypeOK, Request
  <2>2. SeenBy(p, a, tau) \subseteq SeenBy(p, a, proc[p].now)
    BY <1>3, <2>1, Later DEF SeenBy
  <2>3. SeenBy(p, a, proc[p].now) \in SUBSET Tokens
    BY <2>1 DEF SeenBy
  <2>4. /\ Cardinality(SeenBy(p, a, tau)) <= Cardinality(SeenBy(p, a, proc[p].now))
        /\ Cardinality(SeenBy(p, a, tau)) \in Nat /\ Cardinality(SeenBy(p, a, proc[p].now)) \in Nat
    BY <2>2, <2>3, Counts
  <2> QED BY <2>1, <2>4, TokensAssumption DEF Below, PollInsert, Polling
<1> HIDE DEF a
<1> QED BY <1>1, <1>2, <1>3, CapCreated

(* A mint that inserts counted below the cap, in the table as it is. *)
LEMMA CapMintInsert ==
    ASSUME IInv, CapInv, NEW p \in Procs, NEW t \in Tokens, NEW life \in Lifetimes, MintInsert(p, t, life)
    PROVE  /\ CapInv'
           /\ \A a : token'[t].account = a => Cardinality(Active(a)') <= MaxActive
<1> PICK a : a = proc[p].account
  OBVIOUS
<1>1. a \in Accounts
  BY DEF MintInsert, IInv, PollSound
<1>2. Creates(p, t, a)
  BY <1>1 DEF MintInsert, Creates, Inserting, NewToken, IInv, TypeOK
<1>3. ASSUME NEW tau \in Nat, tau >= clock PROVE Cardinality(ActiveAt(a, tau)) < MaxActive
  <2>1. clock \in Nat /\ Cardinality(ActiveAt(a, clock)) < MaxActive
    BY DEF MintInsert, CapInv, InsertSound, IInv, TypeOK
  <2>2. ActiveAt(a, tau) \subseteq ActiveAt(a, clock)
    BY <1>3, <2>1, Later DEF ActiveAt, Unrevoked
  <2>3. ActiveAt(a, clock) \in SUBSET Tokens
    BY Parts
  <2>4. /\ Cardinality(ActiveAt(a, tau)) <= Cardinality(ActiveAt(a, clock))
        /\ Cardinality(ActiveAt(a, tau)) \in Nat /\ Cardinality(ActiveAt(a, clock)) \in Nat
    BY <2>2, <2>3, Counts
  <2> QED BY <2>1, <2>4, TokensAssumption
<1>4. CapInv'
  BY <1>1, <1>2, <1>3, CapCreated
<1>5. token'[t].account = a
  BY <1>2 DEF Creates
<1>6. Cardinality((ActiveAt(a, clock))') <= MaxActive
  <2> PICK n : n = clock
    OBVIOUS
  <2>1. n \in Nat /\ clock' = n
    BY DEF MintInsert, IInv, TypeOK
  <2>2. /\ Cardinality((ActiveAt(a, n))') \in Nat
        /\ Cardinality((ActiveAt(a, n))') <= Cardinality(ActiveAt(a, n)) + 1
    BY <1>1, <1>2, <2>1, CreatedCounts
  <2>3. Cardinality(ActiveAt(a, n)) < MaxActive /\ Cardinality(ActiveAt(a, n)) \in Nat
    BY <1>3, <2>1, Parts, Counts
  <2>4. (ActiveAt(a, clock))' = (ActiveAt(a, n))'
    BY <2>1
  <2> QED BY <2>2, <2>3, <2>4, TokensAssumption
<1>7. Active(a)' = (ActiveAt(a, clock))'
  BY DEF Active, ActiveAt
<1> QED BY <1>4, <1>5, <1>6, <1>7

(* The requests before their inserts. *)
LEMMA CapPairing ==
    ASSUME IInv, CapInv, NEW p \in Procs, Pairing(p)
    PROVE  CapInv'
<1>0. /\ proc[p] \in Request /\ clock \in Nat /\ InsertSound(p) /\ PollSound(proc[p])
      /\ \A s \in Sessions : session[s].account \in Accounts \cup {NoAccount}
  BY DEF IInv, TypeOK, CapInv, SessionRow
<1>1. ASSUME NEW s \in Sessions, PollLock(p, s) PROVE CapInv'
  BY <1>1, CapSnapshot
<1>2. ASSUME NEW s \in Sessions, NEW a \in Accounts, ApproveRead(p, s, a) PROVE CapInv'
  <2> DEFINE r == [Idle EXCEPT !.pc = "approve", !.session = s, !.account = a]
  <2>1. r \in Request /\ r.pc = "approve"
    BY <1>2, TokensAssumption DEF Idle, Request
  <2>2. Run(p, r) /\ clock' = clock /\ NoneCreated
    BY <1>2 DEF ApproveRead, NoneCreated
  <2> HIDE DEF r
  <2> QED BY <2>1, <2>2, CapQuiet DEF Polling, Inserting
<1>3. CASE ApproveWrite(p)
  BY <1>3, CapEnd DEF ApproveWrite, NoneCreated
<1>4. CASE PollDecide(p)
  <2>1. clock' = clock /\ NoneCreated /\ proc[p].pc = "decide"
    BY <1>4 DEF PollDecide, NoneCreated
  <2>2. CASE Run(p, Idle)
    BY <2>1, <2>2, CapEnd
  <2>3. CASE ~Run(p, Idle)
    <3> DEFINE r == [proc[p] EXCEPT !.pc = "account", !.account = session[proc[p].session].account, !.now = clock]
    <3>1. Run(p, r)
      BY <1>4, <2>3 DEF PollDecide
    <3>2. r \in Request /\ r.pc = "account" /\ r.now = clock /\ r.view = proc[p].view
      BY <1>0, <2>1 DEF Request, PollSound, Polling
    <3> HIDE DEF r
    <3>3. proc[p].pc \in Polling /\ r.now <= clock /\ r.pc \notin Inserting
      BY <1>0, <2>1, <3>2 DEF Polling, Inserting
    <3> QED BY <2>1, <3>1, <3>2, <3>3, CapQuiet DEF Inserting
  <2> QED BY <2>2, <2>3
<1>5. CASE PollAccount(p)
  <2>1. clock' = clock /\ NoneCreated /\ proc[p].pc = "account" /\ ~AccountLocked(proc[p].account)
    BY <1>5 DEF PollAccount, NoneCreated
  <2>2. CASE CapReached(p, proc[p].view, proc[p].now)
    BY <1>5, <2>1, <2>2, CapEnd DEF PollAccount
  <2>3. CASE ~CapReached(p, proc[p].view, proc[p].now)
    <3> DEFINE r == [proc[p] EXCEPT !.pc = "pollInsert"]
    <3>1. Run(p, r)
      BY <1>5, <2>3 DEF PollAccount
    <3>2. /\ r \in Request /\ r.pc = "pollInsert" /\ r.now = proc[p].now /\ r.view = proc[p].view
          /\ r.account = proc[p].account /\ r.now <= clock
      BY <1>0, <2>1 DEF Request, InsertSound
    <3> HIDE DEF r
    <3>3. Cardinality({t \in r.view : token[t].account = r.account /\ LiveAt(t, r.now)}) < MaxActive
      <4>1. {t \in r.view : token[t].account = r.account /\ LiveAt(t, r.now)} = Counted(p, proc[p].view, proc[p].now)
        BY <3>2 DEF Counted
      <4>2. Counted(p, proc[p].view, proc[p].now) \in SUBSET Tokens
        BY <1>0 DEF Counted, Request
      <4>3. Cardinality(Counted(p, proc[p].view, proc[p].now)) \in Nat
        BY <4>2, Counts
      <4>4. Cardinality(Counted(p, proc[p].view, proc[p].now)) < MaxActive
        BY <2>3, <4>3, TokensAssumption DEF CapReached
      <4> QED BY <4>1, <4>4, Zenon
    <3> QED BY <1>0, <2>1, <3>1, <3>2, <3>3, CapQuiet DEF Polling, Inserting
  <2> QED BY <2>2, <2>3
<1>6. ASSUME NEW t \in Tokens, PollInsert(p, t) PROVE CapInv'
  BY <1>6, CapPollInsert
<1> QED BY <1>1, <1>2, <1>3, <1>4, <1>5, <1>6 DEF Pairing

LEMMA CapMinting ==
    ASSUME IInv, CapInv, NEW p \in Procs, Minting(p)
    PROVE  CapInv'
<1>0. proc[p] \in Request /\ clock \in Nat
  BY DEF IInv, TypeOK
<1>1. CASE MintLock(p)
  <2>1. clock' = clock /\ NoneCreated /\ proc[p].pc = "mint" /\ ~AccountLocked(proc[p].account)
    BY <1>1 DEF MintLock, NoneCreated
  <2>2. CASE CapReached(p, Unrevoked, clock)
    BY <1>1, <2>1, <2>2, CapEnd DEF MintLock
  <2>3. CASE ~CapReached(p, Unrevoked, clock)
    <3> DEFINE r == [proc[p] EXCEPT !.pc = "mintInsert"]
    <3>1. Run(p, r)
      BY <1>1, <2>3 DEF MintLock
    <3>2. r \in Request /\ r.pc = "mintInsert" /\ r.account = proc[p].account
      BY <1>0 DEF Request
    <3>3. Cardinality(ActiveAt(r.account, clock)) < MaxActive
      <4>1. ActiveAt(r.account, clock) = Counted(p, Unrevoked, clock)
        BY <3>2 DEF Counted, ActiveAt
      <4>2. Cardinality(ActiveAt(r.account, clock)) \in Nat
        BY Parts, Counts
      <4> QED BY <2>3, <4>1, <4>2, TokensAssumption DEF CapReached
    <3> HIDE DEF r
    <3> QED BY <1>0, <2>1, <3>1, <3>2, <3>3, CapQuiet DEF Polling, Inserting
  <2> QED BY <2>2, <2>3
<1>2. ASSUME NEW a \in Accounts, MintBegin(p, a) PROVE CapInv'
  <2> DEFINE r == [Idle EXCEPT !.pc = "mint", !.account = a, !.now = clock]
  <2>1. r \in Request /\ r.pc = "mint"
    BY <1>0, TokensAssumption DEF Idle, Request
  <2>2. Run(p, r) /\ clock' = clock /\ NoneCreated
    BY <1>2 DEF MintBegin, NoneCreated
  <2> HIDE DEF r
  <2> QED BY <2>1, <2>2, CapQuiet DEF Polling, Inserting
<1>3. ASSUME NEW t \in Tokens, NEW life \in Lifetimes, MintInsert(p, t, life) PROVE CapInv'
  BY <1>3, CapMintInsert
<1> QED BY <1>1, <1>2, <1>3 DEF Minting

LEMMA CapPushing ==
    ASSUME IInv, CapInv, NEW p \in Procs, Pushing(p)
    PROVE  CapInv'
<1>1. ASSUME NEW t \in Tokens, KickRead(p, t) PROVE CapInv'
  <2> DEFINE r == [Idle EXCEPT !.pc = "kick", !.token = t, !.list = {m \in Machines : machine[m].token = t}]
  <2>1. r \in Request /\ r.pc = "kick"
    BY TokensAssumption DEF Idle, Request
  <2>2. Run(p, r) /\ clock' = clock /\ NoneCreated
    BY <1>1 DEF KickRead, NoneCreated
  <2> HIDE DEF r
  <2> QED BY <2>1, <2>2, CapQuiet DEF Polling, Inserting
<1>2. ASSUME NEW t \in Tokens, IngestAuth(p, t) PROVE CapInv'
  <2> DEFINE r == [Idle EXCEPT !.pc = "store", !.token = t, !.account = token[t].account]
  <2>1. r \in Request /\ r.pc = "store"
    BY TokensAssumption DEF Idle, Request, IInv, TypeOK, TokenRow
  <2>2. Run(p, r) /\ clock' = clock /\ NoneCreated
    BY <1>2 DEF IngestAuth, NoneCreated
  <2> HIDE DEF r
  <2> QED BY <2>1, <2>2, CapQuiet DEF Polling, Inserting
<1>3. CASE KickCommit(p)
  <2>1. NoneCreated
    BY <1>3 DEF KickCommit, NoneCreated, IInv, TypeOK, TokenRow
  <2> QED BY <1>3, <2>1, CapEnd DEF KickCommit
<1>4. ASSUME NEW m \in Machines, IngestStore(p, m) PROVE CapInv'
  BY <1>4, CapEnd DEF IngestStore, NoneCreated
<1> QED BY <1>1, <1>2, <1>3, <1>4 DEF Pushing

LEMMA CapInit == Init => CapInv
<1> SUFFICES ASSUME Init PROVE CapInv
  OBVIOUS
<1>1. \A p \in Procs : proc[p].pc = "idle"
  BY DEF Init, Idle
<1>2. \A a, tau : ActiveAt(a, tau) = {} /\ Below(a, tau) = {}
  BY <1>1, TokensAssumption DEF Init, ActiveAt, Unrevoked, Unused, Below, Polling
<1>3. Cardinality({}) = 0 /\ Cardinality(Procs) \in Nat
  BY FS_EmptySet, Counts
<1>4. \A a, tau : RoomLeft(a, tau)
  BY <1>2, <1>3, TokensAssumption DEF RoomLeft
<1> QED BY <1>1, <1>4 DEF CapInv, InsertSound, Polling, Inserting

LEMMA CapNext == IInv /\ CapInv /\ [Next]_vars => CapInv'
<1> SUFFICES ASSUME IInv, CapInv, [Next]_vars PROVE CapInv'
  OBVIOUS
<1>0. clock \in Nat
  BY DEF IInv, TypeOK
<1>1. ASSUME NEW p \in Procs, Pairing(p) \/ Minting(p) \/ Pushing(p) \/ Rollback(p) PROVE CapInv'
  <2>1. Rollback(p) => CapInv'
    BY CapEnd DEF Rollback, NoneCreated
  <2> QED BY <1>1, <2>1, CapPairing, CapMinting, CapPushing
<1>2. ASSUME NEW s \in Sessions, StartPairing(s) PROVE CapInv'
  BY <1>0, <1>2, CapStill DEF StartPairing, NoneCreated
<1>3. ASSUME NEW T, Revoke(T) PROVE CapInv'
  <2>1. NoneCreated
    BY <1>3 DEF Revoke, NoneCreated, IInv, TypeOK, TokenRow
  <2> QED BY <1>0, <1>3, <2>1, CapStill DEF Revoke
<1>4. CASE Tick
  <2>1. clock' \in Nat /\ clock' >= clock /\ proc' = proc /\ NoneCreated
    BY <1>0, <1>4 DEF Tick, NoneCreated
  <2> QED BY <2>1, CapStill
<1>5. CASE UNCHANGED vars
  <2>1. clock' \in Nat /\ clock' >= clock /\ proc' = proc /\ NoneCreated
    BY <1>0, <1>5 DEF vars, NoneCreated
  <2> QED BY <2>1, CapStill
<1> QED BY <1>1, <1>2, <1>3, <1>4, <1>5 DEF Next

(* A token that no session yielded is a mint's. *)
LEMMA OnlyMints ==
    ASSUME IInv, CapInv, [Next]_vars PROVE MintsWithinCap
<1> SUFFICES ASSUME NEW t \in Unused, NEW a \in Accounts, token'[t].account = a, token'[t].from = NoSession
             PROVE  Cardinality(Active(a)') <= MaxActive
  BY DEF MintsWithinCap
<1>0. t \in Tokens /\ token[t].account # a
  BY TokensAssumption DEF Unused
<1>1. ASSUME NEW p \in Procs, NEW u \in Tokens, NEW life \in Lifetimes, MintInsert(p, u, life)
      PROVE  Cardinality(Active(a)') <= MaxActive
  <2>1. u = t
    BY <1>0, <1>1 DEF MintInsert, IInv, TypeOK
  <2> QED BY <1>1, <2>1, CapMintInsert
<1>2. ASSUME NEW p \in Procs, NEW u \in Tokens, PollInsert(p, u) PROVE FALSE
  <2>1. u = t
    BY <1>0, <1>2 DEF PollInsert, IInv, TypeOK
  <2>2. token'[t].from = proc[p].session /\ proc[p].session \in Sessions
    BY <1>2, <2>1 DEF PollInsert, NewToken, IInv, TypeOK, PollSound, Polling
  <2> QED BY <2>2, TokensAssumption
<1>3. ASSUME token'[t].account = token[t].account PROVE FALSE
  BY <1>0, <1>3
<1>4. ASSUME NEW p \in Procs, Pairing(p) PROVE FALSE
  <2>1. token' = token \/ \E u \in Tokens : PollInsert(p, u)
    BY <1>4 DEF Pairing, PollLock, ApproveRead, ApproveWrite, PollDecide, PollAccount
  <2> QED BY <1>2, <1>3, <2>1
<1>5. ASSUME NEW p \in Procs, Minting(p) PROVE Cardinality(Active(a)') <= MaxActive
  <2>1. token' = token \/ \E u \in Tokens, life \in Lifetimes : MintInsert(p, u, life)
    BY <1>5 DEF Minting, MintLock, MintBegin
  <2> QED BY <1>1, <1>3, <2>1
<1>6. ASSUME NEW p \in Procs, Pushing(p) \/ Rollback(p) PROVE FALSE
  <2>1. token' = token \/ KickCommit(p)
    BY <1>6 DEF Pushing, KickRead, IngestAuth, IngestStore, Rollback
  <2>2. KickCommit(p) => token'[t].account = token[t].account
    BY <1>0 DEF KickCommit, IInv, TypeOK, TokenRow
  <2> QED BY <1>3, <2>1, <2>2
<1>7. ASSUME NEW T, Revoke(T) PROVE FALSE
  <2>1. token'[t].account = token[t].account
    BY <1>0, <1>7 DEF Revoke, IInv, TypeOK, TokenRow
  <2> QED BY <1>3, <2>1
<1>8. ASSUME (\E s \in Sessions : StartPairing(s)) \/ Tick \/ UNCHANGED vars PROVE FALSE
  <2>1. token' = token
    BY <1>8 DEF StartPairing, Tick, vars
  <2> QED BY <1>3, <2>1
<1> QED BY <1>4, <1>5, <1>6, <1>7, <1>8 DEF Next

(* However requests overlap, a mint in the web app never passes the cap, and  *)
(* the tokens beyond it that stale snapshots let polls create are fewer than  *)
(* the requests that may be in flight.                                        *)
THEOREM CapNeverPassed == Spec => CapKept
<1>1. Init => IInv /\ CapInv
  BY InitIInv, CapInit
<1>2. IInv /\ CapInv /\ [Next]_vars => IInv' /\ CapInv'
  BY NextIInv, CapNext
<1>3. IInv /\ CapInv => CapOvershoot
  <2> SUFFICES ASSUME IInv, CapInv, NEW a \in Accounts
               PROVE  Cardinality(Active(a)) < MaxActive + Cardinality(Procs)
    BY DEF CapOvershoot
  <2>1. RoomLeft(a, clock) /\ Active(a) = ActiveAt(a, clock)
    BY DEF IInv, TypeOK, CapInv, Active, ActiveAt
  <2>2. /\ Cardinality(ActiveAt(a, clock)) \in Nat /\ Cardinality(Below(a, clock)) \in Nat
        /\ Cardinality(Procs) \in Nat
    BY Parts, Counts
  <2> QED BY <2>1, <2>2, TokensAssumption DEF RoomLeft
<1>4. IInv /\ CapInv /\ [Next]_vars => MintsWithinCap
  BY OnlyMints
<1> QED BY <1>1, <1>2, <1>3, <1>4, PTL DEF Spec, CapKept
-----------------------------------------------------------------------------

(* What outlives a forget is at least as old as the forget. *)
OrphansAge ==
    lastSeen = Never => \A s \in Sids : slice[s] # Absent => slice[s].age >= gone

(* A pane whose stored fingerprint is its screen was stamped, if at all, no  *)
(* earlier than the screen changed.                                          *)
StampLate ==
    \A p \in Panes : LET a == activity[SidOf[p]] IN
        a # Absent => (a.fp[p] = screen[p] /\ a.at[p] # Never => a.at[p] <= changed[p])

Inv == TelemetryTypeOK /\ OrphansAge /\ StampLate

LEMMA OlderType == ASSUME NEW a \in Age PROVE Older(a) \in Age /\ Older(a) # Never /\ Older(Never) = Never
  BY TelemetryAssumption DEF Older, Age, Never

LEMMA OlderMonotone == ASSUME NEW a \in Age, NEW b \in Age, a <= b PROVE Older(a) <= Older(b)
  BY TelemetryAssumption DEF Older, Age, Never

LEMMA RowTypes ==
    /\ \A r \in Slice : r # Absent /\ r.age \in Age
    /\ \A r \in Activity : r # Absent /\ r.age \in Age
  <1>1. \A r \in Slice : r # Absent /\ r.age \in Age
    BY DEF Slice, Absent
  <1>2. \A r \in Activity : r # Absent /\ r.age \in Age
    <2> SUFFICES ASSUME NEW r \in Activity PROVE r # Absent /\ r.age \in Age
      OBVIOUS
    <2>1. DOMAIN r = {"fp", "at", "age"} /\ DOMAIN Absent = {"state"}
      BY DEF Activity, Absent
    <2>2. "fp" \notin {"state"} /\ "fp" \in {"fp", "at", "age"}
      OBVIOUS
    <2> QED BY <2>1, <2>2 DEF Activity
  <1> QED BY <1>1, <1>2

(* every action that leaves the tables and the history alone, and puts no    *)
(* repeated content on a screen, keeps both parts                            *)
LEMMA TablesKept ==
    ASSUME Inv, TelemetryTypeOK', UNCHANGED <<tables, gone, screen, changed>>
    PROVE  Inv'
  BY DEF Inv, OrphansAge, StampLate, tables

LEMMA InitInv == TelemetryInit => Inv
  <1> SUFFICES ASSUME TelemetryInit PROVE Inv
    OBVIOUS
  <1>1. TelemetryTypeOK
    <2>1. \A s \in Sids : slice[s] = Absent /\ activity[s] = Absent
      BY DEF TelemetryInit
    <2>2. (CHOOSE v \in Fingerprints : TRUE) \in Fingerprints
      BY TelemetryAssumption
    <2>3. 0 \in Age
      BY TelemetryAssumption DEF Age
    <2> QED BY <2>2, <2>3, TelemetryAssumption DEF TelemetryInit, TelemetryTypeOK, NoForget, Kinds
  <1>2. OrphansAge /\ StampLate
    BY TelemetryAssumption DEF TelemetryInit, OrphansAge, StampLate
  <1> QED BY <1>1, <1>2 DEF Inv

LEMMA SpendType == ASSUME TelemetryTypeOK, NEW k \in Kinds, NEW m, Spend(k, m) PROVE spent' \in [Kinds -> Nat]
  BY DEF TelemetryTypeOK, Spend, Kinds

LEMMA ChangeInv == ASSUME Inv, NEW p \in Panes, Change(p) PROVE Inv'
  <1> DEFINE free == Fingerprints \ Held(p)
             v == CHOOSE x \in free : TRUE
  <1>1. v \in Fingerprints /\ v \notin Held(p) /\ screen' = [screen EXCEPT ![p] = v]
    BY DEF Change
  <1>2. TelemetryTypeOK'
    <2>1. spent' \in [Kinds -> Nat]
      BY SpendType DEF Inv, Change, Kinds
    <2>2. 0 \in Age
      BY TelemetryAssumption DEF Age
    <2> QED BY <1>1, <2>1, <2>2 DEF Inv, TelemetryTypeOK, Change, tables
  <1>3. OrphansAge'
    BY DEF Inv, OrphansAge, Change, tables
  <1>4. StampLate'
    <2> SUFFICES ASSUME NEW q \in Panes, activity[SidOf[q]] # Absent,
                        activity[SidOf[q]].fp[q] = screen'[q], activity[SidOf[q]].at[q] # Never
                 PROVE  activity[SidOf[q]].at[q] <= changed'[q]
      BY DEF StampLate, Change, tables
    <2>1. CASE q = p
      <3>1. SidOf[p] \in Sids
        BY TelemetryAssumption
      <3>2. activity[SidOf[p]].fp[p] \in Held(p)
        BY <2>1, <3>1 DEF Held
      <3>3. screen'[p] = v
        BY <1>1 DEF Inv, TelemetryTypeOK
      <3> QED BY <1>1, <2>1, <3>2, <3>3
    <2>2. CASE q # p
      BY <1>1, <2>2 DEF Inv, TelemetryTypeOK, StampLate, Change
    <2> QED BY <2>1, <2>2
  <1> QED BY <1>2, <1>3, <1>4 DEF Inv

-----------------------------------------------------------------------------
(* The other actions of the machine and the network only owe their types.    *)
LEMMA ExitInv == ASSUME Inv, NEW p \in Panes, Exit(p) PROVE Inv'
  <1>1. spent' \in [Kinds -> Nat]
    BY SpendType DEF Inv, Exit, Kinds
  <1>2. TelemetryTypeOK'
    BY <1>1 DEF Inv, TelemetryTypeOK, Exit, tables
  <1> QED BY <1>2, TablesKept DEF Exit

LEMMA InstanceInv ==
    ASSUME Inv, NEW s \in Sids, Resurrect(s) \/ SessionUpdate(s) \/ Send(s)
    PROVE  Inv'
  <1>2. CASE Resurrect(s)
    <2>1. spent' \in [Kinds -> Nat]
      BY <1>2, SpendType DEF Inv, Resurrect, Kinds
    <2>2. TelemetryTypeOK'
      BY <1>2, <2>1 DEF Inv, TelemetryTypeOK, Resurrect, tables
    <2> QED BY <1>2, <2>2, TablesKept DEF Resurrect
  <1>3. CASE SessionUpdate(s)
    <2>1. TelemetryTypeOK'
      BY <1>3 DEF Inv, TelemetryTypeOK, SessionUpdate, tables
    <2> QED BY <1>3, <2>1, TablesKept DEF SessionUpdate
  <1>4. CASE Send(s)
    <2>1. StructureOf(s) \in Structure
      BY DEF Inv, TelemetryTypeOK, StructureOf, Structure
    <2>2. [from |-> s, running |-> StructureOf(s).running, screen |-> screen,
           dead |-> StructureOf(s).dead] \in Post
      BY <2>1 DEF Inv, TelemetryTypeOK, Structure, Post
    <2>3. posts' \subseteq Post
      BY <1>4, <2>2 DEF Inv, TelemetryTypeOK, Send
    <2>4. told' \in [Sids -> Structure \cup {Absent}]
      BY <1>4, <2>1 DEF Inv, TelemetryTypeOK, Send
    <2>5. TelemetryTypeOK'
      BY <1>4, <2>3, <2>4 DEF Inv, TelemetryTypeOK, Send, tables
    <2> QED BY <1>4, <2>5, TablesKept DEF Send
  <1> QED BY <1>2, <1>3, <1>4

LEMMA KillInv == ASSUME Inv, NEW s \in Sids, Kill(s) PROVE Inv'
  <1>1. spent' \in [Kinds -> Nat]
    BY SpendType DEF Inv, Kill, Kinds
  <1>2. TelemetryTypeOK'
    BY <1>1 DEF Inv, TelemetryTypeOK, Kill, tables
  <1> QED BY <1>2, TablesKept DEF Kill

LEMMA NetworkInv ==
    ASSUME Inv, NEW m \in posts, Lose(m) \/ Deadlock(m)
    PROVE  Inv'
  <1>1. spent' \in [Kinds -> Nat]
    <2>1. CASE Spend("loss", MaxLosses)
      BY <2>1, SpendType DEF Inv, Kinds
    <2>2. CASE UNCHANGED spent
      BY <2>2 DEF Inv, TelemetryTypeOK
    <2> QED BY <2>1, <2>2 DEF Lose, Deadlock
  <1>2. /\ forget' \in [on : BOOLEAN, rows : SUBSET Sids] /\ posts' \subseteq Post
        /\ UNCHANGED <<world, tables, gone>>
    <2>1. CASE Lose(m)
      BY <2>1 DEF Inv, TelemetryTypeOK, Lose
    <2>2. CASE Deadlock(m)
      <3>1. NoForget \in [on : BOOLEAN, rows : SUBSET Sids]
        BY DEF NoForget
      <3>2. forget' \in {forget, NoForget} /\ posts' \subseteq posts /\ UNCHANGED <<world, tables, gone>>
        BY <2>2 DEF Deadlock
      <3> QED BY <3>1, <3>2 DEF Inv, TelemetryTypeOK
    <2> QED BY <2>1, <2>2
  <1>3. TelemetryTypeOK'
    BY <1>1, <1>2 DEF Inv, TelemetryTypeOK, tables, world
  <1> QED BY <1>2, <1>3, TablesKept DEF world

LEMMA ForgetInv == ASSUME Inv, ForgetRows \/ ForgetMachine PROVE Inv'
  <1>1. CASE ForgetRows
    <2>1. spent' \in [Kinds -> Nat]
      BY <1>1, SpendType DEF Inv, ForgetRows, Kinds
    <2>2. TelemetryTypeOK'
      BY <1>1, <2>1 DEF Inv, TelemetryTypeOK, ForgetRows, tables, world
    <2> QED BY <1>1, <2>2, TablesKept DEF ForgetRows, world
  <1>2. CASE ForgetMachine
    <2>1. 0 \in Age
      BY TelemetryAssumption DEF Age
    <2>2. gone' = 0 /\ gone' \in Age
      BY <1>2, <2>1 DEF Inv, TelemetryTypeOK, ForgetMachine
    <2>3. \A s \in Sids : slice'[s] \in {slice[s], Absent} /\ activity'[s] \in {activity[s], Absent}
      BY <1>2 DEF ForgetMachine
    <2>4. TelemetryTypeOK'
      BY <1>2, <2>2 DEF Inv, TelemetryTypeOK, ForgetMachine, NoForget, tables, world
    <2>5. OrphansAge'
      BY <2>2, <2>3, RowTypes DEF Inv, TelemetryTypeOK, OrphansAge, Age
    <2>6. StampLate'
      <3> SUFFICES ASSUME NEW p \in Panes, activity'[SidOf[p]] # Absent
                   PROVE  activity'[SidOf[p]] = activity[SidOf[p]] /\ screen' = screen /\ changed' = changed
        BY DEF Inv, StampLate
      <3> QED BY <1>2, <2>3, TelemetryAssumption DEF ForgetMachine, world
    <2> QED BY <2>4, <2>5, <2>6 DEF Inv
  <1> QED BY <1>1, <1>2

-----------------------------------------------------------------------------
(* A stamp is new, or the stored one of an unchanged fingerprint.            *)
LEMMA StampedKinds ==
    ASSUME NEW before \in [fp : Fingerprints \cup {Never}, at : Age \cup {Never}],
           NEW fp \in Fingerprints
    PROVE  /\ Stamped(before, fp) \in [fp : Fingerprints \cup {Never}, at : Age \cup {Never}]
           /\ Stamped(before, fp).at \in {Never, 0} \/ Stamped(before, fp) = before
           /\ Stamped(before, fp).fp = fp
  BY TelemetryAssumption DEF Stamped, Age

LEMMA ActivityFields ==
    ASSUME NEW prev \in Activity \cup {Absent}, NEW panes, NEW fps \in [Panes -> Fingerprints]
    PROVE  /\ deriveActivity(prev, panes, fps) \in Activity
           /\ \A p \in Panes : LET d == deriveActivity(prev, panes, fps) IN
                 \/ d.at[p] \in {Never, 0}
                 \/ prev # Absent /\ d.at[p] = prev.at[p] /\ d.fp[p] = prev.fp[p]
  <1> DEFINE before(p) == IF prev = Absent THEN [fp |-> Never, at |-> Never]
                                           ELSE [fp |-> prev.fp[p], at |-> prev.at[p]]
             after(p) == IF p \in panes THEN Stamped(before(p), fps[p]) ELSE [fp |-> Never, at |-> Never]
             Pair == [fp : Fingerprints \cup {Never}, at : Age \cup {Never}]
  <1>1. \A p \in Panes : before(p) \in Pair
    BY DEF Activity
  <1>2. ASSUME NEW p \in Panes
        PROVE  /\ after(p) \in Pair
               /\ \/ after(p).at \in {Never, 0}
                  \/ prev # Absent /\ after(p).at = prev.at[p] /\ after(p).fp = prev.fp[p]
    <2>1. CASE p \in panes
      <3>1. after(p) = Stamped(before(p), fps[p]) /\ before(p) \in Pair /\ fps[p] \in Fingerprints
        BY <1>1, <2>1
      <3>2. after(p) \in Pair /\ (after(p).at \in {Never, 0} \/ after(p) = before(p))
        BY <3>1, StampedKinds
      <3> QED BY <3>2
    <2>2. CASE p \notin panes
      BY <2>2
    <2> QED BY <2>1, <2>2
  <1>3. deriveActivity(prev, panes, fps)
          = [fp |-> [p \in Panes |-> after(p).fp], at |-> [p \in Panes |-> after(p).at], age |-> 0]
    BY Zenon DEF deriveActivity
  <1> HIDE DEF before, after
  <1>4. 0 \in Age
    BY TelemetryAssumption DEF Age
  <1>5. deriveActivity(prev, panes, fps) \in Activity
    BY <1>2, <1>3, <1>4 DEF Activity
  <1> QED BY <1>2, <1>3, <1>5

LEMMA IngestInv == ASSUME Inv, NEW m \in posts, Ingest(m) PROVE Inv'
  <1> DEFINE sids == {m.from} \cup m.dead
             panes(s) == IF s = m.from THEN PanesOf(s) ELSE {}
  <1>1. m \in Post /\ m.screen \in [Panes -> Fingerprints] /\ sids \subseteq Sids /\ m.running \subseteq Panes
    BY DEF Inv, TelemetryTypeOK, Post
  <1>2. /\ lastSeen' = 0 /\ posts' = posts \ {m} /\ UNCHANGED <<world, forget, gone, spent>>
        /\ slice' = [s \in Sids |->
             IF s \notin sids THEN slice[s]
             ELSE [state |-> IF s = m.from THEN "live" ELSE "resurrectable",
                   panes |-> IF s = m.from THEN m.running ELSE {}, age |-> 0]]
        /\ activity' = [s \in Sids |->
             IF s \in sids THEN deriveActivity(activity[s], panes(s), m.screen) ELSE activity[s]]
    BY DEF Ingest, storeSnapshot
  <1>3. 0 \in Age /\ 0 # Never
    BY TelemetryAssumption DEF Age, Never
  <1>4. TelemetryTypeOK'
    <2>1. slice' \in [Sids -> Slice \cup {Absent}]
      BY <1>1, <1>2, <1>3 DEF Inv, TelemetryTypeOK, Slice
    <2>2. activity' \in [Sids -> Activity \cup {Absent}]
      BY <1>1, <1>2, ActivityFields DEF Inv, TelemetryTypeOK
    <2> QED BY <1>2, <1>3, <2>1, <2>2 DEF Inv, TelemetryTypeOK, world
  <1>5. OrphansAge'
    BY <1>2, <1>3 DEF OrphansAge
  <1>6. StampLate'
    <2> SUFFICES ASSUME NEW p \in Panes, activity'[SidOf[p]] # Absent,
                        activity'[SidOf[p]].fp[p] = screen[p], activity'[SidOf[p]].at[p] # Never
                 PROVE  activity'[SidOf[p]].at[p] <= changed[p]
      BY <1>2 DEF StampLate, world
    <2>1. SidOf[p] \in Sids /\ changed[p] \in Age /\ activity[SidOf[p]] \in Activity \cup {Absent}
      BY TelemetryAssumption DEF Inv, TelemetryTypeOK
    <2>2. CASE SidOf[p] \notin sids
      <3>1. activity'[SidOf[p]] = activity[SidOf[p]]
        BY <1>2, <2>1, <2>2
      <3> QED BY <3>1 DEF Inv, StampLate
    <2>3. CASE SidOf[p] \in sids
      <3>1. activity'[SidOf[p]] = deriveActivity(activity[SidOf[p]], panes(SidOf[p]), m.screen)
        BY <1>2, <2>1, <2>3
      <3>2. \/ activity'[SidOf[p]].at[p] \in {Never, 0}
            \/ /\ activity[SidOf[p]] # Absent
               /\ activity'[SidOf[p]].at[p] = activity[SidOf[p]].at[p]
               /\ activity'[SidOf[p]].fp[p] = activity[SidOf[p]].fp[p]
        BY <1>1, <2>1, <3>1, ActivityFields
      <3>3. CASE activity'[SidOf[p]].at[p] = 0
        BY <2>1, <3>3, TelemetryAssumption DEF Age
      <3> QED BY <3>2, <3>3 DEF Inv, StampLate
    <2> QED BY <2>2, <2>3
  <1> QED BY <1>4, <1>5, <1>6 DEF Inv

(* Changing the age of a row keeps its type and its stamps. *)
LEMMA Reaged ==
    ASSUME NEW n \in Age
    PROVE  /\ \A r \in Slice : [r EXCEPT !.age = n] \in Slice /\ [r EXCEPT !.age = n].age = n
           /\ \A r \in Activity :
                /\ [r EXCEPT !.age = n] \in Activity
                /\ [r EXCEPT !.age = n].fp = r.fp /\ [r EXCEPT !.age = n].at = r.at
  <1>1. \A r \in Slice : [r EXCEPT !.age = n] \in Slice /\ [r EXCEPT !.age = n].age = n
    BY DEF Slice
  <1>2. \A r \in Activity :
           /\ [r EXCEPT !.age = n] \in Activity
           /\ [r EXCEPT !.age = n].fp = r.fp /\ [r EXCEPT !.age = n].at = r.at
    BY DEF Activity
  <1> QED BY <1>1, <1>2

LEMMA ControlInv == ASSUME Inv, NEW s \in Sids, Control(s) PROVE Inv'
  <1>1. 0 \in Age /\ 0 # Never
    BY TelemetryAssumption DEF Age, Never
  <1>2. lastSeen' = 0
    BY DEF Control, Owned
  <1>3. \A q \in Sids : slice'[q] \in {slice[q], [slice[q] EXCEPT !.age = 0]}
                            /\ (slice[q] = Absent => slice'[q] = Absent)
    BY DEF Control
  <1>4. \A q \in Sids : activity'[q] \in {activity[q], [activity[q] EXCEPT !.age = 0]}
                            /\ (activity[q] = Absent => activity'[q] = Absent)
    BY DEF Control
  <1>5. slice' \in [Sids -> Slice \cup {Absent}]
    BY <1>1, <1>3, Reaged DEF Inv, TelemetryTypeOK, Control
  <1>6. activity' \in [Sids -> Activity \cup {Absent}]
    BY <1>1, <1>4, Reaged DEF Inv, TelemetryTypeOK, Control
  <1>7. TelemetryTypeOK'
    BY <1>1, <1>2, <1>5, <1>6 DEF Inv, TelemetryTypeOK, Control, world
  <1>8. OrphansAge'
    BY <1>1, <1>2 DEF OrphansAge
  <1>9. StampLate'
    <2> SUFFICES ASSUME NEW p \in Panes, activity'[SidOf[p]] # Absent
                 PROVE  /\ activity[SidOf[p]] # Absent /\ UNCHANGED <<screen, changed>>
                        /\ activity'[SidOf[p]].fp = activity[SidOf[p]].fp
                        /\ activity'[SidOf[p]].at = activity[SidOf[p]].at
      BY DEF Inv, StampLate
    <2>1. SidOf[p] \in Sids
      BY TelemetryAssumption
    <2>2. activity[SidOf[p]] \in Activity
      BY <1>4, <2>1 DEF Inv, TelemetryTypeOK
    <2> QED BY <1>1, <1>4, <2>1, <2>2, RowTypes, Reaged DEF Control, world
  <1> QED BY <1>7, <1>8, <1>9 DEF Inv

LEMMA TimePassesInv == ASSUME Inv, TimePasses PROVE Inv'
  <1>1. /\ changed' = [p \in Panes |-> Older(changed[p])] /\ lastSeen' = Older(lastSeen)
        /\ slice' = [s \in Sids |-> Aged(slice[s])]
        /\ \A s \in Sids : activity'[s] =
             IF activity[s] = Absent THEN Absent
             ELSE [Aged(activity[s]) EXCEPT !.at = [p \in Panes |-> Older(activity[s].at[p])]]
        /\ activity' = [s \in Sids |-> activity'[s]]
        /\ gone' = IF lastSeen = Never THEN Older(gone) ELSE 0
        /\ UNCHANGED <<live, running, screen, listed, told, posts, forget, spent>>
    BY DEF TimePasses
  <1>2. 0 \in Age
    BY TelemetryAssumption DEF Age
  <1>3. ASSUME NEW s \in Sids, slice[s] # Absent
        PROVE  slice[s] \in Slice /\ slice'[s] \in Slice /\ slice'[s].age = Older(slice[s].age)
    <2>1. slice[s] \in Slice /\ Older(slice[s].age) \in Age
      BY <1>3, RowTypes, OlderType DEF Inv, TelemetryTypeOK
    <2>2. slice'[s] = [slice[s] EXCEPT !.age = Older(slice[s].age)]
      BY <1>1, <1>3 DEF Aged
    <2> QED BY <2>1, <2>2, Reaged
  <1>4. \A s \in Sids : slice[s] = Absent => slice'[s] = Absent
    BY <1>1 DEF Aged
  <1>5. slice' \in [Sids -> Slice \cup {Absent}]
    BY <1>1, <1>3, <1>4
  <1>6. ASSUME NEW s \in Sids, activity[s] # Absent
        PROVE  /\ activity'[s] \in Activity /\ activity'[s].fp = activity[s].fp
               /\ activity'[s].at = [p \in Panes |-> Older(activity[s].at[p])]
    <2>1. activity[s] \in Activity /\ Older(activity[s].age) \in Age
      BY <1>6, RowTypes, OlderType DEF Inv, TelemetryTypeOK
    <2>2. [p \in Panes |-> Older(activity[s].at[p])] \in [Panes -> Age \cup {Never}]
      BY <2>1, OlderType DEF Activity
    <2>3. activity'[s] = [[activity[s] EXCEPT !.age = Older(@)] EXCEPT !.at = [p \in Panes |-> Older(activity[s].at[p])]]
      BY <1>1, <1>6, Zenon DEF Aged
    <2> QED BY <2>1, <2>2, <2>3 DEF Activity
  <1>7. activity' \in [Sids -> Activity \cup {Absent}]
    BY <1>1, <1>6
  <1>8. changed' \in [Panes -> Age] /\ lastSeen' \in Age \cup {Never}
    BY <1>1, OlderType DEF Inv, TelemetryTypeOK
  <1>9. gone' \in Age
    BY <1>1, <1>2, OlderType DEF Inv, TelemetryTypeOK
  <1>10. TelemetryTypeOK'
    BY <1>1, <1>5, <1>7, <1>8, <1>9 DEF Inv, TelemetryTypeOK
  <1>11. OrphansAge'
    <2> SUFFICES ASSUME lastSeen' = Never, NEW s \in Sids, slice'[s] # Absent
                 PROVE  slice'[s].age >= gone'
      BY DEF OrphansAge
    <2>1. lastSeen = Never /\ gone' = Older(gone)
      BY <1>1, OlderType DEF Inv, TelemetryTypeOK
    <2>2. slice[s] \in Slice /\ slice'[s].age = Older(slice[s].age)
      BY <1>3, <1>4
    <2>3. gone \in Age /\ slice[s].age \in Age /\ gone <= slice[s].age
      BY <1>3, <1>4, <2>1, <2>2, RowTypes DEF Inv, TelemetryTypeOK, OrphansAge, Age
    <2>4. Older(gone) <= Older(slice[s].age)
      BY <2>3, OlderMonotone
    <2> QED BY <2>1, <2>2, <2>3, <2>4, OlderType DEF Age
  <1>12. StampLate'
    <2> SUFFICES ASSUME NEW p \in Panes, activity'[SidOf[p]] # Absent,
                        activity'[SidOf[p]].fp[p] = screen[p], activity'[SidOf[p]].at[p] # Never
                 PROVE  activity'[SidOf[p]].at[p] <= changed'[p]
      BY <1>1 DEF StampLate
    <2>1. SidOf[p] \in Sids /\ activity[SidOf[p]] # Absent
      BY <1>1, TelemetryAssumption
    <2>2. /\ activity[SidOf[p]].at[p] \in Age \cup {Never} /\ changed[p] \in Age
          /\ activity'[SidOf[p]].at[p] = Older(activity[SidOf[p]].at[p])
          /\ activity[SidOf[p]].fp[p] = screen[p] /\ changed'[p] = Older(changed[p])
      <3>1. activity[SidOf[p]] \in Activity
        BY <2>1 DEF Inv, TelemetryTypeOK
      <3>2. /\ activity'[SidOf[p]].fp = activity[SidOf[p]].fp
            /\ activity'[SidOf[p]].at = [q \in Panes |-> Older(activity[SidOf[p]].at[q])]
        BY <1>6, <2>1
      <3> QED BY <1>1, <3>1, <3>2 DEF Inv, TelemetryTypeOK, Activity
    <2>3. activity[SidOf[p]].at[p] \in Age
      BY <2>2, OlderType
    <2>4. activity[SidOf[p]].at[p] <= changed[p]
      BY <2>1, <2>2, <2>3 DEF Inv, StampLate, Age, Never
    <2> QED BY <2>2, <2>3, <2>4, OlderMonotone
  <1> QED BY <1>10, <1>11, <1>12 DEF Inv

LEMMA Inductive == Inv /\ [TelemetryNext]_telemetryVars => Inv'
  <1> SUFFICES ASSUME Inv, [TelemetryNext]_telemetryVars PROVE Inv'
    OBVIOUS
  <1>1. CASE UNCHANGED telemetryVars
    BY <1>1 DEF telemetryVars, world, tables, Inv, TelemetryTypeOK, OrphansAge, StampLate
  <1>2. ASSUME NEW p \in Panes, Change(p) \/ Exit(p) PROVE Inv'
    BY <1>2, ChangeInv, ExitInv
  <1>3. ASSUME NEW s \in Sids, Kill(s) \/ Control(s) PROVE Inv'
    BY <1>3, KillInv, ControlInv
  <1>4. ASSUME NEW s \in Sids, Resurrect(s) \/ SessionUpdate(s) \/ Send(s) PROVE Inv'
    BY <1>4, InstanceInv
  <1>5. ASSUME NEW m \in posts, Lose(m) \/ Ingest(m) \/ Deadlock(m) PROVE Inv'
    BY <1>5, NetworkInv, IngestInv
  <1>6. CASE ForgetRows \/ ForgetMachine \/ TimePasses
    BY <1>6, ForgetInv, TimePassesInv
  <1> QED BY <1>1, <1>2, <1>3, <1>4, <1>5, <1>6 DEF TelemetryNext

THEOREM InvHolds == TelemetrySpec => []Inv
  <1>1. TelemetryInit => Inv
    BY InitInv
  <1> QED BY <1>1, Inductive, PTL DEF TelemetrySpec

(* Every variable keeps its type: no stamp and no age leaves its range,      *)
(* whoever writes the rows.                                                  *)
THEOREM TypesHold == TelemetrySpec => []TelemetryTypeOK
  BY InvHolds, PTL DEF Inv

(* A forgotten machine leaves every view within the staleness window, even   *)
(* when an ingest commits in the middle of the forget.                       *)
THEOREM Forgotten == TelemetrySpec => []ForgottenFades
  <1>1. Inv => ForgottenFades
    <2> SUFFICES ASSUME Inv, lastSeen = Never, gone >= StaleAfter, NEW s \in View PROVE FALSE
      BY DEF ForgottenFades
    <2>1. slice[s] # Absent /\ slice[s].age < StaleAfter /\ slice[s].age \in Age /\ gone \in Age
      BY RowTypes DEF View, Fresh, Inv, TelemetryTypeOK
    <2> QED BY <2>1, TelemetryAssumption DEF View, Inv, OrphansAge, Age
  <1> QED BY <1>1, InvHolds, PTL

(* A sweep that calls the machine's Claudes idle is right about every one     *)
(* whose session the backend is informed of.                                 *)
THEOREM IdleMeansSilence == TelemetrySpec => []IdleIsSilence
  <1>1. Inv => IdleIsSilence
    <2> SUFFICES ASSUME Inv, "claude.idle" \in sweepMachineAttentions,
                        NEW p \in (Marked \cup Verdict) \cap running,
                        SidOf[p] \in live, Informed(SidOf[p])
                 PROVE  changed[p] >= Threshold
      BY DEF IdleIsSilence
    <2>1. computeMachineIdle
      BY DEF sweepMachineAttentions
    <2>2. p \in Panes /\ SidOf[p] \in Sids /\ p \in slice[SidOf[p]].panes
      BY TelemetryAssumption DEF Informed, PanesOf
    <2>3. p \in watchedPaneKeys
      BY <2>2 DEF watchedPaneKeys, Shown, Informed, isClaudePane
    <2>4. UpdatedAt(p) # Never /\ UpdatedAt(p) >= Threshold
      BY <2>1, <2>3 DEF computeMachineIdle
    <2>5. /\ activity[SidOf[p]] # Absent /\ activity[SidOf[p]].fp[p] = screen[p]
          /\ UpdatedAt(p) = activity[SidOf[p]].at[p]
      BY <2>2 DEF Informed, Fresh, UpdatedAt
    <2>6. activity[SidOf[p]].at[p] \in Age /\ changed[p] \in Age
      BY <2>2, <2>4, <2>5 DEF Inv, TelemetryTypeOK, Activity
    <2>7. activity[SidOf[p]].at[p] <= changed[p]
      BY <2>2, <2>4, <2>5 DEF Inv, StampLate
    <2> QED BY <2>4, <2>5, <2>6, <2>7, TelemetryAssumption DEF Age
  <1> QED BY <1>1, InvHolds, PTL
=============================================================================
