----------------------------- MODULE TokensPage -----------------------------
(***************************************************************************)
(* The tokens page (ADR-0003): the ingest tokens with the machines each    *)
(* one reports for, and what the owner does to them.  An operation is a    *)
(* request, then a reading of both lists, under one busy flag that the     *)
(* Enter key of the rename field does not heed.                            *)
(***************************************************************************)
EXTENDS Integers, FiniteSets

CONSTANTS
    T,        \* tokens there can be
    M,        \* machines there can be
    MaxOps,   \* bounds the operations in flight
    MaxTurns  \* bounds the operations, the pushes and the failures

ASSUME TokensPageAssumption == T \in Nat /\ M \in Nat /\ MaxOps \in Nat \ {0} /\ MaxTurns \in Nat

Toks == 1..T
Machs == 1..M
Gone == -1
Unlinked == 0

VARIABLES
    state,      \* of each token in the backend
    holder,     \* the token a machine last pushed with, Unlinked or Gone
    tokens,     \* the page's lists of both
    machines,
    view,       \* loading, anon or ready
    busy,
    renaming,   \* the token whose name is edited, 0 when none is
    confirming, \* the destructive actions that wait for their Confirm
    secret,     \* the token whose secret is on view, 0 when none is
    ops,        \* the operations under way
    did,        \* what the backend did at this page's behest (history)
    trusted,    \* the lists were read after all of that (history)
    turns

backVars == <<state, holder>>
listVars == <<tokens, machines>>
uiVars == <<renaming, confirming, secret>>
tokensPageVars == <<backVars, listVars, view, busy, uiVars, ops, did, trusted, turns>>

States == [Toks -> {"none", "active", "revoked"}]
Holders == [Machs -> Gone..T]
Danger == {<<"revokeAll", 0>>} \cup ({"revoke"} \X Toks) \cup ({"kick"} \X Machs)
Work == Danger \cup {<<"load", 0>>, <<"create", 0>>} \cup ({"rename"} \X Toks)
Op == [what : Work, n : 1..MaxOps, alone : BOOLEAN, stage : {"asked", "acted", "reading"},
       got : SUBSET {"tokens", "machines"}, ts : States, ms : Holders, made : 0..T]
TokensPageTypeOK ==
    /\ state \in States /\ holder \in Holders /\ tokens \in States /\ machines \in Holders
    /\ view \in {"loading", "anon", "ready"} /\ busy \in BOOLEAN /\ renaming \in 0..T
    /\ confirming \subseteq Danger /\ secret \in 0..T
    /\ ops \subseteq Op /\ Cardinality(ops) <= MaxOps
    /\ did \subseteq {"create", "revoke", "kick"} \X (1..(T + M)) /\ trusted \in BOOLEAN /\ turns \in 0..MaxTurns

NewOp(what, stage, alone) ==
    [what |-> what, alone |-> alone, stage |-> stage, got |-> {},
     n |-> CHOOSE n \in 1..MaxOps : \A o \in ops : o.n # n,
     ts |-> [t \in Toks |-> "none"], ms |-> [m \in Machs |-> Gone], made |-> 0]

TokensPageInit ==
    /\ state \in [Toks -> {"none", "active"}] /\ holder \in Holders
    /\ \A m \in Machs : holder[m] > 0 => state[holder[m]] = "active"
    /\ tokens = [t \in Toks |-> "none"] /\ machines = [m \in Machs |-> Gone]
    /\ view = "loading" /\ busy = FALSE /\ renaming = 0 /\ confirming = {} /\ secret = 0
    /\ did = {} /\ trusted = FALSE /\ turns = 0
    /\ ops = {[what |-> <<"load", 0>>, alone |-> TRUE, stage |-> "reading", got |-> {}, n |-> 1,
               ts |-> tokens, ms |-> machines, made |-> 0]}

Turn == turns < MaxTurns /\ turns' = turns + 1
-----------------------------------------------------------------------------
(* A plugin pushes with a token that is active. *)
Pushes(m, t) ==
    /\ state[t] = "active" /\ holder[m] # t /\ Turn
    /\ holder' = [holder EXCEPT ![m] = t]
    /\ did' = did \ {<<"kick", m>>}
    /\ UNCHANGED <<state, listVars, view, busy, uiVars, ops, trusted>>

(* what each request does in the backend: a new token, those that are revoked, *)
(* the machines that are forgotten with their token or kicked                  *)
Least(ts) == {t \in ts : \A u \in ts : t <= u}
StateAfter(what) ==
    [t \in Toks |->
       CASE what[1] = "create" /\ t \in Least({u \in Toks : state[u] = "none"}) -> "active"
         [] what \in {<<"revoke", t>>, <<"revokeAll", 0>>} /\ state[t] = "active" -> "revoked"
         [] OTHER -> state[t]]
HolderAfter(what) ==
    [m \in Machs |-> IF what = <<"kick", m>> \/ (holder[m] > 0 /\ what = <<"revoke", holder[m]>>)
                     THEN Gone ELSE holder[m]]

Serve(op) ==
    /\ op.stage = "asked"
    /\ op.what[1] = "create" => \E t \in Toks : state[t] = "none"
    /\ state' = StateAfter(op.what) /\ holder' = HolderAfter(op.what)
    /\ \E made \in 0..T :
         /\ IF made = 0 THEN op.what[1] # "create" ELSE state[made] # state'[made] /\ op.what[1] = "create"
         /\ ops' = (ops \ {op}) \cup {[op EXCEPT !.stage = "acted", !.made = made]}
    /\ did' = did \cup {<<"create", t>> : t \in {u \in Toks : state[u] = "none" /\ state'[u] # "none"}}
                  \cup {<<"revoke", t>> : t \in {u \in Toks : state[u] = "active" /\ state'[u] # "active"}}
                  \cup {<<"kick", m>> : m \in {k \in Machs : holder'[k] # holder[k]}}
    /\ UNCHANGED <<listVars, view, busy, uiVars, trusted, turns>>
-----------------------------------------------------------------------------
(* The actions that the lists on view offer; a row that goes, or that moves *)
(* under another token, takes its open confirmation along.                  *)
Offered(what, ts, ms, edited) ==
    CASE what[1] = "revoke" -> ts[what[2]] = "active" /\ edited # what[2]
      [] what[1] = "kick" -> ms[what[2]] # Gone
      [] OTHER -> \E t \in Toks : ts[t] = "active"
Same(what, ms) == what[1] = "kick" => ms[what[2]] = machines[what[2]]

Trigger(what) ==
    /\ view = "ready" /\ ~busy /\ Offered(what, tokens, machines, renaming)
    /\ confirming' = confirming \cup {what}
    /\ UNCHANGED <<backVars, listVars, view, busy, renaming, secret, ops, did, trusted, turns>>
Cancel(what) ==
    /\ confirming' = confirming \ {what} /\ what \in confirming
    /\ UNCHANGED <<backVars, listVars, view, busy, renaming, secret, ops, did, trusted, turns>>
Done ==
    /\ secret # 0 /\ secret' = 0
    /\ UNCHANGED <<backVars, listVars, view, busy, renaming, confirming, ops, did, trusted, turns>>
(* Rename, Escape or Cancel; the field replaces the row's Revoke *)
Edit(t) ==
    /\ view = "ready" /\ t # renaming /\ (t \in Toks => tokens[t] # "none")
    /\ renaming' = t
    /\ confirming' = confirming \ {<<"revoke", t>>}
    /\ UNCHANGED <<backVars, listVars, view, busy, secret, ops, did, trusted, turns>>

(* setBusy(true) and the request.  A button is disabled while the page is busy. *)
Begin(what) ==
    /\ view = "ready" /\ Turn /\ Cardinality(ops) < MaxOps
    /\ CASE what[1] = "rename" -> renaming = what[2]
         [] what[1] = "create" -> ~busy
         [] OTHER -> ~busy /\ what \in confirming
    /\ busy' = TRUE
    /\ ops' = {[op EXCEPT !.alone = FALSE] : op \in ops} \cup {NewOp(what, "asked", ops = {})}
    /\ UNCHANGED <<backVars, listVars, view, uiVars, did, trusted>>

(* finally: setBusy(false), and the Confirm is withdrawn *)
(* mutated form: only after a success *)
FreesOnSuccess(ok) == ~ok
Frees(ok) == FALSE
Over(op, ok) ==
    /\ ops' = ops \ {op}
    /\ busy' = IF op.what[1] = "load" THEN busy ELSE Frees(ok)

Answered(op) ==
    /\ op.stage = "acted"
    /\ ops' = (ops \ {op}) \cup {[op EXCEPT !.stage = "reading"]}
    /\ secret' = IF op.what[1] = "create" THEN op.made ELSE secret
    /\ renaming' = IF op.what[1] = "rename" THEN 0 ELSE renaming
    /\ UNCHANGED <<backVars, listVars, view, busy, confirming, did, trusted, turns>>

(* an alert; the lists are not read again *)
Fails(op) ==
    /\ op.stage \in {"asked", "acted"} /\ Turn
    /\ Over(op, FALSE) /\ confirming' = confirming \ {op.what}
    /\ trusted' = FALSE
    /\ UNCHANGED <<backVars, listVars, view, renaming, secret, did>>

(* the two readings are answered one by one *)
Read(op, list) ==
    /\ op.stage = "reading" /\ list \notin op.got
    /\ ops' = (ops \ {op}) \cup {IF list = "tokens" THEN [op EXCEPT !.got = @ \cup {list}, !.ts = state]
                                 ELSE [op EXCEPT !.got = @ \cup {list}, !.ms = holder]}
    /\ UNCHANGED <<backVars, listVars, view, busy, uiVars, did, trusted, turns>>

(* setTokens and setMachines *)
Shown(op) == <<op.ts, op.ms>>
ListsArrive(op) ==
    /\ op.got = {"tokens", "machines"}
    /\ tokens' = Shown(op)[1] /\ machines' = Shown(op)[2]
    /\ view' = "ready"
    /\ confirming' = {w \in confirming \ {op.what} : Offered(w, tokens', machines', renaming) /\ Same(w, machines')}
    /\ Over(op, TRUE)
    /\ trusted' = op.alone
    /\ UNCHANGED <<backVars, renaming, secret, did, turns>>

(* refresh() swallows the failure *)
RefreshFails(op) ==
    /\ op.stage = "reading" /\ Turn
    /\ view' \in {"anon", "ready"}
    /\ Over(op, TRUE) /\ confirming' = confirming \ {op.what}
    /\ trusted' = FALSE
    /\ UNCHANGED <<backVars, listVars, renaming, secret, did>>

TokensPageNext ==
    \/ \E m \in Machs, t \in Toks : Pushes(m, t)
    \/ \E what \in Danger : Trigger(what) \/ Cancel(what)
    \/ Done \/ \E t \in 0..T : Edit(t)
    \/ \E what \in Work \ {<<"load", 0>>} : Begin(what)
    \/ \E op \in ops :
         \/ Serve(op) \/ Answered(op) \/ Fails(op) \/ ListsArrive(op) \/ RefreshFails(op)
         \/ \E list \in {"tokens", "machines"} : Read(op, list)
-----------------------------------------------------------------------------
(* A page that is at rest, whose last operation neither failed nor overlapped *)
(* with a rename, shows what its owner did: no token he revoked is active and *)
(* no machine he forgot is listed, though the two lists were read apart and   *)
(* plugins pushed meanwhile; every token he made is there.                    *)
OwnWorkShown ==
    (ops = {} /\ trusted) => \A x \in 1..(T + M) :
        /\ <<"revoke", x>> \in did => tokens[x] = "revoked"
        /\ <<"create", x>> \in did => tokens[x] # "none"
        /\ <<"kick", x>> \in did => machines[x] = Gone

(* The page at rest can be used, whatever failed; and while an operation that *)
(* no rename overtook is under way, no other button can start one.            *)
BusyHonest ==
    /\ ops = {} => ~busy
    /\ \A op \in ops : op.alone /\ op.what[1] # "load" => busy
=============================================================================
