------------------------------- MODULE Outbox -------------------------------
(***************************************************************************)
(* What the durable notification queue promises, row by row (ADR-0009),    *)
(* however many sweeps are at work: a row is queued once, a sweep takes it *)
(* in hand only while it is pending, it is marked delivered only if its    *)
(* recipient has got it, and it leaves the table only after it has been    *)
(* settled.  A sweep settles a row of its batch once, over whatever others *)
(* have made of it: a row that was settled meanwhile is queued again only  *)
(* by a sweep that still has it in hand, so never if no two had it.  The   *)
(* rows in Reported are settled by who delivered them, as often as they    *)
(* report, and are never queued again.                                     *)
(***************************************************************************)
CONSTANTS Deliveries, Sweeps, Reported
VARIABLES status, received, held
ovars == <<status, received, held>>

Init ==
    /\ status = [d \in Deliveries |-> "none"] /\ received = [d \in Deliveries |-> FALSE]
    /\ held = [d \in Deliveries |-> {}]

Becomes(d, s) == status' = [status EXCEPT ![d] = s] /\ UNCHANGED received

Queue(d) == status[d] = "none" /\ Becomes(d, "pending") /\ UNCHANGED held
Reach(d) == /\ status[d] # "none"
            /\ received' = [received EXCEPT ![d] = TRUE] /\ UNCHANGED <<status, held>>

(* a sweep takes its batch ... *)
Take(w) ==
    \E B \in SUBSET {d \in Deliveries : status[d] = "pending"} :
        /\ held' = [d \in Deliveries |-> IF d \in B THEN held[d] \cup {w} ELSE held[d]]
        /\ UNCHANGED <<status, received>>

(* ... and settles a row of it, or queues it for another attempt ... *)
Settle(w, d, s) ==
    /\ w \in held[d] /\ d \notin Reported /\ status[d] # "deleted"
    /\ s = "delivered" => received[d]
    /\ Becomes(d, s) /\ held' = [held EXCEPT ![d] = @ \ {w}]

(* ... or lets rows go: sent and awaiting a report, out of reach, or it ended *)
LetGo ==
    /\ held' \in [Deliveries -> SUBSET Sweeps] /\ \A d \in Deliveries : held'[d] \subseteq held[d]
    /\ UNCHANGED <<status, received>>

Report(d, s) ==
    /\ d \in Reported /\ status[d] \notin {"none", "deleted"}
    /\ s = "delivered" => received[d]
    /\ Becomes(d, s) /\ UNCHANGED held

(* one pass of the prune settles or removes any number of rows *)
Sweep(from, to) ==
    \E D \in SUBSET Deliveries :
        /\ \A d \in D : status[d] \in from
        /\ status' = [d \in Deliveries |-> IF d \in D THEN to ELSE status[d]]
        /\ UNCHANGED <<received, held>>

Next ==
    \/ \E d \in Deliveries : Queue(d) \/ Reach(d)
    \/ \E w \in Sweeps : Take(w)
    \/ \E w \in Sweeps, d \in Deliveries, s \in {"delivered", "failed", "pending"} : Settle(w, d, s)
    \/ LetGo
    \/ \E d \in Deliveries, s \in {"delivered", "failed"} : Report(d, s)
    \/ Sweep({"pending"}, "expired")
    \/ Sweep({"delivered", "failed", "expired"}, "deleted")

Spec == Init /\ [][Next]_ovars
=============================================================================
