----------------------------- MODULE MCDelivery -----------------------------
(* Small instances of Delivery: a push row d1 for one device and a chat row  *)
(* c for one platform, swept one sweep at a time, with a restart of the      *)
(* backend; the chat row alone, with a bot whose connection breaks; or       *)
(* either row with a second sweep that need not wait for the first.          *)
EXTENDS Delivery
CONSTANTS d1, c, none, w1, second, device, user

MCChannel == [d \in Deliveries |-> IF d = c THEN "discord" ELSE "webpush"]
MCRecipient == [d \in Deliveries |-> IF d = c THEN user ELSE device]

VARIABLE case

(* one sweep after the other *)
Alone ==
    /\ \A w \in Workers \ {w1} : sweep'[w] = Idle
    /\ sweep[w1] # Idle /\ sweep'[w1] # Idle => due \subseteq due'
Unused(D) == \A d \in D : row'[d].status = "none"
MCInit == Init /\ case \in {"restart", "drop", "push sweeps", "chat sweeps"}
MCNext ==
    /\ Next /\ UNCHANGED case
    /\ CASE case = "restart" -> drops' = 0 /\ Alone
         [] case = "drop" -> crashes' = 0 /\ Unused(PushRows) /\ Alone
         [] case = "push sweeps" -> crashes' = 0 /\ drops' = 0 /\ Unused(ChatRows) /\ live' = {}
         [] case = "chat sweeps" -> crashes' = 0 /\ drops' = 0 /\ Unused(PushRows)
MCSpec == MCInit /\ [][MCNext]_<<vars, case>> /\ Fairness
=============================================================================
