----------------------------- MODULE OrderPromise -----------------------------
(* What a caller of safe_market_buy, safe_market_sell and                     *)
(* place_exchange_stop_loss may count on, whatever the network does.          *)
(*                                                                            *)
(* An order that was decided once is executed at most once, unless the client *)
(* itself went ahead in doubt; a success is reported only of an order that    *)
(* the exchange executed.  A failure reported says nothing: the order may     *)
(* have been executed, or may be executed later.                              *)
CONSTANTS
    Order,      \* the orders decided
    Attempt     \* names of the executions of one order

VARIABLES
    ran,        \* ran[o]: the executions of the order
    doubt,      \* doubt[o]: the client sent the order again without knowing
    told        \* told[o]: what the caller was told

vars == <<ran, doubt, told>>

Init == /\ ran = [o \in Order |-> {}]
        /\ doubt = [o \in Order |-> FALSE]
        /\ told = [o \in Order |-> "nothing"]

Execute(o) == \E k \in Attempt \ ran[o] :
    /\ ran[o] = {} \/ doubt[o]
    /\ ran' = [ran EXCEPT ![o] = @ \cup {k}]
    /\ UNCHANGED <<doubt, told>>

GoAhead(o) == /\ told[o] = "nothing"
              /\ doubt' = [doubt EXCEPT ![o] = TRUE]
              /\ UNCHANGED <<ran, told>>

Report(o) == /\ told[o] = "nothing"
             /\ \/ /\ ran[o] # {}
                   /\ told' = [told EXCEPT ![o] = "executed"]
                \/ told' = [told EXCEPT ![o] = "failed"]
             /\ UNCHANGED <<ran, doubt>>

Next == \E o \in Order : Execute(o) \/ GoAhead(o) \/ Report(o)

Spec == Init /\ [][Next]_vars
===============================================================================
