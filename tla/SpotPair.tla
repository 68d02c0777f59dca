------------------------------ MODULE SpotPair ------------------------------
(***************************************************************************)
(* The exchange as one trading pair of the bot sees it: a balance, the     *)
(* native STOP_LOSS sell orders the bot has placed, and the order history. *)
(* Nothing here is code of the repository.  Every operator is the effect,  *)
(* as src/code/src/order_manager.py relies on it, of one Binance call; the *)
(* replies are those its callers tell apart.                               *)
(*                                                                         *)
(* A reply is                                                              *)
(*   "ok"       the call took effect and the bot is told so;               *)
(*   "lost"     it took effect, and the bot gets an exception;             *)
(*   "err"      it did not take effect, and the bot gets an exception;     *)
(*   "unfilled" a market order came back with a status that is not FILLED; *)
(*   "rej"      the exchange refused it (the coins are locked, the order   *)
(*              is no longer open), and the bot gets an exception.         *)
(* "lost", "err" and "unfilled" are faults, bounded by MaxFaults.          *)
(***************************************************************************)
EXTENDS Integers, Sequences

CONSTANTS
    StopIds,      \* identifiers of stop orders, given again once nothing names them
    BuyQtys,      \* net quantities a market buy may deliver
    MinQty,       \* LOT_SIZE minQty of the pair
    Step,         \* LOT_SIZE stepSize of the pair
    MaxFaults,    \* bound: faults in one behaviour
    LostReplies   \* may a reply be lost after the call took effect?

ASSUME SpotAssumption ==
    /\ StopIds \subseteq Nat \ {0}
    /\ BuyQtys \subseteq Nat
    /\ MinQty \in Nat \ {0}
    /\ Step \in Nat \ {0}
    /\ Step <= MinQty /\ MinQty % Step = 0
    /\ MaxFaults \in Nat
    /\ LostReplies \in BOOLEAN

VARIABLES
    free,         \* coins that no open order locks
    locked,       \* coins locked in open stop orders
    ord,          \* the stop orders, by identifier
    hist,         \* the order history: side of the newest filled order, price
                  \* and quantity of the last buy, quantities sold since, and
                  \* whether the newest order of all is a filled buy
    faults        \* faults so far

exVars == <<free, locked, ord, hist, faults>>

StopStates == {"NONE", "LIVE", "FILLED", "OLD", "CANCELED"}
(* Nobody asks more of an order that is no longer open than its status *)
Ended(st) == [st |-> st, qty |-> 0, stop |-> 0, late |-> FALSE]
NoStop == Ended("NONE")
Live == {i \in StopIds : ord[i].st = "LIVE"}
HasFilled(i) == ord[i].st \in {"FILLED", "OLD"}
Held == free + locked

(* A quantity rounded down to the step of the pair *)
Floor(q) == (q \div Step) * Step

Faulty == {"lost", "err", "unfilled"}
Effective == {"ok", "lost"}

(* The reply r to a call the exchange can honour exactly when can holds *)
Answered(r, can, replies) ==
    /\ r \in IF can THEN replies ELSE {"rej"}
    /\ r = "lost" => LostReplies
    /\ faults' = IF r \in Faulty THEN faults + 1 ELSE faults
    /\ faults' <= MaxFaults

ReadCall(r) == Answered(r, TRUE, {"ok", "err"})

(* An order gets an identifier that no open order has and nothing names:   *)
(* the exchange never gives one twice.  Which of them makes no difference, *)
(* so a step of the bot that names the orders in named takes the least.    *)
Unused(named) == {i \in StopIds : i \notin named /\ ord[i].st # "LIVE"}
GivesFresh(named) ==
    Live' \ Live \subseteq {i \in Unused(named) : \A j \in Unused(named) : i <= j}

CancelCall(i, r) ==
    /\ Answered(r, i \in Live, {"ok", "lost", "err"})
    /\ IF r \in Effective
         THEN /\ ord' = [ord EXCEPT ![i] = Ended("CANCELED")]
              /\ free' = free + ord[i].qty
              /\ locked' = locked - ord[i].qty
         ELSE UNCHANGED <<ord, free, locked>>
    /\ UNCHANGED hist

(* i is the identifier the exchange gives to the new stop order, which is  *)
(* later than every market order so far                                    *)
PlaceStopCall(i, q, price, r) ==
    /\ Answered(r, q >= MinQty /\ q <= free, {"ok", "lost", "err"})
    /\ IF r \in Effective
         THEN /\ ord' = [ord EXCEPT ![i] =
                           [st |-> "LIVE", qty |-> q, stop |-> price, late |-> TRUE]]
              /\ free' = free - q
              /\ locked' = locked + q
              /\ hist' = [hist EXCEPT !.newest = FALSE]
         ELSE UNCHANGED <<ord, free, locked, hist>>

MarketSellCall(q, r) ==
    /\ Answered(r, q >= MinQty /\ q <= free, {"ok", "lost", "err", "unfilled"})
    /\ free' = IF r \in Effective THEN free - q ELSE free
    /\ hist' = IF r \in Effective
                 THEN [hist EXCEPT !.side = "SELL", !.newest = FALSE,
                                   !.sales = Append(@, q)]
               ELSE IF r = "unfilled" THEN [hist EXCEPT !.newest = FALSE]
               ELSE hist
    /\ UNCHANGED <<ord, locked>>

MarketBuyCall(q, price, r) ==
    /\ Answered(r, TRUE, {"ok", "lost", "err", "unfilled"})
    /\ free' = IF r \in Effective THEN free + q ELSE free
    /\ hist' = IF r \in Effective
                 THEN [side |-> "BUY", px |-> price, bought |-> q,
                       sales |-> <<>>, newest |-> TRUE]
               ELSE IF r = "unfilled" THEN [hist EXCEPT !.newest = FALSE]
               ELSE hist
    /\ ord' = IF r \in Effective
                THEN [i \in StopIds |-> [ord[i] EXCEPT !.late = FALSE]] ELSE ord
    /\ UNCHANGED locked

(* The market reaches the price of a stop order, between any two steps.    *)
(* The history is sorted by the time orders were placed, not filled.       *)
StopFills(i) ==
    /\ i \in Live
    /\ ord' = [ord EXCEPT ![i] = Ended("FILLED")]
    /\ locked' = locked - ord[i].qty
    /\ hist' = [hist EXCEPT !.side = IF ord[i].late THEN "SELL" ELSE @,
                             !.sales = Append(@, ord[i].qty)]
    /\ UNCHANGED <<free, faults>>

(* More than the cool-down goes by since the stop order filled *)
FillAges(i) ==
    /\ ord[i].st = "FILLED"
    /\ ord' = [ord EXCEPT ![i] = Ended("OLD")]
    /\ UNCHANGED <<free, locked, hist, faults>>

(* An account that has traded the pair before and may hold its dust.  The  *)
(* capital of a buy is what was sold since the last one, so a pair nothing *)
(* was ever sold of is never bought.                                       *)
ExInit ==
    /\ free \in 0..MinQty
    /\ locked = 0
    /\ ord = [i \in StopIds |-> NoStop]
    /\ hist = [side |-> "SELL", px |-> 0, bought |-> MinQty, sales |-> <<MinQty>>,
               newest |-> FALSE]
    /\ faults = 0

ExTypeOK ==
    /\ free \in Nat
    /\ locked \in Int
    /\ ord \in [StopIds -> [st : StopStates, qty : Nat, stop : Int, late : BOOLEAN]]
    /\ hist \in [side : {"BUY", "SELL"}, px : Int, bought : Nat, sales : Seq(Nat),
                 newest : BOOLEAN]
    /\ faults \in 0..MaxFaults
=============================================================================
