---------------------------- MODULE Fleet_proofs -----------------------------
(***************************************************************************)
(* Proofs about Fleet for any number of pairs and any limits: its types,   *)
(* NoOverdraw and LimitsBind.                                              *)
(*                                                                         *)
(* NoOverdraw rests on the lock: who is in the critical section holds it,  *)
(* so that no one else takes USDC from the account.  LimitsBind rests on   *)
(* how far a thread can get in a dispatch in which a limit is in force     *)
(* (Bars): no thread of an earlier dispatch is left to get any further.    *)
(***************************************************************************)
EXTENDS Fleet, TLAPS

InSection(p) == pc[p] \in {"size", "order"}
Locked == \A p \in Pair : InSection(p) => lock = p

BarsHalt == "halt" \in barred =>
    halted /\ \A p \in Pair : pc[p] \in {"idle", "gate"}
BarsFull == "full" \in barred =>
    Full /\ \A p \in Pair : pc[p] \in {"idle", "gate", "count"}
BarsLoss == "loss" \in barred =>
    LossReached /\ \A p \in Pair : pc[p] \notin {"wait", "size", "order", "protect"}
Bars == BarsHalt /\ BarsFull /\ BarsLoss

(* Initially everything is of its type *)
LEMMA InitTypeOK == Init => TypeOK
<1> SUFFICES ASSUME Init PROVE TypeOK
  OBVIOUS
<1>1. free \in Nat /\ coin \in [Pair -> Nat] /\ sold \in [Pair -> Nat]
  BY FleetAssumption DEF Init
<1>2. \A p \in Pair : coin[p] = 0 \/ sold[p] = 0
  BY DEF Init
<1>3. cost \in [Pair -> Nat] /\ polls \in [Pair -> 0..PollEvery - 1] /\ pnl \in Int
  BY FleetAssumption DEF Init
<1>4. /\ armed \in [Pair -> BOOLEAN] /\ halted \in BOOLEAN /\ dated \in BOOLEAN
      /\ fresh \in [Pair -> BOOLEAN] /\ barred \subseteq Limits
  BY DEF Init
<1>5. lock \in Pair \cup {Nobody} /\ pc \in [Pair -> Labels] /\ want \in [Pair -> Nat]
  BY DEF Init, Labels
<1> QED BY <1>1, <1>2, <1>3, <1>4, <1>5 DEF TypeOK

(* The steps of a thread up to the position of its pair *)
LEMMA LookTypeOK ==
    ASSUME TypeOK, NEW p \in Pair,
           Gate(p) \/ Count(p) \/ Fetched(p)
    PROVE  TypeOK'
<1>1. CASE Gate(p)
  BY <1>1 DEF Gate, Goto, TypeOK, Labels, account, memory, limits, buying
<1>2. CASE Count(p)
  <2>1. cost' \in [Pair -> Nat] /\ armed' \in [Pair -> BOOLEAN]
    BY <1>2 DEF Count, Poll, Closed, TypeOK, memory
  <2>2. polls' \in [Pair -> 0..PollEvery - 1]
    BY <1>2, FleetAssumption DEF Count, Poll, TypeOK, memory
  <2>3. pc' \in [Pair -> Labels] /\ dated' \in BOOLEAN /\ barred' \subseteq Limits
    BY <1>2 DEF Count, NewEquity, Goto, TypeOK, Labels, Still
  <2> QED
    BY <1>2, <2>1, <2>2, <2>3 DEF Count, NewEquity, TypeOK, account, buying
<1>3. CASE Fetched(p)
  BY <1>3 DEF Fetched, Goto, TypeOK, Labels, account, limits, buying
<1> QED BY <1>1, <1>2, <1>3

(* The steps that end a cycle and change nothing but memory and the day *)
LEMMA EndTypeOK ==
    ASSUME TypeOK, NEW p \in Pair,
           \/ \E l \in Labels : Leave(p, l)
           \/ Zero(p) \/ Filled(p) \/ NotSold(p) \/ Book(p) \/ Protect(p)
           \/ NotSized(p) \/ NotBought(p)
    PROVE  TypeOK'
<1>1. CASE \E l \in Labels : Leave(p, l)
  BY <1>1 DEF Leave, Goto, TypeOK, Labels, account, memory, limits, buying
<1>2. CASE Zero(p)
  BY <1>2 DEF Zero, Closed, Booked, Still, Goto, TypeOK, Labels, account, buying
<1>3. CASE Book(p)
  BY <1>3 DEF Book, Closed, Booked, Still, Goto, TypeOK, Labels, account, buying
<1>4. CASE Protect(p)
  BY <1>4 DEF Protect, Goto, TypeOK, Labels, account, limits, buying
<1>5. CASE Filled(p)
  BY <1>5 DEF Filled, Closed, Booked, Still, Goto, TypeOK, Labels, account, buying
<1>6. CASE NotSold(p)
  BY <1>6 DEF NotSold, Goto, TypeOK, Labels, account, limits, buying
<1>7. CASE NotSized(p)
  BY <1>7 DEF NotSized, Release, Goto, TypeOK, Labels, account, memory, limits
<1>8. CASE NotBought(p)
  BY <1>8 DEF NotBought, Release, Goto, TypeOK, Labels, account, memory, limits
<1> QED BY <1>1, <1>2, <1>3, <1>4, <1>5, <1>6, <1>7, <1>8

(* What a sale leaves on the account *)
LEMMA SoldTypes ==
    ASSUME TypeOK, NEW p \in Pair, NEW r \in Receipts(p), Sold(p, r)
    PROVE  /\ free' \in Nat /\ free' >= free
           /\ coin' \in [Pair -> Nat] /\ sold' \in [Pair -> Nat]
           /\ \A q \in Pair : coin'[q] = 0 \/ sold'[q] = 0
           /\ \A q \in Pair : sold'[q] = 0 => sold[q] = 0
<1>1. r \in Nat /\ r > 0
  BY FleetAssumption DEF Receipts, TypeOK
<1> QED BY <1>1 DEF Sold, TypeOK

(* Whether it is executed or not *)
LEMMA MaybeSoldTypes ==
    ASSUME TypeOK, NEW p \in Pair,
           (\E r \in Receipts(p) : Sold(p, r)) \/ UNCHANGED account
    PROVE  /\ free' \in Nat /\ free' >= free
           /\ coin' \in [Pair -> Nat] /\ sold' \in [Pair -> Nat]
           /\ \A q \in Pair : coin'[q] = 0 \/ sold'[q] = 0
           /\ \A q \in Pair : sold'[q] = 0 => sold[q] = 0
<1>1. CASE UNCHANGED account
  BY <1>1 DEF account, TypeOK
<1> QED BY <1>1, SoldTypes

LEMMA SaleTypeOK ==
    ASSUME TypeOK, NEW p \in Pair, Sell(p) \/ Rollback(p) \/ Halt(p) \/ StopFills(p)
    PROVE  TypeOK'
<1>1. (\E r \in Receipts(p) : Sold(p, r)) \/ UNCHANGED account
  BY DEF Sell, Rollback, Halt, SoldBack, StopFills
<1>2. /\ free' \in Nat /\ coin' \in [Pair -> Nat] /\ sold' \in [Pair -> Nat]
      /\ \A q \in Pair : coin'[q] = 0 \/ sold'[q] = 0
  BY <1>1, MaybeSoldTypes
<1>3. CASE Sell(p)
  BY <1>2, <1>3 DEF Sell, Goto, TypeOK, Labels, limits, buying
<1>4. CASE Halt(p)
  BY <1>2, <1>4 DEF Halt, Goto, TypeOK, Labels, memory, buying
<1>5. CASE Rollback(p)
  BY <1>2, <1>5 DEF Rollback, Closed, Goto, TypeOK, Labels, limits, buying
<1>6. CASE StopFills(p)
  BY <1>2, <1>6 DEF StopFills, TypeOK, memory, limits, buying
<1> QED BY <1>3, <1>4, <1>5, <1>6

(* What a buy leaves on the account *)
LEMMA BoughtTypes ==
    ASSUME TypeOK, NEW p \in Pair, Bought(p)
    PROVE  /\ free' \in Nat
           /\ coin' \in [Pair -> Nat] /\ sold' \in [Pair -> Nat]
           /\ \A q \in Pair : coin'[q] = 0 \/ sold'[q] = 0
BY DEF Bought, TypeOK

LEMMA BuyTypeOK ==
    ASSUME TypeOK, NEW p \in Pair,
           Check(p) \/ Acquire(p) \/ Size(p) \/ Buy(p) \/ BuyUnseen(p)
    PROVE  TypeOK'
<1>1. CASE Check(p)
  BY <1>1 DEF Check, Goto, TypeOK, Labels, account, memory, limits, buying
<1>2. CASE Acquire(p)
  BY <1>2 DEF Acquire, Goto, TypeOK, Labels, account, memory, limits
<1>3. CASE Size(p)
  <2>1. want' \in [Pair -> Nat] /\ fresh' \in [Pair -> BOOLEAN]
    BY <1>3 DEF Size, TypeOK
  <2> QED
    BY <1>3, <2>1 DEF Size, Goto, TypeOK, Labels, account, memory, limits
<1>4. CASE Buy(p)
  <2>1. /\ lock' = Nobody /\ want' \in [Pair -> Nat] /\ fresh' \in [Pair -> BOOLEAN]
        /\ cost' \in [Pair -> Nat] /\ pc' \in [Pair -> Labels]
    BY <1>4 DEF Buy, Release, Goto, TypeOK, Labels
  <2>2. Bought(p)
    BY <1>4 DEF Buy
  <2> QED
    BY <1>4, <2>1, <2>2, BoughtTypes DEF Buy, TypeOK, limits
<1>5. CASE BuyUnseen(p)
  <2>1. /\ lock' = Nobody /\ want' \in [Pair -> Nat] /\ fresh' \in [Pair -> BOOLEAN]
        /\ pc' \in [Pair -> Labels]
    BY <1>5 DEF BuyUnseen, Release, Goto, TypeOK, Labels
  <2>2. Bought(p)
    BY <1>5 DEF BuyUnseen
  <2> QED
    BY <1>5, <2>1, <2>2, BoughtTypes DEF BuyUnseen, TypeOK, memory, limits
<1> QED BY <1>1, <1>2, <1>3, <1>4, <1>5

LEMMA NextTypeOK == TypeOK /\ [Next]_vars => TypeOK'
<1> SUFFICES ASSUME TypeOK, [Next]_vars PROVE TypeOK'
  OBVIOUS
<1>1. CASE Dispatch
  BY <1>1 DEF Dispatch, TypeOK, Labels, Limits, account, memory, limits, buying
<1>2. CASE NewDay
  <2>1. pnl' \in Int
    BY <1>2 DEF NewDay
  <2>0. dated' \in BOOLEAN
    BY <1>2 DEF NewDay
  <2>2. barred' \subseteq Limits
    BY <1>2 DEF NewDay, Still, TypeOK
  <2> QED
    BY <1>2, <2>0, <2>1, <2>2 DEF NewDay, TypeOK, account, memory, buying
<1>3. ASSUME NEW p \in Pair, Step(p) PROVE TypeOK'
  BY <1>3, LookTypeOK, EndTypeOK, SaleTypeOK, BuyTypeOK
     DEF Step, NotFetched, NotChecked, Labels
<1>4. ASSUME NEW p \in Pair, StopFills(p) PROVE TypeOK'
  BY <1>4, SaleTypeOK
<1>5. CASE UNCHANGED vars
  BY <1>5 DEF vars, account, memory, limits, buying, TypeOK
<1> QED BY <1>1, <1>2, <1>3, <1>4, <1>5 DEF Next

(* Every variable keeps its type, and a pair has either the coins or the   *)
(* USDC of its last sale, whatever the pairs, the limits and the exchange. *)
THEOREM Typing == Spec => []TypeOK
BY InitTypeOK, NextTypeOK, PTL DEF Spec

-----------------------------------------------------------------------------
(* The allocation of the USDC *)

LEMMA NextLocked == TypeOK /\ Locked /\ [Next]_vars => Locked'
<1> SUFFICES ASSUME TypeOK, Locked, [Next]_vars PROVE Locked'
  OBVIOUS
<1>1. CASE Dispatch
  BY <1>1 DEF Dispatch, Locked, InSection
<1>2. CASE NewDay \/ UNCHANGED vars
  BY <1>2 DEF NewDay, vars, buying, Locked, InSection
<1>3. ASSUME NEW p \in Pair, Step(p) PROVE Locked'
  <2>1. CASE Gate(p)
    BY <2>1 DEF Gate, Goto, buying, TypeOK, Locked, InSection
  <2>2. CASE Count(p)
    BY <2>2 DEF Count, Goto, buying, TypeOK, Locked, InSection
  <2>3. CASE Fetched(p)
    BY <2>3 DEF Fetched, Goto, buying, TypeOK, Locked, InSection
  <2>4. CASE NotFetched(p) \/ NotSold(p) \/ NotChecked(p)
    BY <2>4 DEF NotFetched, NotSold, NotChecked, Leave, Goto, buying, TypeOK, Locked, InSection
  <2>5. CASE Zero(p) \/ Filled(p) \/ Book(p)
    BY <2>5 DEF Zero, Filled, Book, Goto, buying, TypeOK, Locked, InSection
  <2>6. CASE Sell(p)
    BY <2>6 DEF Sell, Goto, buying, TypeOK, Locked, InSection
  <2>7. CASE Check(p)
    BY <2>7 DEF Check, Goto, buying, TypeOK, Locked, InSection
  <2>8. CASE Acquire(p)
    BY <2>8, FleetAssumption DEF Acquire, Goto, TypeOK, Locked, InSection
  <2>9. CASE Size(p)
    BY <2>9 DEF Size, Goto, TypeOK, Locked, InSection
  <2>10. CASE NotSized(p)
    BY <2>10 DEF NotSized, Release, Goto, TypeOK, Locked, InSection
  <2>11. CASE Buy(p)
    BY <2>11 DEF Buy, Release, Goto, TypeOK, Locked, InSection
  <2>12. CASE BuyUnseen(p) \/ NotBought(p)
    BY <2>12 DEF BuyUnseen, NotBought, Release, Goto, TypeOK, Locked, InSection
  <2>13. CASE Protect(p) \/ Rollback(p) \/ Halt(p)
    BY <2>13 DEF Protect, Rollback, Halt, Goto, buying, TypeOK, Locked, InSection
  <2> QED
    BY <1>3, <2>1, <2>2, <2>3, <2>4, <2>5, <2>6, <2>7, <2>8, <2>9, <2>10, <2>11,
       <2>12, <2>13 DEF Step
<1>4. ASSUME NEW p \in Pair, StopFills(p) PROVE Locked'
  BY <1>4 DEF StopFills, buying, Locked, InSection
<1> QED BY <1>1, <1>2, <1>3, <1>4 DEF Next

(* Whoever is not about to order, or has no fresh balance, promises        *)
(* nothing; USDC that comes in breaks no promise                           *)
LEMMA KeepsQuote ==
    ASSUME TypeOK, NoOverdraw, free' \in Nat, free' >= free, want' = want, fresh' = fresh,
           \A q \in Pair : pc'[q] = "order" => pc[q] = "order"
    PROVE  NoOverdraw'
BY DEF TypeOK, NoOverdraw

(* The holder of the lock leaves the section: nobody is about to order *)
LEMMA LeavesSection ==
    ASSUME TypeOK, Locked, NEW p \in Pair, pc[p] = "order" \/ pc[p] = "size",
           NEW l \in Labels \ {"order"}, pc' = [pc EXCEPT ![p] = l]
    PROVE  NoOverdraw'
<1>1. \A q \in Pair : q # p => pc[q] # "order"
  BY DEF Locked, InSection
<1> QED BY <1>1 DEF TypeOK, NoOverdraw

LEMMA NextNoOverdraw == TypeOK /\ Locked /\ NoOverdraw /\ [Next]_vars => NoOverdraw'
<1> SUFFICES ASSUME TypeOK, Locked, NoOverdraw, [Next]_vars PROVE NoOverdraw'
  OBVIOUS
<1>0. free \in Nat /\ free >= free
  BY DEF TypeOK
<1>1. CASE Dispatch
  BY <1>1 DEF Dispatch, NoOverdraw
<1>2. CASE NewDay \/ UNCHANGED vars
  BY <1>2 DEF NewDay, vars, account, buying, NoOverdraw
<1>3. ASSUME NEW p \in Pair, Step(p) PROVE NoOverdraw'
  <2>1. CASE Gate(p) \/ Count(p) \/ Fetched(p) \/ Zero(p) \/ Filled(p) \/ Book(p)
    BY <2>1, <1>0, KeepsQuote
       DEF Gate, Count, Fetched, Zero, Filled, Book, Goto, account, buying, TypeOK
  <2>2. CASE NotFetched(p) \/ NotSold(p) \/ NotChecked(p)
    BY <2>2, <1>0, KeepsQuote
       DEF NotFetched, NotSold, NotChecked, Leave, Goto, account, buying, TypeOK
  <2>3. CASE Sell(p) \/ Rollback(p) \/ Halt(p)
    <3>1. free' \in Nat /\ free' >= free
      BY <2>3, MaybeSoldTypes DEF Sell, Rollback, Halt, SoldBack
    <3> QED
      BY <2>3, <3>1, KeepsQuote DEF Sell, Rollback, Halt, Goto, buying, TypeOK
  <2>4. CASE Check(p) \/ Protect(p)
    BY <2>4, <1>0, KeepsQuote DEF Check, Protect, Goto, account, buying, TypeOK
  <2>5. CASE Acquire(p)
    BY <2>5, <1>0, KeepsQuote DEF Acquire, Goto, account, TypeOK
  <2>6. CASE Size(p)
    <3>1. free' = free /\ (fresh'[p] => want'[p] <= free)
      BY <2>6 DEF Size, account, TypeOK
    <3>2. \A q \in Pair : q # p => pc'[q] # "order"
      BY <2>6 DEF Size, Goto, TypeOK, Locked, InSection
    <3> QED
      BY <3>1, <3>2 DEF NoOverdraw
  <2>7. CASE Buy(p) \/ BuyUnseen(p) \/ NotBought(p) \/ NotSized(p)
    BY <2>7, LeavesSection DEF Buy, BuyUnseen, NotBought, NotSized, Goto, Labels
  <2> QED
    BY <1>3, <2>1, <2>2, <2>3, <2>4, <2>5, <2>6, <2>7 DEF Step
<1>4. ASSUME NEW p \in Pair, StopFills(p) PROVE NoOverdraw'
  <2>1. free' \in Nat /\ free' >= free
    BY <1>4, SoldTypes DEF StopFills
  <2> QED
    BY <1>4, <2>1, KeepsQuote DEF StopFills, buying
<1> QED BY <1>1, <1>2, <1>3, <1>4 DEF Next

(* Two pairs never spend the same USDC: an order sized on a balance that   *)
(* was read under the lock never asks for more than the account holds when *)
(* it reaches the exchange (_execute_buy).                                 *)
THEOREM SpendsOnce == Spec => []NoOverdraw
<1>1. Init => Locked /\ NoOverdraw
  BY DEF Init, Locked, InSection, NoOverdraw
<1> QED
  BY <1>1, Typing, NextLocked, NextNoOverdraw, PTL DEF Spec

-----------------------------------------------------------------------------
(* The limits *)

Buying == {"wait", "size", "order", "protect"}

(* A thread that buys knows of no limit; after its step none binds *)
LEMMA NoneBars ==
    ASSUME TypeOK, Bars, NEW p \in Pair, pc[p] \in Buying
    PROVE  barred = {}
<1>1. \A l \in Limits : l \notin barred
  BY DEF Bars, BarsHalt, BarsFull, BarsLoss, Limits, Buying
<1> QED BY <1>1 DEF TypeOK

LEMMA BuyingBars ==
    ASSUME TypeOK, Bars, NEW p \in Pair, pc[p] \in Buying, barred' = barred
    PROVE  Bars'
BY NoneBars DEF Bars, BarsHalt, BarsFull, BarsLoss

(* A thread past the number of positions is in a dispatch that began with  *)
(* the loss limit at most                                                  *)
LEMMA LateBars ==
    ASSUME Bars, NEW p \in Pair, pc[p] \notin {"idle", "gate", "count"}, barred' \subseteq barred
    PROVE  BarsHalt' /\ BarsFull'
BY DEF Bars, BarsHalt, BarsFull

(* The step of a thread that does not go on to buy *)
LEMMA LossKept ==
    ASSUME TypeOK, Bars, NEW p \in Pair, NEW l \in Labels \ Buying,
           pc' = [pc EXCEPT ![p] = l],
           barred' \subseteq barred, "loss" \in barred' => LossReached'
    PROVE  BarsLoss'
BY DEF TypeOK, Bars, BarsLoss, Buying

(* Nothing the limits look at moves *)
LEMMA LimitsKept ==
    ASSUME UNCHANGED memory, UNCHANGED limits
    PROVE  Full' = Full /\ LossReached' = LossReached
BY DEF memory, limits, Full, Open, LossReached, Exceeds

LEMMA StillLess == ASSUME Still PROVE barred' \subseteq barred /\ ("loss" \in barred' => LossReached')
BY DEF Still

LEMMA NextBars == TypeOK /\ Bars /\ [Next]_vars => Bars'
<1> SUFFICES ASSUME TypeOK, Bars, [Next]_vars PROVE Bars'
  OBVIOUS
<1>1. CASE Dispatch
  <2>1. Full' = Full /\ LossReached' = LossReached /\ halted' = halted
    BY <1>1, LimitsKept DEF Dispatch, limits
  <2>2. \A p \in Pair : pc'[p] = "gate"
    BY <1>1 DEF Dispatch
  <2>3. /\ "halt" \in barred' => halted
        /\ "full" \in barred' => Full
        /\ "loss" \in barred' => LossReached
    BY <1>1 DEF Dispatch
  <2> QED BY <2>1, <2>2, <2>3 DEF Bars, BarsHalt, BarsFull, BarsLoss
<1>2. CASE NewDay
  <2>1. barred' \subseteq barred /\ ("loss" \in barred' => LossReached')
    BY <1>2, StillLess DEF NewDay
  <2>2. Full' = Full /\ halted' = halted /\ pc' = pc
    BY <1>2 DEF NewDay, memory, Full, Open
  <2> QED BY <2>1, <2>2 DEF Bars, BarsHalt, BarsFull, BarsLoss
<1>3. ASSUME NEW p \in Pair, Step(p) PROVE Bars'
  <2>1. CASE Gate(p)
    <3>1. Full' = Full /\ LossReached' = LossReached /\ halted' = halted /\ barred' = barred
      BY <2>1, LimitsKept DEF Gate, limits
    <3>2. pc' = [pc EXCEPT ![p] = IF halted THEN "idle" ELSE "count"]
      BY <2>1 DEF Gate, Goto
    <3> QED BY <3>1, <3>2 DEF TypeOK, Bars, BarsHalt, BarsFull, BarsLoss
  <2>2. CASE Count(p)
    <3>1. barred' \subseteq barred /\ ("loss" \in barred' => LossReached')
      BY <2>2, StillLess DEF Count
    <3>2. pc[p] = "count" /\ halted' = halted
      BY <2>2 DEF Count
    <3>3. Full => Full' /\ pc' = [pc EXCEPT ![p] = "idle"]
      BY <2>2 DEF Count, Goto, memory, Full, Open
    <3>4. \E l \in {"idle", "fetch"} : pc' = [pc EXCEPT ![p] = l]
      BY <2>2 DEF Count, Goto
    <3>5. BarsHalt'
      BY <3>1, <3>2 DEF Bars, BarsHalt
    <3>6. BarsFull'
      BY <3>1, <3>3 DEF TypeOK, Bars, BarsFull
    <3>7. BarsLoss'
      BY <3>1, <3>4, LossKept DEF Labels, Buying
    <3> QED BY <3>5, <3>6, <3>7 DEF Bars
  <2>3. CASE Fetched(p)
    <3>1. \E l \in Labels \ Buying : pc' = [pc EXCEPT ![p] = l]
      BY <2>3 DEF Fetched, Goto, Labels, Buying
    <3>2. pc[p] = "fetch" /\ barred' = barred /\ LossReached' = LossReached
      BY <2>3 DEF Fetched, limits, LossReached, Exceeds
    <3> QED BY <3>1, <3>2, LateBars, LossKept DEF Bars, BarsLoss
  <2>4. CASE NotFetched(p) \/ NotSold(p) \/ NotChecked(p)
    <3>1. pc' = [pc EXCEPT ![p] = "idle"] /\ barred' = barred
      BY <2>4 DEF NotFetched, NotSold, NotChecked, Leave, Goto
    <3>2. pc[p] \notin {"idle", "gate", "count"}
      BY <2>4 DEF NotFetched, NotSold, NotChecked, Leave
    <3>3. LossReached' = LossReached
      BY <2>4 DEF NotFetched, NotSold, NotChecked, Leave, limits, LossReached, Exceeds
    <3> QED BY <3>1, <3>2, <3>3, LateBars, LossKept DEF Bars, BarsLoss, Labels, Buying
  <2>5. CASE Zero(p) \/ Filled(p) \/ Book(p)
    <3>1. barred' \subseteq barred /\ ("loss" \in barred' => LossReached')
      BY <2>5, StillLess DEF Zero, Filled, Book
    <3>2. pc' = [pc EXCEPT ![p] = "idle"] /\ pc[p] \notin {"idle", "gate", "count"}
      BY <2>5 DEF Zero, Filled, Book, Goto
    <3> QED BY <3>1, <3>2, LateBars, LossKept DEF Bars, Labels, Buying
  <2>6. CASE Sell(p)
    <3>1. barred' = barred /\ \E l \in Labels \ Buying : pc' = [pc EXCEPT ![p] = l]
      BY <2>6 DEF Sell, Goto, Labels, Buying
    <3>2. pc[p] = "manage" /\ LossReached' = LossReached
      BY <2>6 DEF Sell, limits, LossReached, Exceeds
    <3> QED BY <3>1, <3>2, LateBars, LossKept DEF Bars, BarsLoss, Labels, Buying
  <2>7. CASE Check(p)
    <3>1. "loss" \notin barred /\ barred' = barred /\ pc[p] = "check"
      BY <2>7 DEF Check, Bars, BarsLoss
    <3> QED BY <3>1, LateBars DEF Bars, BarsLoss
  <2>8. CASE \/ Acquire(p) \/ Size(p) \/ NotSized(p) \/ Buy(p) \/ BuyUnseen(p)
             \/ NotBought(p) \/ Protect(p) \/ Rollback(p) \/ Halt(p)
    <3>1. pc[p] \in Buying
      BY <2>8 DEF Acquire, Size, NotSized, Buy, BuyUnseen, NotBought, Protect, Rollback,
                  Halt, Buying
    <3>2. barred' = barred
      BY <2>8 DEF Acquire, Size, NotSized, Buy, BuyUnseen, NotBought, Protect, Rollback, Halt
    <3> QED BY <3>1, <3>2, BuyingBars
  <2> QED
    BY <1>3, <2>1, <2>2, <2>3, <2>4, <2>5, <2>6, <2>7, <2>8 DEF Step
<1>4. ASSUME NEW p \in Pair, StopFills(p) PROVE Bars'
  <2>1. Full' = Full /\ LossReached' = LossReached /\ UNCHANGED <<halted, pc, barred>>
    BY <1>4, LimitsKept DEF StopFills, limits
  <2> QED BY <2>1 DEF Bars, BarsHalt, BarsFull, BarsLoss
<1>5. CASE UNCHANGED vars
  <2>1. Full' = Full /\ LossReached' = LossReached /\ UNCHANGED <<halted, pc, barred>>
    BY <1>5, LimitsKept DEF vars, limits
  <2> QED BY <2>1 DEF Bars, BarsHalt, BarsFull, BarsLoss
<1> QED BY <1>1, <1>2, <1>3, <1>4, <1>5 DEF Next

(* Only an order takes the USDC of the sales *)
LEMMA OnlyOrdersSpend ==
    ASSUME TypeOK, [Next]_vars, NEW p \in Pair, sold[p] > 0, sold'[p] = 0
    PROVE  \E q \in Pair : pc[q] = "order"
<1> SUFFICES ASSUME \A q \in Pair : pc[q] # "order" PROVE FALSE
  OBVIOUS
<1>0. sold' # sold
  BY DEF TypeOK
<1>1. ASSUME NEW q \in Pair, Sell(q) \/ Rollback(q) \/ Halt(q) \/ StopFills(q) PROVE FALSE
  BY <1>1, MaybeSoldTypes DEF Sell, Rollback, Halt, SoldBack, StopFills, TypeOK
<1>2. ASSUME NEW q \in Pair, Step(q) PROVE FALSE
  <2>1. CASE Gate(q) \/ Count(q) \/ Fetched(q) \/ Zero(q) \/ Filled(q) \/ Book(q)
    BY <1>0, <2>1 DEF Gate, Count, Fetched, Zero, Filled, Book, account
  <2>2. CASE NotFetched(q) \/ NotSold(q) \/ NotChecked(q)
    BY <1>0, <2>2 DEF NotFetched, NotSold, NotChecked, Leave, account
  <2>3. CASE Check(q) \/ Acquire(q) \/ Size(q) \/ NotSized(q) \/ Protect(q)
    BY <1>0, <2>3 DEF Check, Acquire, Size, NotSized, Protect, account
  <2>4. CASE Buy(q) \/ BuyUnseen(q) \/ NotBought(q)
    BY <2>4 DEF Buy, BuyUnseen, NotBought
  <2> QED BY <1>1, <1>2, <2>1, <2>2, <2>3, <2>4 DEF Step
<1> QED
  BY <1>0, <1>1, <1>2 DEF Next, Dispatch, NewDay, vars, account

(* A limit that is in force when a dispatch begins, and stays in force,    *)
(* lets no pair buy in it, however the threads interleave: the emergency   *)
(* halt, the number of open positions, the loss of the day.                *)
THEOREM LimitsHold == Spec => LimitsBind
<1>1. Init => Bars
  BY DEF Init, Bars, BarsHalt, BarsFull, BarsLoss
<1>2. TypeOK /\ Bars /\ [Next]_vars =>
        [\A p \in Pair : sold[p] > 0 /\ sold'[p] = 0 => barred = {}]_vars
  <2> SUFFICES ASSUME TypeOK, Bars, [Next]_vars, NEW p \in Pair, sold[p] > 0, sold'[p] = 0
               PROVE  barred = {}
    OBVIOUS
  <2>1. PICK q \in Pair : pc[q] = "order"
    BY OnlyOrdersSpend
  <2> QED BY <2>1, NoneBars DEF Buying
<1> QED
  BY <1>1, <1>2, Typing, NextBars, PTL DEF Spec, LimitsBind
=============================================================================
