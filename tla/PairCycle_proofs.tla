-------------------------- MODULE PairCycle_proofs --------------------------
(***************************************************************************)
(* Theorems of PairCycle, for every value of the constants.                *)
(***************************************************************************)
EXTENDS PairCycle, TLAPS

USE DEF Ended, Unused

(* What the other pairs do changes nothing of this one. *)
LEMMA PairSteps == Spec => Init /\ [][PairNext]_pairVars
<1>1. [Next]_vars => [PairNext]_pairVars BY DEF Next, OthersTrade, vars
<1> QED BY <1>1, PTL DEF Spec

(* Rounding down to a step gives an integer. *)
LEMMA FloorType == ASSUME NEW q \in Int PROVE Floor(q) \in Int
<1>1. Step \in Nat \ {0} BY SpotAssumption
<1> QED BY <1>1 DEF Floor

(* Each call of the exchange keeps the types of the exchange. *)
LEMMA ReadCallType ==
    ASSUME ExTypeOK, NEW r, ReadCall(r), UNCHANGED <<free, locked, ord, hist>>
    PROVE  ExTypeOK'
<1> QED BY SpotAssumption DEF ExTypeOK, ReadCall, Answered

LEMMA CancelCallType ==
    ASSUME ExTypeOK, NEW i, NEW r, CancelCall(i, r)
    PROVE  ExTypeOK'
<1>1. faults' \in 0..MaxFaults
  BY SpotAssumption DEF ExTypeOK, CancelCall, Answered
<1>2. hist' = hist BY DEF CancelCall
<1>3. CASE r \in Effective
  <2>1. i \in StopIds BY <1>3 DEF CancelCall, Answered, Live, Effective
  <2>2. free' = free + ord[i].qty /\ locked' = locked - ord[i].qty
        /\ ord' = [ord EXCEPT ![i] = Ended("CANCELED")]
    BY <1>3 DEF CancelCall
  <2>3. ord[i] \in [st : StopStates, qty : Nat, stop : Int, late : BOOLEAN]
    BY <2>1 DEF ExTypeOK
  <2>4. free' \in Nat /\ locked' \in Int
    <3>1. free \in Nat /\ locked \in Int BY DEF ExTypeOK
    <3>2. ord[i].qty \in Nat BY ONLY <2>3
    <3>3. free + ord[i].qty \in Nat /\ locked - ord[i].qty \in Int BY ONLY <3>1, <3>2
    <3> QED BY ONLY <2>2, <3>3
  <2>5. ord' \in [StopIds -> [st : StopStates, qty : Nat, stop : Int, late : BOOLEAN]]
    BY <2>1, <2>2, <2>3 DEF ExTypeOK, StopStates
  <2> QED BY <1>1, <1>2, <2>4, <2>5 DEF ExTypeOK
<1>4. CASE r \notin Effective
  <2>1. UNCHANGED <<ord, free, locked>> BY <1>4 DEF CancelCall
  <2> QED BY <1>1, <1>2, <2>1 DEF ExTypeOK
<1> QED BY <1>3, <1>4

LEMMA PlaceStopCallType ==
    ASSUME ExTypeOK, NEW i \in StopIds, NEW q \in Int, NEW price \in Int, NEW r,
           PlaceStopCall(i, q, price, r)
    PROVE  ExTypeOK'
<1>1. faults' \in 0..MaxFaults
  BY SpotAssumption DEF ExTypeOK, PlaceStopCall, Answered
<1>2. CASE r \in Effective
  <2>1. q >= MinQty /\ q <= free
    BY <1>2 DEF PlaceStopCall, Answered, Effective
  <2>2. q \in Nat /\ free - q \in Nat /\ locked + q \in Int
    BY <2>1, SpotAssumption DEF ExTypeOK
  <2>3. /\ ord' = [ord EXCEPT ![i] = [st |-> "LIVE", qty |-> q, stop |-> price, late |-> TRUE]]
        /\ free' = free - q
        /\ locked' = locked + q
        /\ hist' = [hist EXCEPT !.newest = FALSE]
    BY <1>2 DEF PlaceStopCall
  <2>4. ord' \in [StopIds -> [st : StopStates, qty : Nat, stop : Int, late : BOOLEAN]]
    BY <2>2, <2>3 DEF ExTypeOK, StopStates
  <2>5. hist' \in [side : {"BUY", "SELL"}, px : Int, bought : Nat, sales : Seq(Nat),
                   newest : BOOLEAN]
    BY <2>3 DEF ExTypeOK
  <2> QED BY <1>1, <2>2, <2>3, <2>4, <2>5 DEF ExTypeOK
<1>3. CASE r \notin Effective
  <2>1. UNCHANGED <<ord, free, locked, hist>> BY <1>3 DEF PlaceStopCall
  <2> QED BY <1>1, <2>1 DEF ExTypeOK
<1> QED BY <1>2, <1>3

LEMMA MarketSellCallType ==
    ASSUME ExTypeOK, NEW q \in Int, NEW r, MarketSellCall(q, r)
    PROVE  ExTypeOK'
<1> DEFINE H == [side : {"BUY", "SELL"}, px : Int, bought : Nat, sales : Seq(Nat),
                 newest : BOOLEAN]
<1>1. faults' \in 0..MaxFaults
  BY SpotAssumption DEF ExTypeOK, MarketSellCall, Answered
<1>2. UNCHANGED <<ord, locked>> BY DEF MarketSellCall
<1>3. CASE r \in Effective
  <2>1. q >= MinQty /\ q <= free
    BY <1>3 DEF MarketSellCall, Answered, Effective
  <2>2. q \in Nat /\ free - q \in Nat BY <2>1, SpotAssumption DEF ExTypeOK
  <2>3. free' = free - q /\ hist' = [hist EXCEPT !.side = "SELL", !.newest = FALSE,
                                              !.sales = Append(@, q)]
    BY <1>3 DEF MarketSellCall
  <2>4. hist \in H BY DEF ExTypeOK
  <2>5. Append(hist.sales, q) \in Seq(Nat) BY <2>2, <2>4
  <2>6. hist' \in H BY <2>3, <2>4, <2>5
  <2> QED BY <1>1, <1>2, <2>2, <2>3, <2>6 DEF ExTypeOK
<1>4. CASE r \notin Effective
  <2>1. free' = free BY <1>4 DEF MarketSellCall
  <2>2. hist' \in H BY <1>4 DEF MarketSellCall, ExTypeOK
  <2> QED BY <1>1, <1>2, <2>1, <2>2 DEF ExTypeOK
<1> QED BY <1>3, <1>4

LEMMA MarketBuyCallType ==
    ASSUME ExTypeOK, NEW q \in Nat, NEW price \in Int, NEW r, MarketBuyCall(q, price, r)
    PROVE  ExTypeOK'
<1> DEFINE H == [side : {"BUY", "SELL"}, px : Int, bought : Nat, sales : Seq(Nat),
                 newest : BOOLEAN]
<1>1. faults' \in 0..MaxFaults
  BY SpotAssumption DEF ExTypeOK, MarketBuyCall, Answered
<1>2. free' \in Nat /\ locked' = locked BY DEF MarketBuyCall, ExTypeOK
<1>3. hist' \in H
  <2>1. <<>> \in Seq(Nat) OBVIOUS
  <2> QED BY <2>1 DEF MarketBuyCall, ExTypeOK
<1>4. ord' \in [StopIds -> [st : StopStates, qty : Nat, stop : Int, late : BOOLEAN]]
  BY DEF MarketBuyCall, ExTypeOK
<1> QED BY <1>1, <1>2, <1>3, <1>4 DEF ExTypeOK

LEMMA StopFillsType ==
    ASSUME ExTypeOK, NEW i \in StopIds, StopFills(i)
    PROVE  ExTypeOK'
<1> DEFINE O == [st : StopStates, qty : Nat, stop : Int, late : BOOLEAN]
<1>1. ord[i] \in O BY DEF ExTypeOK
<1>2. ord' \in [StopIds -> O] BY <1>1 DEF StopFills, ExTypeOK, StopStates
<1>3. locked' \in Int BY <1>1 DEF StopFills, ExTypeOK
<1>4. Append(hist.sales, ord[i].qty) \in Seq(Nat) BY <1>1 DEF ExTypeOK
<1>5. hist' \in [side : {"BUY", "SELL"}, px : Int, bought : Nat, sales : Seq(Nat),
                 newest : BOOLEAN]
  BY <1>4 DEF StopFills, ExTypeOK
<1> QED BY <1>2, <1>3, <1>5 DEF StopFills, ExTypeOK

LEMMA FillAgesType ==
    ASSUME ExTypeOK, NEW i \in StopIds, FillAges(i)
    PROVE  ExTypeOK'
<1> DEFINE O == [st : StopStates, qty : Nat, stop : Int, late : BOOLEAN]
<1>1. ord[i] \in O BY DEF ExTypeOK
<1>2. ord' \in [StopIds -> O] BY <1>1 DEF FillAges, ExTypeOK, StopStates
<1> QED BY <1>2 DEF FillAges, ExTypeOK

-----------------------------------------------------------------------------
(* The helpers of the cycle and their types.                               *)

LEMMA ConstantTypes ==
    /\ Closed \in PairStates
    /\ \A side \in Sides : Reset(side) \in PairStates
    /\ NoCtx \in Snapshots
    /\ NoJob \in Jobs
    /\ MaxTries \in 1..Larger(3, MaxTries)
<1>1. MaxTries \in Nat \ {0} BY CycleAssumption
<1>2. Closed \in PairStates BY DEF Closed, PairStates, Sides, Pos
<1>3. \A side \in Sides : Reset(side) \in PairStates BY <1>2 DEF Reset, PairStates
<1>4. NoCtx \in Snapshots BY DEF NoCtx, Snapshots
<1>5. 1 \in 1..Larger(3, MaxTries) /\ MaxTries \in 1..Larger(3, MaxTries)
  BY <1>1 DEF Larger
<1>6. NoJob \in Jobs BY <1>5 DEF NoJob, Jobs, Returns
<1> QED BY <1>2, <1>3, <1>4, <1>5, <1>6

LEMMA ReturnLabels == Returns \subseteq Labels
BY DEF Returns, Labels

(* The levels the cycle computes are integers. *)
LEMMA LevelTypes ==
    ASSUME NEW s \in PairStates, ctx \in Snapshots
    PROVE  /\ SoftStop(s) \in Int
           /\ EffectiveStop(s) \in Int
           /\ HighWater(s) \in Int
           /\ HighWater(s) - TrailDist \in Int
           /\ Activates(s) \in BOOLEAN
           /\ BreaksEven(s) \in BOOLEAN
<1>1. s.stop \in Int /\ s.stopE \in Int /\ s.trail \in Int /\ s.max \in Int
      /\ s.entry \in Int /\ s.act \in Int /\ s.on \in BOOLEAN /\ s.be \in BOOLEAN
  BY DEF PairStates
<1>2. ctx.px \in Int BY DEF Snapshots
<1>3. TrailDist \in Nat BY CycleAssumption
<1>4. HighWater(s) \in Int BY <1>1, <1>2 DEF HighWater, Larger
<1> QED BY <1>1, <1>2, <1>3, <1>4 DEF SoftStop, EffectiveStop, Activates, BreaksEven

LEMMA PartialQtyType ==
    ASSUME NEW k \in Pos, NEW q \in Int
    PROVE  PartialQty(k, q) \in Int
<1>1. Pct[k] \in Nat BY CycleAssumption DEF Pos
<1>2. (q * Pct[k]) \div 100 \in Int BY <1>1
<1> QED BY <1>2, FloorType DEF PartialQty

(* Ending the cycle. *)
LEMMA EndCycleType ==
    ASSUME EndCycle
    PROVE  pc' \in Labels /\ ctx' \in Snapshots /\ job' \in Jobs
BY ConstantTypes DEF EndCycle, Labels

(* Placing a stop order, and what the bot remembers of it. *)
LEMMA PlaceType ==
    ASSUME PairTypeOK, NEW q \in Int, NEW price \in Int, NEW r, Place(q, price, r)
    PROVE  ExTypeOK' /\ ps' \in PairStates
<1>1. PICK i \in StopIds :
        /\ PlaceStopCall(i, q, price, r)
        /\ ps' = IF r = "ok" THEN [ps EXCEPT !.slId = i, !.placed = TRUE] ELSE ps
  BY DEF Place
<1>2. ExTypeOK' BY <1>1, PlaceStopCallType DEF PairTypeOK
<1>3. ps \in PairStates BY DEF PairTypeOK
<1>4. ps' \in PairStates BY <1>1, <1>3 DEF PairStates
<1> QED BY <1>2, <1>4

LEMMA CancelForSaleType ==
    ASSUME PairTypeOK, NEW done \in Labels, NEW failed \in Labels, CancelForSale(done, failed)
    PROVE  PairTypeOK'
<1> USE DEF Goto
<1>1. ps \in PairStates BY DEF PairTypeOK
<1>2. [ps EXCEPT !.slId = NoId, !.placed = FALSE] \in PairStates BY <1>1 DEF PairStates
<1>3. CASE ps.slId = NoId
  BY <1>3 DEF CancelForSale, PairTypeOK, ExTypeOK, exVars, Keep
<1>4. CASE ps.slId # NoId
  <2>1. PICK r : /\ CancelCall(ps.slId, r)
                 /\ IF r = "ok"
                      THEN /\ ps' = [ps EXCEPT !.slId = NoId, !.placed = FALSE]
                           /\ pc' = done
                      ELSE UNCHANGED ps /\ pc' = failed
    BY <1>4 DEF CancelForSale
  <2>2. ExTypeOK' BY <2>1, CancelCallType DEF PairTypeOK
  <2>3. ps' \in PairStates /\ pc' \in Labels BY <1>1, <1>2, <2>1
  <2> QED BY <2>2, <2>3 DEF CancelForSale, PairTypeOK, Keep
<1> QED BY <1>3, <1>4

LEMMA RereadType ==
    ASSUME PairTypeOK, NEW done \in Labels, NEW failed \in Labels, Reread(done, failed)
    PROVE  PairTypeOK'
<1> USE DEF Goto
<1>1. PICK r : /\ ReadCall(r)
               /\ IF r = "ok"
                    THEN /\ ctx' = [ctx EXCEPT !.free = free, !.locked = locked, !.tot = Held]
                         /\ pc' = done
                    ELSE UNCHANGED ctx /\ pc' = failed
  BY DEF Reread
<1>2. UNCHANGED <<free, locked, ord, hist, ps, job, cool, halt>> BY DEF Reread, Keep
<1>3. ExTypeOK' BY <1>1, <1>2, ReadCallType DEF PairTypeOK
<1>4. free \in Int /\ locked \in Int /\ Held \in Int BY DEF PairTypeOK, ExTypeOK, Held
<1>5. ctx' \in Snapshots BY <1>1, <1>4 DEF PairTypeOK, Snapshots
<1>6. pc' \in Labels BY <1>1
<1> QED BY <1>2, <1>3, <1>5, <1>6 DEF PairTypeOK

-----------------------------------------------------------------------------
(* Every step keeps the types.  The actions are taken in the order of the  *)
(* cycle, so that each lemma covers one function of the code.              *)

LEMMA GateTypes ==
    ASSUME PairTypeOK, CycleStart \/ HaltedCycle \/ FullCycle \/ NoPoll \/ Poll
    PROVE  PairTypeOK'
<1> USE DEF Goto, Keep
<1>0. ps \in PairStates /\ "poll" \in Labels /\ "fetch" \in Labels
  BY DEF PairTypeOK, Labels
<1>1. CASE CycleStart
  <2>1. CASE ps.side = "BUY" /\ ~ps.placed /\ ps.slId # NoId
    <3>1. PICK r : /\ ReadCall(r)
                   /\ ps' = [ps EXCEPT !.placed = (r = "ok" /\ ps.slId \in Live)]
      BY <1>1, <2>1 DEF CycleStart
    <3>2. ExTypeOK' BY <1>1, <3>1, ReadCallType DEF CycleStart, PairTypeOK
    <3>3. (r = "ok" /\ ps.slId \in Live) \in BOOLEAN OBVIOUS
    <3>4. ps' \in PairStates BY <1>0, <3>1, <3>3 DEF PairStates
    <3> QED BY <1>0, <1>1, <3>2, <3>4 DEF CycleStart, PairTypeOK
  <2>2. CASE ~(ps.side = "BUY" /\ ~ps.placed /\ ps.slId # NoId)
    BY <1>0, <1>1, <2>2 DEF CycleStart, PairTypeOK, ExTypeOK
  <2> QED BY <2>1, <2>2
<1>2. CASE HaltedCycle \/ FullCycle
  BY <1>2 DEF HaltedCycle, FullCycle, pairVars, exVars, botVars, PairTypeOK, ExTypeOK
<1>3. CASE NoPoll
  BY <1>0, <1>3 DEF NoPoll, exVars, PairTypeOK, ExTypeOK
<1>4. CASE Poll
  <2>1. PICK r : /\ ReadCall(r)
                 /\ IF r = "ok" /\ HasFilled(ps.slId)
                      THEN /\ ps' = Reset("SELL")
                           /\ cool' = (cool \/ ord[ps.slId].st = "FILLED")
                      ELSE UNCHANGED <<ps, cool>>
    BY <1>4 DEF Poll
  <2>2. ExTypeOK' BY <1>4, <2>1, ReadCallType DEF Poll, PairTypeOK
  <2>3. ps' \in PairStates BY <1>0, <2>1, ConstantTypes DEF Sides
  <2>4. cool' \in BOOLEAN BY <2>1 DEF PairTypeOK
  <2> QED BY <1>0, <1>4, <2>2, <2>3, <2>4 DEF Poll, PairTypeOK
<1> QED BY <1>1, <1>2, <1>3, <1>4

LEMMA SyncedEntryType ==
    ASSUME NEW s \in PairStates, hist.px \in Int
    PROVE  SyncedEntry(s) \in PairStates
<1> DEFINE e == IF s.entry = 0 THEN hist.px ELSE s.entry
           se == IF s.stopE = 0 THEN hist.px - StopDist ELSE s.stopE
           st == IF s.stopE = 0 THEN hist.px - StopDist ELSE s.stop
           a == IF s.act = 0 THEN hist.px + TrailDist ELSE s.act
<1>1. e \in Int /\ se \in Int /\ st \in Int /\ a \in Int
  BY CycleAssumption DEF PairStates
<1> HIDE DEF e, se, st, a
<1>2. [s EXCEPT !.entry = e, !.stopE = se, !.stop = st, !.act = a, !.side = "BUY"]
        \in PairStates
  BY <1>1 DEF PairStates, Sides
<1> QED BY <1>2 DEF SyncedEntry, e, se, st, a

LEMMA FetchTypes ==
    ASSUME PairTypeOK, FetchBalances \/ FetchPrice \/ Sync
    PROVE  PairTypeOK'
<1> USE DEF Goto, Keep
<1>0. "price" \in Labels /\ "sync" \in Labels /\ "trail" \in Labels BY DEF Labels
<1>1. CASE FetchBalances
  <2>1. PICK r : /\ ReadCall(r)
                 /\ IF r = "ok"
                      THEN /\ ctx' = [NoCtx EXCEPT !.free = free, !.locked = locked, !.tot = Held]
                           /\ pc' = "price"
                           /\ UNCHANGED job
                      ELSE EndCycle
    BY <1>1 DEF FetchBalances
  <2>2. ExTypeOK' BY <1>1, <2>1, ReadCallType DEF FetchBalances, PairTypeOK
  <2>3. free \in Int /\ locked \in Int /\ Held \in Int BY DEF PairTypeOK, ExTypeOK, Held
  <2>4. [NoCtx EXCEPT !.free = free, !.locked = locked, !.tot = Held] \in Snapshots
    BY <2>3, ConstantTypes DEF Snapshots
  <2>5. pc' \in Labels /\ ctx' \in Snapshots /\ job' \in Jobs
    BY <1>0, <2>1, <2>4, EndCycleType DEF PairTypeOK
  <2> QED BY <1>1, <2>2, <2>5 DEF FetchBalances, PairTypeOK
<1>2. CASE FetchPrice
  <2>1. PICK r : /\ ReadCall(r)
                 /\ IF r = "ok"
                      THEN /\ \E p \in Prices : ctx' = [ctx EXCEPT !.px = p]
                           /\ pc' = "sync"
                           /\ UNCHANGED job
                      ELSE EndCycle
    BY <1>2 DEF FetchPrice
  <2>2. ExTypeOK' BY <1>2, <2>1, ReadCallType DEF FetchPrice, PairTypeOK
  <2>3. \A p \in Prices : [ctx EXCEPT !.px = p] \in Snapshots
    BY CycleAssumption DEF PairTypeOK, Snapshots
  <2>4. pc' \in Labels /\ ctx' \in Snapshots /\ job' \in Jobs
    BY <1>0, <2>1, <2>3, EndCycleType DEF PairTypeOK
  <2> QED BY <1>2, <2>2, <2>4 DEF FetchPrice, PairTypeOK
<1>3. CASE Sync
  <2>1. PICK r : /\ ReadCall(r)
                 /\ IF r = "ok"
                      THEN /\ ps' = SyncedEntry(SyncedSide(ps))
                           /\ ctx' = [ctx EXCEPT !.newest = hist.newest]
                           /\ pc' = "trail"
                           /\ UNCHANGED job
                      ELSE EndCycle /\ UNCHANGED ps
    BY <1>3 DEF Sync
  <2>2. ExTypeOK' BY <1>3, <2>1, ReadCallType DEF Sync, PairTypeOK
  <2>3. hist.side \in Sides /\ hist.px \in Int /\ hist.newest \in BOOLEAN
    BY DEF PairTypeOK, ExTypeOK, Sides
  <2>4. SyncedSide(ps) \in PairStates BY <2>3 DEF PairTypeOK, SyncedSide, PairStates
  <2>5. SyncedEntry(SyncedSide(ps)) \in PairStates BY <2>3, <2>4, SyncedEntryType
  <2>6. [ctx EXCEPT !.newest = hist.newest] \in Snapshots
    BY <2>3 DEF PairTypeOK, Snapshots
  <2>7. ps' \in PairStates /\ pc' \in Labels /\ ctx' \in Snapshots /\ job' \in Jobs
    BY <1>0, <2>1, <2>5, <2>6, EndCycleType DEF PairTypeOK
  <2> QED BY <1>3, <2>2, <2>7 DEF Sync, PairTypeOK
<1> QED BY <1>1, <1>2, <1>3

LEMMA MoveStopType ==
    ASSUME PairTypeOK, NEW stop \in Int, NEW l \in Returns, MoveStop(stop, l)
    PROVE  job' \in Jobs /\ pc' \in Labels
<1>1. [job EXCEPT !.arg = stop, !.then = l] \in Jobs BY DEF PairTypeOK, Jobs
<1>2. "moveCancel" \in Labels /\ l \in Labels BY ReturnLabels DEF Labels
<1> QED BY <1>1, <1>2 DEF MoveStop, Goto, PairTypeOK

LEMMA TrailTypes ==
    ASSUME PairTypeOK, NoTrailing \/ Trail \/ BreakEven \/ Trailed
    PROVE  PairTypeOK'
<1> USE DEF Goto, Keep
<1>0. ps \in PairStates /\ ctx \in Snapshots BY DEF PairTypeOK
<1>a. /\ {"partial", "even", "trailed"} \subseteq Labels
      /\ {"even", "trailed"} \subseteq Returns
  BY DEF Labels, Returns
<1>1. CASE NoTrailing
  BY <1>1, <1>a DEF NoTrailing, exVars, PairTypeOK, ExTypeOK
<1>2. CASE Trail
  <2> DEFINE level == HighWater(ps) - TrailDist
  <2>1. level \in Int BY <1>0, LevelTypes
  <2>2. [ps EXCEPT !.trail = level] \in PairStates BY <1>0, <2>1 DEF PairStates
  <2>3. ps' \in PairStates /\ job' \in Jobs /\ pc' \in Labels
    BY <1>2, <1>0, <1>a, <2>1, <2>2, MoveStopType DEF Trail, PairTypeOK
  <2> QED BY <1>2, <2>3 DEF Trail, exVars, PairTypeOK, ExTypeOK
<1>3. CASE BreakEven
  <2>1. ps.entry \in Int BY <1>0 DEF PairStates
  <2>2. [ps EXCEPT !.stop = ps.entry] \in PairStates BY <1>0, <2>1 DEF PairStates
  <2>3. ps' \in PairStates /\ job' \in Jobs /\ pc' \in Labels
    BY <1>3, <1>0, <1>a, <2>1, <2>2, MoveStopType DEF BreakEven, PairTypeOK
  <2> QED BY <1>3, <2>3 DEF BreakEven, exVars, PairTypeOK, ExTypeOK
<1>4. CASE Trailed
  <2>1. /\ HighWater(ps) \in Int
        /\ (ps.on \/ Activates(ps)) \in BOOLEAN
        /\ (ps.be \/ BreaksEven(ps)) \in BOOLEAN
    BY <1>0, LevelTypes DEF PairStates
  <2>2. ps' \in PairStates BY <1>4, <1>0, <2>1 DEF Trailed, PairStates
  <2> QED BY <1>4, <1>a, <2>2, ConstantTypes DEF Trailed, exVars, PairTypeOK, ExTypeOK
<1> QED BY <1>1, <1>2, <1>3, <1>4

LEMMA MoveTypes ==
    ASSUME PairTypeOK, MoveCancel \/ MovePlace \/ Restore
    PROVE  PairTypeOK'
<1> USE DEF Goto, Keep
<1>0. ps \in PairStates /\ ctx.tot \in Int /\ job.arg \in Int /\ job.then \in Labels
  BY ReturnLabels DEF PairTypeOK, Snapshots, Jobs
<1>a. {"movePlace", "restore"} \subseteq Labels BY DEF Labels
<1>b. Floor(ctx.tot) \in Int /\ SoftStop(ps) \in Int
  BY <1>0, FloorType, LevelTypes DEF PairTypeOK
<1>c. Larger(Floor(ctx.tot), MinQty) \in Int BY <1>b, SpotAssumption DEF Larger
<1>1. CASE MoveCancel
  <2>1. PICK r : /\ CancelCall(ps.slId, r)
                 /\ IF r = "ok"
                      THEN ps' = [ps EXCEPT !.slId = NoId, !.placed = FALSE] /\ pc' = "movePlace"
                      ELSE UNCHANGED ps /\ pc' = "restore"
    BY <1>1 DEF MoveCancel
  <2>2. ExTypeOK' BY <2>1, CancelCallType DEF PairTypeOK
  <2>3. ps' \in PairStates BY <1>0, <2>1 DEF PairStates
  <2> QED BY <1>1, <1>a, <2>1, <2>2, <2>3 DEF MoveCancel, PairTypeOK
<1>2. CASE MovePlace
  <2>1. PICK r : Place(Larger(Floor(ctx.tot), MinQty), job.arg, r)
                 /\ pc' = IF r = "ok" THEN job.then ELSE "restore"
    BY <1>2 DEF MovePlace
  <2>2. ExTypeOK' /\ ps' \in PairStates BY <1>0, <1>c, <2>1, PlaceType
  <2> QED BY <1>2, <1>0, <1>a, <2>1, <2>2 DEF MovePlace, PairTypeOK
<1>3. CASE Restore
  <2>1. CASE ps.placed \/ SoftStop(ps) = 0 \/ ctx.tot <= MinQty
    BY <1>3, <1>0, <2>1 DEF Restore, exVars, PairTypeOK, ExTypeOK
  <2>2. CASE ~(ps.placed \/ SoftStop(ps) = 0 \/ ctx.tot <= MinQty)
    <3>1. PICK r : Place(Floor(ctx.tot), SoftStop(ps), r) BY <1>3, <2>2 DEF Restore
    <3>2. ExTypeOK' /\ ps' \in PairStates BY <1>b, <3>1, PlaceType
    <3> QED BY <1>3, <1>0, <3>2 DEF Restore, PairTypeOK
  <2> QED BY <2>1, <2>2
<1> QED BY <1>1, <1>2, <1>3

(* What job.k stands for: a partial sale is carried out for one of the two *)
(* thresholds only, and the attempts to place a stop order are numbered.   *)
JobPos ==
    /\ pc \in {"partialCancel", "canceledRead", "partialSell"} => job.k \in Pos
    /\ pc = "protect" => job.k \in 1..MaxTries

LEMMA PartialTypes ==
    ASSUME PairTypeOK, JobPos,
           \/ PartialSync \/ PartialNext \/ PartialCancel \/ CanceledRead
           \/ PartialSell \/ SoldRead \/ PartialPlace
    PROVE  PairTypeOK'
<1> USE DEF Goto, Keep
<1>0. ps \in PairStates /\ ctx.tot \in Int /\ job \in Jobs /\ job.k \in 1..Larger(3, MaxTries)
  BY DEF PairTypeOK, Snapshots, Jobs
<1>a. {"partial", "partialNext", "partialCancel", "canceledRead", "partialSell", "soldRead",
       "partialPlace", "restore", "stop"} \subseteq Labels
  BY DEF Labels
<1>b. Floor(ctx.tot) \in Int /\ SoftStop(ps) \in Int
  BY <1>0, FloorType, LevelTypes DEF PairTypeOK
<1>c. job.k \in Pos => [job EXCEPT !.k = @ + 1] \in Jobs
  <2>1. MaxTries \in Nat BY CycleAssumption
  <2>2. job.k \in Pos => job.k + 1 \in 1..Larger(3, MaxTries) BY <2>1 DEF Pos, Larger
  <2> QED BY <1>0, <2>2 DEF Jobs
<1>1. CASE PartialSync
  <2>1. CASE ps.side # "BUY" \/ ctx.free <= 0 \/ ps.entry = 0
    BY <1>1, <1>a, <2>1 DEF PartialSync, exVars, PairTypeOK, ExTypeOK
  <2>2. CASE ~(ps.side # "BUY" \/ ctx.free <= 0 \/ ps.entry = 0)
    <3>1. PICK d \in Detected : ps' = [ps EXCEPT !.taken = [k \in Pos |-> ps.taken[k] \/ k \in d]]
      BY <1>1, <2>2 DEF PartialSync
    <3>2. [k \in Pos |-> ps.taken[k] \/ k \in d] \in [Pos -> BOOLEAN] OBVIOUS
    <3>3. ps' \in PairStates BY <1>0, <3>1, <3>2 DEF PairStates
    <3> QED BY <1>1, <1>a, <2>2, <3>3 DEF PartialSync, exVars, PairTypeOK, ExTypeOK
  <2> QED BY <2>1, <2>2
<1>2. CASE PartialNext
  <2>1. [job EXCEPT !.then = "partialNext"] \in Jobs BY <1>0 DEF Jobs, Returns
  <2>2. job' \in Jobs /\ pc' \in Labels
    BY <1>2, <1>a, <1>c, <2>1, ConstantTypes DEF PartialNext
  <2> QED BY <1>2, <2>2 DEF PartialNext, exVars, PairTypeOK, ExTypeOK
<1>3. CASE PartialCancel
  BY <1>3, <1>a, CancelForSaleType DEF PartialCancel
<1>4. CASE CanceledRead
  BY <1>4, <1>a, RereadType DEF CanceledRead
<1>5. CASE PartialSell
  <2> DEFINE q == PartialQty(job.k, ctx.tot)
             flagged == [ps EXCEPT !.taken[job.k] = TRUE]
  <2>1. job.k \in Pos /\ job' = [job EXCEPT !.k = @ + 1] /\ UNCHANGED <<ctx, cool, halt>>
    BY <1>5 DEF PartialSell, JobPos
  <2>2. q \in Int BY <1>0, <2>1, PartialQtyType
  <2>3. ps.taken \in [Pos -> BOOLEAN] BY <1>0 DEF PairStates
  <2>4. [ps.taken EXCEPT ![job.k] = TRUE] \in [Pos -> BOOLEAN] BY <2>3
  <2>5. flagged \in PairStates BY <1>0, <2>4 DEF PairStates
  <2>6. CASE q < MinQty
    <3>1. ps' = flagged /\ pc' = "restore" /\ UNCHANGED exVars BY <1>5, <2>6 DEF PartialSell
    <3> QED BY <1>a, <1>c, <2>1, <2>5, <3>1 DEF exVars, PairTypeOK, ExTypeOK
  <2>7. CASE ~(q < MinQty)
    <3>1. PICK r : /\ MarketSellCall(q, r)
                   /\ ps' = IF r = "ok" THEN flagged ELSE ps
                   /\ pc' = IF r = "ok" THEN "soldRead" ELSE "restore"
      BY <1>5, <2>7 DEF PartialSell
    <3>2. ExTypeOK' BY <2>2, <3>1, MarketSellCallType DEF PairTypeOK
    <3> QED BY <1>0, <1>a, <1>c, <2>1, <2>5, <3>1, <3>2 DEF PairTypeOK
  <2> QED BY <2>6, <2>7
<1>6. CASE SoldRead
  BY <1>6, <1>a, RereadType DEF SoldRead
<1>7. CASE PartialPlace
  <2>1. CASE SoftStop(ps) = 0 \/ ctx.tot <= MinQty
    BY <1>7, <1>a, <2>1 DEF PartialPlace, exVars, PairTypeOK, ExTypeOK
  <2>2. CASE ~(SoftStop(ps) = 0 \/ ctx.tot <= MinQty)
    <3>1. PICK r : Place(Floor(ctx.tot), SoftStop(ps), r) BY <1>7, <2>2 DEF PartialPlace
    <3>2. ExTypeOK' /\ ps' \in PairStates BY <1>b, <3>1, PlaceType
    <3> QED BY <1>7, <1>a, <3>2 DEF PartialPlace, PairTypeOK
  <2> QED BY <2>1, <2>2
<1> QED BY <1>1, <1>2, <1>3, <1>4, <1>5, <1>6, <1>7

LEMMA StopTypes ==
    ASSUME PairTypeOK,
           StopCheck \/ ZeroBalance \/ StaleCancel \/ FilledCheck \/ GuardCancel \/ ManualSell
    PROVE  PairTypeOK'
<1> USE DEF Goto, Keep
<1>0. ps \in PairStates /\ ctx \in Snapshots /\ job \in Jobs /\ "SELL" \in Sides
  BY DEF PairTypeOK, Sides
<1>a. {"residue", "zero", "guard", "stale", "filled", "manual"} \subseteq Labels BY DEF Labels
<1>b. [ps EXCEPT !.slId = NoId, !.placed = FALSE] \in PairStates BY <1>0 DEF PairStates
<1>1. CASE StopCheck
  <2>1. pc' \in Labels BY <1>1, <1>a DEF StopCheck
  <2> QED BY <1>1, <2>1 DEF StopCheck, exVars, PairTypeOK, ExTypeOK
<1>2. CASE ZeroBalance
  <2>1. ps.taken \in [Pos -> BOOLEAN] /\ Reset("SELL") \in PairStates
    BY <1>0, ConstantTypes DEF PairStates
  <2>2. [Reset("SELL") EXCEPT !.taken = ps.taken] \in PairStates BY <2>1 DEF PairStates
  <2>3. ps' \in PairStates BY <1>2, <2>2 DEF ZeroBalance
  <2>4. ExTypeOK' /\ cool' \in BOOLEAN
    <3>1. CASE ps.slId = NoId BY <1>2, <3>1 DEF ZeroBalance, PairTypeOK, ExTypeOK
    <3>2. CASE ps.slId # NoId
      <4>1. PICK r : /\ ReadCall(r)
                     /\ cool' = (r = "ok" /\ ord[ps.slId].st = "OLD" => cool)
        BY <1>2, <3>2 DEF ZeroBalance
      <4>2. ExTypeOK' BY <1>2, <4>1, ReadCallType DEF ZeroBalance, PairTypeOK
      <4>3. cool \in BOOLEAN BY DEF PairTypeOK
      <4>4. (r = "ok" /\ ord[ps.slId].st = "OLD" => cool) \in BOOLEAN BY <4>3
      <4> QED BY <4>1, <4>2, <4>4
    <3> QED BY <3>1, <3>2
  <2> QED BY <1>2, <2>3, <2>4, EndCycleType DEF ZeroBalance, PairTypeOK
<1>3. CASE StaleCancel
  <2>1. PICK r : /\ CancelCall(ps.slId, r)
                 /\ IF r = "ok"
                      THEN /\ ps' = [ps EXCEPT !.slId = NoId, !.placed = FALSE]
                           /\ ctx' = [ctx EXCEPT !.free = ctx.tot]
                           /\ job' = [job EXCEPT !.then = "filled"]
                           /\ pc' = "guard"
                      ELSE UNCHANGED <<ps, ctx, job>> /\ pc' = "filled"
    BY <1>3 DEF StaleCancel
  <2>2. ExTypeOK' BY <2>1, CancelCallType DEF PairTypeOK
  <2>3. [ctx EXCEPT !.free = ctx.tot] \in Snapshots BY <1>0 DEF Snapshots
  <2>4. [job EXCEPT !.then = "filled"] \in Jobs BY <1>0 DEF Jobs, Returns
  <2>5. ps' \in PairStates /\ ctx' \in Snapshots /\ job' \in Jobs /\ pc' \in Labels
    BY <1>0, <1>a, <1>b, <2>1, <2>3, <2>4
  <2> QED BY <1>3, <2>2, <2>5 DEF StaleCancel, PairTypeOK
<1>4. CASE FilledCheck
  <2>1. ExTypeOK' /\ ps' \in PairStates /\ cool' \in BOOLEAN
    <3>1. CASE ps.slId # NoId
      <4>1. PICK r : /\ ReadCall(r)
                     /\ IF r = "ok" /\ HasFilled(ps.slId)
                          THEN ps' = Reset("SELL") /\ cool' = TRUE
                          ELSE UNCHANGED <<ps, cool>>
        BY <1>4, <3>1 DEF FilledCheck
      <4>2. ExTypeOK' BY <1>4, <4>1, ReadCallType DEF FilledCheck, PairTypeOK
      <4> QED BY <1>0, <4>1, <4>2, ConstantTypes DEF PairTypeOK
    <3>2. CASE ps.slId = NoId
      <4>1. UNCHANGED <<free, locked, ord, hist, faults>> BY <1>4, <3>2 DEF FilledCheck
      <4>2. \/ ps' = Reset("SELL") /\ cool' = TRUE
            \/ UNCHANGED <<ps, cool>>
        BY <1>4, <3>2 DEF FilledCheck
      <4> QED BY <1>0, <4>1, <4>2, ConstantTypes DEF PairTypeOK, ExTypeOK
    <3> QED BY <3>1, <3>2
  <2> QED BY <1>4, <2>1, EndCycleType DEF FilledCheck, PairTypeOK
<1>5. CASE GuardCancel
  <2>1. CASE Armed
    <3>1. PICK r : CancelCall(ps.slId, r) BY <1>5, <2>1 DEF GuardCancel
    <3>2. ExTypeOK' BY <3>1, CancelCallType DEF PairTypeOK
    <3> QED BY <1>5, <1>a, <1>b, <2>1, <3>2 DEF GuardCancel, PairTypeOK
  <2>2. CASE ~Armed
    BY <1>5, <1>a, <2>2 DEF GuardCancel, exVars, PairTypeOK, ExTypeOK
  <2> QED BY <2>1, <2>2
<1>6. CASE ManualSell
  <2>1. Floor(ctx.free) \in Int BY <1>0, FloorType DEF Snapshots
  <2>2. CASE Floor(ctx.free) < MinQty
    BY <1>6, <2>2, EndCycleType DEF ManualSell, exVars, PairTypeOK, ExTypeOK
  <2>3. CASE ~(Floor(ctx.free) < MinQty)
    <3>1. PICK r :
            /\ MarketSellCall(Floor(ctx.free), r)
            /\ IF r = "ok"
                 THEN ps' = Reset("SELL") /\ cool' = TRUE /\ EndCycle
                 ELSE /\ UNCHANGED <<ps, cool>>
                      /\ IF r # "unfilled" /\ job.then = "filled"
                           THEN pc' = "filled" /\ UNCHANGED <<ctx, job>>
                           ELSE EndCycle
      BY <1>6, <2>3 DEF ManualSell
    <3>2. ExTypeOK' BY <2>1, <3>1, MarketSellCallType DEF PairTypeOK
    <3>3. ps' \in PairStates /\ cool' \in BOOLEAN
      BY <1>0, <3>1, ConstantTypes DEF PairTypeOK
    <3>4. pc' \in Labels /\ ctx' \in Snapshots /\ job' \in Jobs
      BY <1>0, <1>a, <3>1, EndCycleType
    <3> QED BY <1>6, <3>2, <3>3, <3>4 DEF ManualSell, PairTypeOK
  <2> QED BY <2>2, <2>3
<1> QED BY <1>1, <1>2, <1>3, <1>4, <1>5, <1>6

LEMMA SaleTypes ==
    ASSUME PairTypeOK,
           \/ DustReset \/ DustSell \/ DustRead \/ NoDust
           \/ NoSignal \/ SellSignal \/ SignalRead \/ SignalSell
    PROVE  PairTypeOK'
<1> USE DEF Goto, Keep
<1>0. ps \in PairStates /\ ctx.tot \in Int /\ Reset("SELL") \in PairStates
  BY ConstantTypes DEF PairTypeOK, Snapshots, Sides
<1>a. {"dustRead", "signal", "signalRead", "signalSell", "buy"} \subseteq Labels BY DEF Labels
<1>b. Floor(ctx.tot) \in Int BY <1>0, FloorType
<1>1. CASE DustReset
  BY <1>1, <1>0, EndCycleType DEF DustReset, exVars, PairTypeOK, ExTypeOK
<1>2. CASE DustSell
  <2>1. PICK r : /\ MarketSellCall(ctx.tot, r)
                 /\ ps' = IF r = "ok" THEN Reset("SELL") ELSE ps
                 /\ pc' = IF r = "ok" THEN "dustRead" ELSE "buy"
    BY <1>2 DEF DustSell
  <2>2. ExTypeOK' BY <1>0, <2>1, MarketSellCallType DEF PairTypeOK
  <2>3. ps' \in PairStates /\ pc' \in Labels BY <1>0, <1>a, <2>1
  <2> QED BY <1>2, <2>2, <2>3 DEF DustSell, PairTypeOK
<1>3. CASE DustRead
  BY <1>3, <1>a, RereadType DEF DustRead
<1>4. CASE NoDust
  <2>1. pc' \in Labels BY <1>4, <1>a DEF NoDust
  <2> QED BY <1>4, <2>1 DEF NoDust, exVars, PairTypeOK, ExTypeOK
<1>5. CASE NoSignal
  BY <1>5, EndCycleType DEF NoSignal, exVars, PairTypeOK, ExTypeOK
<1>6. CASE SellSignal
  BY <1>6, <1>a, CancelForSaleType DEF SellSignal
<1>7. CASE SignalRead
  BY <1>7, <1>a, RereadType DEF SignalRead
<1>8. CASE SignalSell
  <2>1. CASE Floor(ctx.tot) < MinQty
    BY <1>8, <2>1, EndCycleType DEF SignalSell, exVars, PairTypeOK, ExTypeOK
  <2>2. CASE ~(Floor(ctx.tot) < MinQty)
    <3>1. PICK r : /\ MarketSellCall(Floor(ctx.tot), r)
                   /\ ps' = IF r = "ok"
                            THEN [Closed EXCEPT !.slId = ps.slId, !.placed = ps.placed]
                            ELSE ps
      BY <1>8, <2>2 DEF SignalSell
    <3>2. ExTypeOK' BY <1>b, <3>1, MarketSellCallType DEF PairTypeOK
    <3>3. [Closed EXCEPT !.slId = ps.slId, !.placed = ps.placed] \in PairStates
      BY <1>0, ConstantTypes DEF PairStates
    <3>4. ps' \in PairStates BY <1>0, <3>1, <3>3
    <3> QED BY <1>8, <3>2, <3>4, EndCycleType DEF SignalSell, PairTypeOK
  <2> QED BY <2>1, <2>2
<1> QED BY <1>1, <1>2, <1>3, <1>4, <1>5, <1>6, <1>7, <1>8

LEMMA BuyTypes ==
    ASSUME PairTypeOK, JobPos, Buy \/ Protect \/ Rollback
    PROVE  PairTypeOK'
<1> USE DEF Goto, Keep
<1>0. ps \in PairStates /\ ctx.px \in Int /\ job.arg \in Int /\ ps.stopE \in Int
      /\ job \in Jobs /\ ctx \in Snapshots /\ job.k \in 1..Larger(3, MaxTries)
  BY DEF PairTypeOK, Snapshots, Jobs, PairStates
<1>a. {"protect", "rollback"} \subseteq Labels BY DEF Labels
<1>1. CASE Buy
  <2>1. PICK q \in BuyQtys, r \in {"ok", "lost", "err", "unfilled"} :
          /\ MarketBuyCall(q, ctx.px, r)
          /\ IF r = "ok"
               THEN /\ ps' = Bought(ctx.px)
                    /\ job' = [NoJob EXCEPT !.arg = Floor(q)]
                    /\ pc' = "protect" /\ UNCHANGED ctx
               ELSE UNCHANGED ps /\ EndCycle
    BY <1>1 DEF Buy
  <2>2. q \in Nat BY SpotAssumption
  <2>3. ExTypeOK' BY <1>0, <2>1, <2>2, MarketBuyCallType DEF PairTypeOK
  <2>4. [k \in Pos |-> FALSE] \in [Pos -> BOOLEAN] OBVIOUS
  <2>5. ctx.px - StopDist \in Int /\ ctx.px + TrailDist \in Int
    BY <1>0, CycleAssumption
  <2>6. Bought(ctx.px) \in PairStates BY <1>0, <2>4, <2>5 DEF Bought, PairStates, Sides
  <2>7. [NoJob EXCEPT !.arg = Floor(q)] \in Jobs
    BY <2>2, FloorType, ConstantTypes DEF Jobs
  <2>8. ps' \in PairStates /\ job' \in Jobs /\ pc' \in Labels /\ ctx' \in Snapshots
    BY <1>0, <1>a, <2>1, <2>6, <2>7, EndCycleType
  <2> QED BY <1>1, <2>3, <2>8 DEF Buy, PairTypeOK
<1>2. CASE Protect
  <2>1. PICK r : /\ Place(job.arg, ps.stopE, r)
                 /\ IF r = "ok" THEN EndCycle
                    ELSE /\ job' = [job EXCEPT !.k = IF @ = MaxTries THEN 1 ELSE @ + 1]
                         /\ pc' = IF job.k = MaxTries THEN "rollback" ELSE "protect"
                         /\ UNCHANGED ctx
    BY <1>2 DEF Protect
  <2>2. ExTypeOK' /\ ps' \in PairStates BY <1>0, <2>1, PlaceType
  <2>3. ~(job.k = MaxTries) => job.k + 1 \in 1..Larger(3, MaxTries)
    BY <1>0, <1>2, CycleAssumption DEF JobPos, Protect, Larger
  <2> DEFINE k == IF job.k = MaxTries THEN 1 ELSE job.k + 1
  <2>e. k \in 1..Larger(3, MaxTries) BY <2>3, CycleAssumption DEF Larger
  <2>f. [job EXCEPT !.k = k] \in Jobs
    <3> HIDE DEF k
    <3> QED BY <1>0, <2>e DEF Jobs
  <2>4. [job EXCEPT !.k = IF @ = MaxTries THEN 1 ELSE @ + 1] \in Jobs
    BY <2>f
  <2>5. pc' \in Labels /\ ctx' \in Snapshots /\ job' \in Jobs
    BY <1>0, <1>a, <2>1, <2>4, EndCycleType
  <2> QED BY <1>2, <2>2, <2>5 DEF Protect, PairTypeOK
<1>3. CASE Rollback
  <2>1. PICK r :
          /\ MarketSellCall(job.arg, r)
          /\ IF r \in {"ok", "unfilled"}
               THEN /\ ps' = [ps EXCEPT !.entry = 0, !.side = "SELL",
                                        !.slId = NoId, !.placed = FALSE]
                    /\ UNCHANGED halt
               ELSE halt' = TRUE /\ UNCHANGED ps
    BY <1>3 DEF Rollback
  <2>2. ExTypeOK' BY <1>0, <2>1, MarketSellCallType DEF PairTypeOK
  <2>a. [ps EXCEPT !.entry = 0, !.side = "SELL", !.slId = NoId, !.placed = FALSE]
          \in PairStates
    <3>1. ps \in PairStates BY <1>0
    <3>2. ASSUME NEW s \in Sides, NEW e \in Int, NEW i \in StopIds \cup {NoId}
          PROVE  [ps EXCEPT !.entry = e, !.side = s, !.slId = i, !.placed = FALSE]
                   \in PairStates
      BY <3>1 DEF PairStates
    <3>3. "SELL" \in Sides /\ 0 \in Int /\ NoId \in StopIds \cup {NoId} BY DEF Sides
    <3> QED BY <3>2, <3>3
  <2>3. ps' \in PairStates /\ halt' \in BOOLEAN
    BY <1>0, <2>1, <2>a DEF PairTypeOK
  <2> QED BY <1>3, <2>2, <2>3, EndCycleType DEF Rollback, PairTypeOK
<1> QED BY <1>1, <1>2, <1>3

LEMMA WorldTypes ==
    ASSUME PairTypeOK, CoolDownEnds \/ Market
    PROVE  PairTypeOK'
<1>1. CASE CoolDownEnds
  BY <1>1 DEF CoolDownEnds, exVars, PairTypeOK, ExTypeOK
<1>2. CASE Market
  <2>1. PICK i \in StopIds : StopFills(i) \/ FillAges(i) BY <1>2 DEF Market
  <2>2. ExTypeOK' BY <2>1, StopFillsType, FillAgesType DEF PairTypeOK
  <2> QED BY <1>2, <2>2 DEF Market, botVars, PairTypeOK
<1> QED BY <1>1, <1>2

LEMMA InitTypes == Init => PairTypeOK /\ JobPos
<1> SUFFICES ASSUME Init PROVE PairTypeOK /\ JobPos OBVIOUS
<1>1. ExTypeOK
  <2>1. free \in Nat /\ locked \in Int /\ faults \in 0..MaxFaults
    BY SpotAssumption DEF Init, ExInit
  <2>2. NoStop \in [st : StopStates, qty : Nat, stop : Int, late : BOOLEAN]
    BY DEF NoStop, StopStates
  <2>3. ord \in [StopIds -> [st : StopStates, qty : Nat, stop : Int, late : BOOLEAN]]
    BY <2>2 DEF Init, ExInit
  <2>4. MinQty \in Nat /\ <<MinQty>> \in Seq(Nat) BY SpotAssumption
  <2>5. hist \in [side : {"BUY", "SELL"}, px : Int, bought : Nat, sales : Seq(Nat),
                  newest : BOOLEAN]
    BY <2>4 DEF Init, ExInit
  <2> QED BY <2>1, <2>3, <2>5 DEF ExTypeOK
<1>2. PairTypeOK BY <1>1, ConstantTypes DEF Init, PairTypeOK, Labels
<1>3. JobPos BY DEF Init, JobPos
<1> QED BY <1>2, <1>3

LEMMA NextTypes ==
    ASSUME PairTypeOK, JobPos, PairNext
    PROVE  PairTypeOK'
BY GateTypes, FetchTypes, TrailTypes, MoveTypes, PartialTypes, StopTypes, SaleTypes,
   BuyTypes, WorldTypes
   DEF PairNext, Cycle

(* Only PartialNext starts a partial sale and only Buy a series of         *)
(* attempts: where the cycle returns to is never in the middle of either.  *)
LEMMA NextJobPos ==
    ASSUME PairTypeOK, JobPos, PairNext
    PROVE  JobPos'
<1> USE DEF Goto, JobPos
<1>0. job.then \in Returns /\ job.k \in Nat /\ MaxTries \in Nat \ {0}
  BY CycleAssumption DEF PairTypeOK, Jobs
<1>1. CASE \/ CycleStart \/ HaltedCycle \/ FullCycle \/ NoPoll \/ Poll
           \/ FetchBalances \/ FetchPrice \/ Sync
  BY <1>1 DEF CycleStart, HaltedCycle, FullCycle, NoPoll, Poll, FetchBalances, FetchPrice, Sync,
              EndCycle, pairVars, botVars
<1>2. CASE NoTrailing \/ Trail \/ BreakEven \/ Trailed
  BY <1>2 DEF NoTrailing, Trail, BreakEven, Trailed, MoveStop
<1>3. CASE MoveCancel \/ MovePlace \/ Restore
  BY <1>0, <1>3 DEF MoveCancel, MovePlace, Restore, Returns
<1>4. CASE PartialSync \/ SoldRead \/ PartialPlace
  BY <1>4 DEF PartialSync, SoldRead, PartialPlace, Reread
<1>5. CASE PartialNext
  <2>1. CASE pc' = "partialCancel"
    <3>1. job.k \in Pos /\ job' = [job EXCEPT !.then = "partialNext"]
      BY <1>5, <2>1 DEF PartialNext
    <3>2. job'.k = job.k BY <3>1 DEF PairTypeOK, Jobs
    <3> QED BY <2>1, <3>1, <3>2
  <2>2. CASE pc' # "partialCancel" BY <1>5, <2>2 DEF PartialNext
  <2> QED BY <2>1, <2>2
<1>6. CASE PartialCancel \/ CanceledRead \/ PartialSell
  BY <1>6 DEF PartialCancel, CanceledRead, PartialSell, CancelForSale, Reread
<1>7. CASE StopCheck \/ ZeroBalance \/ StaleCancel \/ FilledCheck \/ GuardCancel \/ ManualSell
  BY <1>7 DEF StopCheck, ZeroBalance, StaleCancel, FilledCheck, GuardCancel, ManualSell, EndCycle
<1>8. CASE DustReset \/ DustSell \/ DustRead \/ NoDust \/ NoSignal
  BY <1>8 DEF DustReset, DustSell, DustRead, NoDust, NoSignal, Reread, EndCycle
<1>9. CASE SellSignal \/ SignalRead \/ SignalSell
  BY <1>9 DEF SellSignal, SignalRead, SignalSell, CancelForSale, Reread, EndCycle
<1>10. CASE Buy
  <2>1. CASE pc' = "protect"
    <3>1. PICK q \in BuyQtys : job' = [NoJob EXCEPT !.arg = Floor(q)]
      BY <1>10, <2>1 DEF Buy, EndCycle
    <3>2. job'.k = 1 BY <3>1 DEF NoJob
    <3> QED BY <1>0, <2>1, <3>2
  <2>2. CASE pc' # "protect" BY <1>10, <2>2 DEF Buy, EndCycle
  <2> QED BY <2>1, <2>2
<1>11. CASE Protect
  <2>1. CASE pc' = "protect"
    <3>1. job' = [job EXCEPT !.k = IF @ = MaxTries THEN 1 ELSE @ + 1] /\ job.k # MaxTries
          /\ job.k \in 1..MaxTries
      BY <1>11, <2>1 DEF Protect, EndCycle
    <3>2. job'.k = job.k + 1 BY <3>1 DEF PairTypeOK, Jobs
    <3> QED BY <1>0, <2>1, <3>1, <3>2
  <2>2. CASE pc' # "protect" BY <1>11, <2>2 DEF Protect, EndCycle
  <2> QED BY <2>1, <2>2
<1>12. CASE Rollback BY <1>12 DEF Rollback, EndCycle
<1>13. CASE CoolDownEnds \/ Market BY <1>13 DEF CoolDownEnds, Market, botVars
<1> QED
  BY <1>1, <1>2, <1>3, <1>4, <1>5, <1>6, <1>7, <1>8, <1>9, <1>10, <1>11, <1>12, <1>13
     DEF PairNext, Cycle

LEMMA StutterTypes ==
    ASSUME PairTypeOK, JobPos, UNCHANGED pairVars
    PROVE  PairTypeOK' /\ JobPos'
BY DEF pairVars, exVars, botVars, PairTypeOK, ExTypeOK, JobPos

(* The variables of the bot and of the exchange stay in their ranges.  In  *)
(* particular the free balance never goes below zero, since every sale and *)
(* every stop order the code asks for is checked by the exchange, and the  *)
(* retries of _place_sl_after_buy never exceed SL_MAX_RETRIES.             *)
THEOREM Typing == Spec => []TypeOK
<1>1. Init => PairTypeOK /\ JobPos BY InitTypes
<1>2. PairTypeOK /\ JobPos /\ [PairNext]_pairVars => PairTypeOK' /\ JobPos'
  BY NextTypes, NextJobPos, StutterTypes
<1> DEFINE InBounds == others \in 0..MaxOthers
<1>3. Init => InBounds BY DEF Init
<1>4. InBounds /\ [Next]_vars => InBounds' BY DEF Next, Alone, OthersTrade, vars
<1>5. Spec => []InBounds
  <2> HIDE DEF InBounds
  <2> QED BY <1>3, <1>4, PTL DEF Spec
<1> QED BY <1>1, <1>2, <1>5, PairSteps, PTL DEF TypeOK

-----------------------------------------------------------------------------
(* The bot buys only when it is flat.  The order to buy is decided on the  *)
(* balances of a snapshot taken many calls before; what makes that safe is *)
(* that nothing but a buy adds coins, so that what is held can only be     *)
(* less than the snapshot says.                                            *)

CoinsCovered ==
    pc \notin {"idle", "poll", "fetch", "protect", "rollback"} => Held <= ctx.tot
ResidueOnly == pc \in {"buy", "dustRead"} => ctx.tot <= MinQty
FlatInv == CoinsCovered /\ ResidueOnly

(* No call but a buy adds coins to the account. *)
LEMMA CallsAddNoCoins ==
    ASSUME ExTypeOK
    PROVE  /\ \A i, r : CancelCall(i, r) => Held' = Held
           /\ \A i \in StopIds : \A q, price \in Int : \A r :
                PlaceStopCall(i, q, price, r) => Held' = Held
           /\ \A q \in Int : \A r : MarketSellCall(q, r) => Held' <= Held
           /\ \A i \in StopIds : StopFills(i) => Held' <= Held
<1>0. free \in Nat /\ locked \in Int BY DEF ExTypeOK
<1>1. ASSUME NEW i, NEW r, CancelCall(i, r) PROVE Held' = Held
  <2>1. CASE r \in Effective
    <3>1. i \in StopIds BY <1>1, <2>1 DEF CancelCall, Answered, Live, Effective
    <3>2. ord[i].qty \in Nat BY <3>1 DEF ExTypeOK
    <3>3. free' = free + ord[i].qty /\ locked' = locked - ord[i].qty
      BY <1>1, <2>1 DEF CancelCall
    <3> QED BY <1>0, <3>2, <3>3 DEF Held
  <2>2. CASE r \notin Effective BY <1>1, <2>2 DEF CancelCall, Held
  <2> QED BY <2>1, <2>2
<1>2. ASSUME NEW i \in StopIds, NEW q \in Int, NEW price \in Int, NEW r,
             PlaceStopCall(i, q, price, r)
      PROVE  Held' = Held
  <2>1. \/ free' = free - q /\ locked' = locked + q
        \/ UNCHANGED <<free, locked>>
    BY <1>2 DEF PlaceStopCall
  <2> QED BY <1>0, <2>1 DEF Held
<1>3. ASSUME NEW q \in Int, NEW r, MarketSellCall(q, r) PROVE Held' <= Held
  <2>1. locked' = locked BY <1>3 DEF MarketSellCall
  <2>2. CASE r \in Effective
    <3>1. q >= MinQty /\ free' = free - q
      BY <1>3, <2>2 DEF MarketSellCall, Answered, Effective
    <3> QED BY <1>0, <2>1, <3>1, SpotAssumption DEF Held
  <2>3. CASE r \notin Effective
    <3>1. free' = free BY <1>3, <2>3 DEF MarketSellCall
    <3> QED BY <1>0, <2>1, <3>1 DEF Held
  <2> QED BY <2>2, <2>3
<1>4. ASSUME NEW i \in StopIds, StopFills(i) PROVE Held' <= Held
  <2>1. ord[i].qty \in Nat BY DEF ExTypeOK
  <2>2. free' = free /\ locked' = locked - ord[i].qty BY <1>4 DEF StopFills
  <2> QED BY <1>0, <2>1, <2>2 DEF Held
<1> QED BY <1>1, <1>2, <1>3, <1>4

LEMMA PlaceAddsNoCoins ==
    ASSUME PairTypeOK, NEW q \in Int, NEW price \in Int, NEW r, Place(q, price, r)
    PROVE  Held' = Held
BY CallsAddNoCoins DEF Place, PairTypeOK

LEMMA OnlyBuyAddsCoins ==
    ASSUME PairTypeOK, JobPos, PairNext, ~Buy
    PROVE  Held' <= Held
<1> USE DEF Goto, Keep
<1>0. /\ Held \in Int /\ ExTypeOK
      /\ ps \in PairStates /\ ctx.tot \in Int /\ ctx.free \in Int
      /\ job.arg \in Int /\ ps.stopE \in Int /\ SoftStop(ps) \in Int
  <2>1. Held \in Int /\ ExTypeOK BY DEF PairTypeOK, ExTypeOK, Held
  <2>2. ps \in PairStates /\ ctx \in Snapshots /\ job \in Jobs BY DEF PairTypeOK
  <2>3. ctx.tot \in Int /\ ctx.free \in Int /\ job.arg \in Int /\ ps.stopE \in Int
    BY <2>2 DEF Snapshots, Jobs, PairStates
  <2> QED BY <2>1, <2>2, <2>3, LevelTypes
<1>a. Floor(ctx.tot) \in Int /\ Floor(ctx.free) \in Int BY <1>0, FloorType
<1>b. Larger(Floor(ctx.tot), MinQty) \in Int BY <1>a, SpotAssumption DEF Larger
<1>c. (UNCHANGED <<free, locked>>) => Held' <= Held BY <1>0 DEF Held
<1>1. CASE \/ CycleStart \/ HaltedCycle \/ FullCycle \/ NoPoll \/ Poll
           \/ FetchBalances \/ FetchPrice \/ Sync
  BY <1>1, <1>c DEF CycleStart, HaltedCycle, FullCycle, NoPoll, Poll, FetchBalances,
                    FetchPrice, Sync, pairVars, exVars
<1>2. CASE NoTrailing \/ Trail \/ BreakEven \/ Trailed \/ PartialSync \/ PartialNext
           \/ StopCheck \/ ZeroBalance \/ FilledCheck \/ DustReset \/ NoDust \/ NoSignal
           \/ CoolDownEnds
  BY <1>2, <1>c DEF NoTrailing, Trail, BreakEven, Trailed, PartialSync, PartialNext,
                    StopCheck, ZeroBalance, FilledCheck, DustReset, NoDust, NoSignal,
                    CoolDownEnds, exVars
<1>3. CASE CanceledRead \/ SoldRead \/ DustRead \/ SignalRead
  BY <1>3, <1>c DEF CanceledRead, SoldRead, DustRead, SignalRead, Reread
<1>4. CASE MoveCancel \/ StaleCancel \/ GuardCancel \/ PartialCancel \/ SellSignal
  <2>1. (\E r : CancelCall(ps.slId, r)) \/ UNCHANGED exVars
    BY <1>4 DEF MoveCancel, StaleCancel, GuardCancel, PartialCancel, SellSignal, CancelForSale
  <2> QED BY <1>0, <1>c, <2>1, CallsAddNoCoins DEF exVars
<1>5. CASE MovePlace \/ Restore \/ PartialPlace \/ Protect
  <2>1. \/ UNCHANGED exVars
        \/ \E q, price \in Int : \E r : Place(q, price, r)
    BY <1>0, <1>a, <1>b, <1>5 DEF MovePlace, Restore, PartialPlace, Protect
  <2> QED BY <1>0, <1>c, <2>1, PlaceAddsNoCoins DEF exVars
<1>6. CASE PartialSell
  <2>1. PartialQty(job.k, ctx.tot) \in Int
    BY <1>0, <1>6, PartialQtyType DEF PartialSell, JobPos
  <2>2. UNCHANGED exVars \/ \E r : MarketSellCall(PartialQty(job.k, ctx.tot), r)
    BY <1>6 DEF PartialSell
  <2> QED BY <1>0, <1>c, <2>1, <2>2, CallsAddNoCoins DEF exVars
<1>7. CASE ManualSell \/ DustSell \/ SignalSell \/ Rollback
  <2>1. \/ UNCHANGED exVars
        \/ \E q \in Int : \E r : MarketSellCall(q, r)
    BY <1>0, <1>a, <1>7 DEF ManualSell, DustSell, SignalSell, Rollback
  <2> QED BY <1>0, <1>c, <2>1, CallsAddNoCoins DEF exVars
<1>8. CASE Market
  <2>1. PICK i \in StopIds : StopFills(i) \/ FillAges(i) BY <1>8 DEF Market
  <2> QED BY <1>0, <1>c, <2>1, CallsAddNoCoins DEF FillAges
<1> QED BY <1>1, <1>2, <1>3, <1>4, <1>5, <1>6, <1>7, <1>8 DEF PairNext, Cycle

LEMMA RereadFlat ==
    ASSUME PairTypeOK, NEW done, NEW failed, Reread(done, failed), Held <= ctx.tot
    PROVE  Held' <= ctx'.tot /\ ctx'.tot <= ctx.tot
<1>1. Held \in Int /\ ctx.tot \in Int BY DEF PairTypeOK, ExTypeOK, Held, Snapshots
<1>2. Held' = Held BY DEF Reread, Held
<1>3. ctx'.tot = Held \/ ctx' = ctx BY DEF Reread, PairTypeOK, Snapshots
<1> QED BY <1>1, <1>2, <1>3

LEMMA NextFlat ==
    ASSUME PairTypeOK, JobPos, FlatInv, PairNext
    PROVE  FlatInv'
<1> USE DEF Goto, FlatInv, CoinsCovered, ResidueOnly
<1>0. Held \in Int /\ Held' \in Int /\ ctx.tot \in Int /\ ctx'.tot \in Int /\ MinQty \in Int
      /\ job.then \in Returns
  <2>1. PairTypeOK' BY NextTypes
  <2> QED BY <2>1, SpotAssumption DEF PairTypeOK, ExTypeOK, Held, Snapshots, Jobs
<1>a. ~Buy => Held' <= Held BY OnlyBuyAddsCoins
<1>b. (ctx' = ctx) => ctx'.tot = ctx.tot OBVIOUS
<1>1. CASE \/ EndCycle \/ HaltedCycle \/ FullCycle \/ CycleStart \/ NoPoll
           \/ Poll \/ Protect \/ Rollback
  <2>1. CASE EndCycle BY <2>1 DEF EndCycle
  <2>2. CASE HaltedCycle \/ FullCycle \/ CycleStart \/ NoPoll \/ Poll
    BY <2>2 DEF HaltedCycle, FullCycle, CycleStart, NoPoll, Poll, pairVars, botVars
  <2>3. CASE Protect \/ Rollback BY <2>3 DEF Protect, Rollback, EndCycle
  <2> QED BY <1>1, <2>1, <2>2, <2>3
<1>2. CASE FetchBalances /\ ~EndCycle
  <2>1. ctx' = [NoCtx EXCEPT !.free = free, !.locked = locked, !.tot = Held] /\ pc' = "price"
        /\ UNCHANGED <<free, locked>>
    BY <1>2 DEF FetchBalances
  <2>2. ctx'.tot = Held /\ Held' = Held BY <2>1 DEF NoCtx, Held
  <2> QED BY <1>0, <2>1, <2>2
<1>3. CASE (FetchPrice \/ Sync) /\ ~EndCycle
  <2>1. ctx'.tot = ctx.tot BY <1>3 DEF FetchPrice, Sync, PairTypeOK, Snapshots
  <2>2. /\ pc \notin {"idle", "poll", "fetch", "protect", "rollback"}
        /\ pc' \notin {"buy", "dustRead"}
        /\ ~Buy
    BY <1>3 DEF FetchPrice, Sync, Buy
  <2> QED BY <1>0, <1>a, <2>1, <2>2
<1>4. CASE NoTrailing \/ Trail \/ BreakEven \/ Trailed \/ MoveCancel \/ MovePlace \/ Restore
  <2>1. /\ ctx' = ctx
        /\ pc \notin {"idle", "poll", "fetch", "protect", "rollback"}
        /\ pc' \notin {"buy", "dustRead"}
        /\ ~Buy
    BY <1>0, <1>4 DEF NoTrailing, Trail, BreakEven, Trailed, MoveCancel, MovePlace, Restore,
                      MoveStop, Returns, Buy
  <2> QED BY <1>0, <1>a, <1>b, <2>1
<1>5. CASE PartialSync \/ PartialNext \/ PartialCancel \/ PartialSell \/ PartialPlace
  <2>1. /\ ctx' = ctx
        /\ pc \notin {"idle", "poll", "fetch", "protect", "rollback"}
        /\ pc' \notin {"buy", "dustRead"}
        /\ ~Buy
    BY <1>5 DEF PartialSync, PartialNext, PartialCancel, PartialSell, PartialPlace,
                CancelForSale, Buy
  <2> QED BY <1>0, <1>a, <1>b, <2>1
<1>6. CASE CanceledRead \/ SoldRead \/ SignalRead
  <2>1. Held <= ctx.tot /\ pc' \notin {"buy", "dustRead"}
    BY <1>6 DEF CanceledRead, SoldRead, SignalRead, Reread
  <2> QED BY <1>6, <2>1, RereadFlat DEF CanceledRead, SoldRead, SignalRead
<1>7. CASE (StopCheck \/ StaleCancel \/ GuardCancel \/ ManualSell) /\ ~EndCycle
  <2>1. /\ ctx'.tot = ctx.tot
        /\ pc \notin {"idle", "poll", "fetch", "protect", "rollback"}
        /\ pc' \notin {"buy", "dustRead"}
        /\ ~Buy
    BY <1>7 DEF StopCheck, StaleCancel, GuardCancel, ManualSell, PairTypeOK, Snapshots, Buy
  <2> QED BY <1>0, <1>a, <2>1
<1>8. CASE DustSell
  <2>1. ctx' = ctx /\ pc = "residue" /\ ctx.tot <= MinQty /\ ~Buy
    BY <1>8 DEF DustSell, Residue, Buy
  <2> QED BY <1>0, <1>a, <1>b, <2>1
<1>9. CASE DustRead
  <2>1. Held <= ctx.tot /\ ctx.tot <= MinQty BY <1>9 DEF DustRead
  <2>2. Held' <= ctx'.tot /\ ctx'.tot <= ctx.tot BY <1>9, <2>1, RereadFlat DEF DustRead
  <2> QED BY <1>0, <2>1, <2>2
<1>10. CASE NoDust
  <2>1. ctx' = ctx /\ pc = "residue" /\ ~Buy
        /\ pc' = IF ctx.tot > MinQty THEN "signal" ELSE "buy"
    BY <1>10 DEF NoDust, Buy
  <2> QED BY <1>0, <1>a, <1>b, <2>1
<1>11. CASE SellSignal
  <2>1. ctx' = ctx /\ pc = "signal" /\ pc' \in {"signalRead", "signalSell"} /\ ~Buy
    BY <1>11 DEF SellSignal, CancelForSale, Buy
  <2> QED BY <1>0, <1>a, <1>b, <2>1
<1>12. CASE Buy /\ ~EndCycle BY <1>12 DEF Buy
<1>13. CASE CoolDownEnds \/ Market
  <2>1. ctx' = ctx /\ pc' = pc BY <1>13 DEF CoolDownEnds, Market, botVars
  <2>2. CASE Buy
    <3>1. pc = "buy" /\ (pc' = "protect" \/ EndCycle) BY <2>2 DEF Buy
    <3> QED BY <1>1, <2>1, <3>1
  <2> QED BY <1>0, <1>a, <1>b, <2>1, <2>2
<1>14. CASE ZeroBalance \/ FilledCheck \/ DustReset \/ NoSignal \/ SignalSell
  BY <1>1, <1>14 DEF ZeroBalance, FilledCheck, DustReset, NoSignal, SignalSell
<1> QED
  BY <1>1, <1>2, <1>3, <1>4, <1>5, <1>6, <1>7, <1>8, <1>9, <1>10, <1>11, <1>12, <1>13, <1>14
     DEF PairNext, Cycle

LEMMA InvariantFlat == Spec => [](PairTypeOK /\ JobPos /\ FlatInv)
<1>1. Init => PairTypeOK /\ JobPos /\ FlatInv
  BY InitTypes DEF Init, FlatInv, CoinsCovered, ResidueOnly
<1>2. PairTypeOK /\ JobPos /\ FlatInv /\ [PairNext]_pairVars => (PairTypeOK /\ JobPos /\ FlatInv)'
  <2>1. ASSUME PairTypeOK, JobPos, FlatInv, PairNext PROVE (PairTypeOK /\ JobPos /\ FlatInv)'
    BY <2>1, NextTypes, NextJobPos, NextFlat
  <2>2. ASSUME PairTypeOK, JobPos, FlatInv, UNCHANGED pairVars
           PROVE (PairTypeOK /\ JobPos /\ FlatInv)'
    BY <2>2, StutterTypes
       DEF pairVars, exVars, botVars, FlatInv, CoinsCovered, ResidueOnly, Held
  <2> QED BY <2>1, <2>2
<1> QED BY <1>1, <1>2, PairSteps, PTL

(* Whatever fails and however late the stop orders fill, a buy is only     *)
(* made on an account that holds no more than a residue of the coin: the   *)
(* bot never doubles a position.                                           *)
THEOREM NoDoublePosition == Spec => BuysOnlyWhenFlat
<1>1. ASSUME PairTypeOK, FlatInv PROVE Buys => Held <= MinQty
  <2>1. Held \in Int /\ ctx.tot \in Int /\ MinQty \in Int
    BY <1>1, SpotAssumption DEF PairTypeOK, ExTypeOK, Held, Snapshots
  <2> QED BY <1>1, <2>1 DEF FlatInv, CoinsCovered, ResidueOnly, Buys
<1>2. PairTypeOK /\ FlatInv => [Buys => Held <= MinQty]_pairVars BY <1>1
<1> QED BY <1>2, InvariantFlat, PTL DEF BuysOnlyWhenFlat

-----------------------------------------------------------------------------
(* The stop of a position never goes down.  Only _sync_entry_state could   *)
(* lower it, by computing it again from the history: it does so only while *)
(* a stop is missing, and a stop that is set is never zero, which the code *)
(* takes for missing.                                                      *)

BuyAboveStop == hist.side = "BUY" => hist.px > StopDist
StopsSet ==
    /\ ps.entry # 0 => ps.stopE # 0
    /\ ps.stopE # 0 => ps.stop # 0

(* No call but a buy changes the last buy of the order history.            *)
LEMMA CallsKeepBuy ==
    ASSUME ExTypeOK, BuyAboveStop
    PROVE  /\ \A i, r : CancelCall(i, r) => BuyAboveStop'
           /\ \A i, q, price, r : PlaceStopCall(i, q, price, r) => BuyAboveStop'
           /\ \A q, r : MarketSellCall(q, r) => BuyAboveStop'
           /\ \A q, r : \A p \in BuyPrices : MarketBuyCall(q, p, r) => BuyAboveStop'
           /\ \A i \in StopIds : StopFills(i) \/ FillAges(i) => BuyAboveStop'
           /\ (UNCHANGED hist) => BuyAboveStop'
<1> USE DEF BuyAboveStop, ExTypeOK
<1>1. \A i, r : CancelCall(i, r) => BuyAboveStop' BY DEF CancelCall
<1>2. \A i, q, price, r : PlaceStopCall(i, q, price, r) => BuyAboveStop'
  BY DEF PlaceStopCall
<1>3. \A q, r : MarketSellCall(q, r) => BuyAboveStop' BY DEF MarketSellCall
<1>4. \A q, r : \A p \in BuyPrices : MarketBuyCall(q, p, r) => BuyAboveStop'
  BY CycleAssumption DEF MarketBuyCall
<1>5. \A i \in StopIds : StopFills(i) \/ FillAges(i) => BuyAboveStop'
  BY DEF StopFills, FillAges
<1> QED BY <1>1, <1>2, <1>3, <1>4, <1>5

LEMMA NextBuyAboveStop ==
    ASSUME PairTypeOK, BuyAboveStop, PairNext
    PROVE  BuyAboveStop'
<1>0. ExTypeOK BY DEF PairTypeOK
<1>1. CASE \/ CycleStart \/ HaltedCycle \/ FullCycle \/ NoPoll \/ Poll
           \/ FetchBalances \/ FetchPrice \/ Sync
  BY <1>0, <1>1, CallsKeepBuy
     DEF CycleStart, HaltedCycle, FullCycle, NoPoll, Poll, FetchBalances, FetchPrice, Sync,
         pairVars, exVars
<1>2. CASE NoTrailing \/ Trail \/ BreakEven \/ Trailed \/ PartialSync \/ PartialNext
           \/ StopCheck \/ ZeroBalance \/ FilledCheck \/ DustReset \/ NoDust \/ NoSignal
           \/ CoolDownEnds
  BY <1>0, <1>2, CallsKeepBuy
     DEF NoTrailing, Trail, BreakEven, Trailed, PartialSync, PartialNext, StopCheck,
         ZeroBalance, FilledCheck, DustReset, NoDust, NoSignal, CoolDownEnds, exVars
<1>3. CASE CanceledRead \/ SoldRead \/ DustRead \/ SignalRead
  BY <1>0, <1>3, CallsKeepBuy DEF CanceledRead, SoldRead, DustRead, SignalRead, Reread
<1>4. CASE MoveCancel \/ StaleCancel \/ GuardCancel \/ PartialCancel \/ SellSignal
  <2>1. (\E r : CancelCall(ps.slId, r)) \/ UNCHANGED hist
    BY <1>4 DEF MoveCancel, StaleCancel, GuardCancel, PartialCancel, SellSignal,
                CancelForSale, exVars
  <2> QED BY <1>0, <2>1, CallsKeepBuy
<1>5. CASE MovePlace \/ Restore \/ PartialPlace \/ Protect
  <2>1. UNCHANGED hist \/ \E q, price, r : Place(q, price, r)
    BY <1>5 DEF MovePlace, Restore, PartialPlace, Protect, exVars
  <2> QED BY <1>0, <2>1, CallsKeepBuy DEF Place
<1>6. CASE PartialSell \/ ManualSell \/ DustSell \/ SignalSell \/ Rollback
  <2>1. UNCHANGED hist \/ \E q, r : MarketSellCall(q, r)
    BY <1>6 DEF PartialSell, ManualSell, DustSell, SignalSell, Rollback, exVars
  <2> QED BY <1>0, <2>1, CallsKeepBuy
<1>7. CASE Buy
  <2>1. \E q, r : MarketBuyCall(q, ctx.px, r) BY <1>7 DEF Buy
  <2>2. ctx.px \in BuyPrices BY <1>7 DEF Buy
  <2> QED BY <1>0, <2>1, <2>2, CallsKeepBuy
<1>8. CASE Market BY <1>0, <1>8, CallsKeepBuy DEF Market
<1> QED BY <1>1, <1>2, <1>3, <1>4, <1>5, <1>6, <1>7, <1>8 DEF PairNext, Cycle

(* What a step may do to the memory of the position, s before and t after. *)
SameStops(s, t) ==
    t.entry = s.entry /\ t.stopE = s.stopE /\ t.stop = s.stop /\ t.trail = s.trail
    /\ t.on = s.on
Closes(t) == t.entry = 0 /\ t.stopE = 0 /\ t.side # "BUY"

LEMMA StopSteps ==
    ASSUME PairTypeOK, PairNext, ~Sync, ~Trail, ~BreakEven, ~Trailed, ~Buy, ~Rollback
    PROVE  SameStops(ps, ps') \/ Closes(ps')
<1> USE DEF SameStops
<1>0. ps \in PairStates BY DEF PairTypeOK
<1>a. Closes(Reset("SELL")) /\ Closes([Reset("SELL") EXCEPT !.taken = ps.taken])
      /\ Closes([Closed EXCEPT !.slId = ps.slId, !.placed = ps.placed])
  BY DEF Closes, Reset, Closed
<1>b. /\ \A x \in BOOLEAN : SameStops(ps, [ps EXCEPT !.placed = x])
      /\ \A i, x : SameStops(ps, [ps EXCEPT !.slId = i, !.placed = x])
      /\ SameStops(ps, [ps EXCEPT !.slId = NoId, !.placed = FALSE])
      /\ \A f : SameStops(ps, [ps EXCEPT !.taken = f])
  BY <1>0 DEF PairStates
<1>c. (UNCHANGED ps) => SameStops(ps, ps') OBVIOUS
<1>d. \A q, price, r : Place(q, price, r) => SameStops(ps, ps')
  BY <1>b DEF Place
<1> HIDE DEF SameStops
<1>1. CASE CycleStart \/ HaltedCycle \/ FullCycle \/ NoPoll \/ Poll \/ FetchBalances \/ FetchPrice
  <2>1. CASE CycleStart
    <3>1. UNCHANGED ps \/ \E x \in BOOLEAN : ps' = [ps EXCEPT !.placed = x]
      BY <2>1 DEF CycleStart
    <3> QED BY <1>b, <1>c, <3>1
  <2>2. CASE Poll
    <3>1. UNCHANGED ps \/ ps' = Reset("SELL") BY <2>2 DEF Poll
    <3> QED BY <1>a, <1>c, <3>1
  <2>3. CASE HaltedCycle \/ FullCycle \/ NoPoll \/ FetchBalances \/ FetchPrice
    BY <1>c, <2>3 DEF HaltedCycle, FullCycle, NoPoll, FetchBalances, FetchPrice, pairVars, botVars
  <2> QED BY <1>1, <2>1, <2>2, <2>3
<1>2. CASE NoTrailing \/ PartialNext \/ StopCheck \/ NoDust \/ NoSignal \/ CoolDownEnds \/ Market
  BY <1>c, <1>2 DEF NoTrailing, PartialNext, StopCheck, NoDust, NoSignal, CoolDownEnds,
                    Market, botVars
<1>3. CASE CanceledRead \/ SoldRead \/ DustRead \/ SignalRead
  BY <1>c, <1>3 DEF CanceledRead, SoldRead, DustRead, SignalRead, Reread
<1>4. CASE MoveCancel \/ StaleCancel \/ GuardCancel \/ PartialCancel \/ SellSignal
  <2>1. UNCHANGED ps \/ ps' = [ps EXCEPT !.slId = NoId, !.placed = FALSE]
    BY <1>4 DEF MoveCancel, StaleCancel, GuardCancel, PartialCancel, SellSignal, CancelForSale
  <2> QED BY <1>b, <1>c, <2>1
<1>5. CASE MovePlace \/ Restore \/ PartialPlace \/ Protect
  <2>1. UNCHANGED ps \/ \E q, price, r : Place(q, price, r)
    BY <1>5 DEF MovePlace, Restore, PartialPlace, Protect
  <2> QED BY <1>c, <1>d, <2>1
<1>6. CASE PartialSync \/ PartialSell
  <2>1. CASE PartialSync
    BY <1>b, <1>c, <2>1 DEF PartialSync
  <2>2. CASE PartialSell
    <3>1. UNCHANGED ps \/ ps' = [ps EXCEPT !.taken[job.k] = TRUE]
      BY <2>2 DEF PartialSell
    <3>2. [ps EXCEPT !.taken[job.k] = TRUE]
            = [ps EXCEPT !.taken = [ps.taken EXCEPT ![job.k] = TRUE]]
      BY <1>0 DEF PairStates
    <3> QED BY <1>b, <1>c, <3>1, <3>2
  <2> QED BY <1>6, <2>1, <2>2
<1>7. CASE ZeroBalance \/ FilledCheck \/ ManualSell \/ DustReset \/ DustSell \/ SignalSell
  <2>1. \/ UNCHANGED ps
        \/ ps' = Reset("SELL")
        \/ ps' = [Reset("SELL") EXCEPT !.taken = ps.taken]
        \/ ps' = [Closed EXCEPT !.slId = ps.slId, !.placed = ps.placed]
    BY <1>7 DEF ZeroBalance, FilledCheck, ManualSell, DustReset, DustSell, SignalSell
  <2> QED BY <1>a, <1>c, <2>1
<1> QED BY <1>1, <1>2, <1>3, <1>4, <1>5, <1>6, <1>7 DEF PairNext, Cycle

(* The levels before and after a step that keeps the position. *)
LEMMA NextStops ==
    ASSUME PairTypeOK, BuyAboveStop, StopsSet, PairNext
    PROVE  StopsSet' /\ (SamePosition => EffectiveStop(ps') >= EffectiveStop(ps))
<1>0. ps \in PairStates /\ ctx \in Snapshots /\ hist.px \in Int /\ StopDist \in Nat
      /\ TrailDist \in Nat
  BY CycleAssumption DEF PairTypeOK, ExTypeOK
<1>a. /\ ps.entry \in Int /\ ps.stopE \in Int /\ ps.stop \in Int /\ ps.trail \in Int
      /\ ps.on \in BOOLEAN /\ ctx.px \in Int
  BY <1>0 DEF PairStates, Snapshots
<1>b. EffectiveStop(ps) \in Int BY <1>0, LevelTypes
<1>1. CASE SameStops(ps, ps') \/ Closes(ps')
  <2>1. CASE SameStops(ps, ps')
    BY <1>b, <2>1 DEF SameStops, StopsSet, EffectiveStop, SoftStop
  <2>2. CASE Closes(ps') BY <2>2 DEF Closes, StopsSet, SamePosition
  <2> QED BY <1>1, <2>1, <2>2
<1>2. CASE Sync
  <2>1. CASE UNCHANGED ps BY <1>1, <2>1 DEF SameStops
  <2>2. CASE ps' = SyncedEntry(SyncedSide(ps))
    <3> DEFINE s == SyncedSide(ps)
    <3>1. s \in [side : Sides \cup {hist.side}, entry : Int, stopE : Int, stop : Int, act : Int,
                 trail : Int, on : BOOLEAN, max : Int, taken : [Pos -> BOOLEAN],
                 be : BOOLEAN, slId : StopIds \cup {NoId}, placed : BOOLEAN]
          /\ SameStops(ps, s)
      BY <1>0 DEF SyncedSide, PairStates, SameStops
    <3> HIDE DEF s
    <3>2. CASE hist.side # "BUY"
      <4>1. ps' = s BY <2>2, <3>2 DEF SyncedEntry, s
      <4> QED BY <1>1, <3>1, <4>1
    <3>3. CASE hist.side = "BUY"
      <4>1. ps' = [s EXCEPT !.entry = IF s.entry = 0 THEN hist.px ELSE s.entry,
                            !.stopE = IF s.stopE = 0 THEN hist.px - StopDist ELSE s.stopE,
                            !.stop = IF s.stopE = 0 THEN hist.px - StopDist ELSE s.stop,
                            !.act = IF s.act = 0 THEN hist.px + TrailDist ELSE s.act,
                            !.side = "BUY"]
        BY <2>2, <3>3 DEF SyncedEntry, s
      <4>2. /\ ps'.entry = IF ps.entry = 0 THEN hist.px ELSE ps.entry
            /\ ps'.stopE = IF ps.stopE = 0 THEN hist.px - StopDist ELSE ps.stopE
            /\ ps'.stop = IF ps.stopE = 0 THEN hist.px - StopDist ELSE ps.stop
            /\ ps'.trail = ps.trail /\ ps'.on = ps.on
        BY <3>1, <4>1 DEF SameStops
      <4>3. hist.px - StopDist # 0 BY <1>0, <3>3 DEF BuyAboveStop
      <4>4. StopsSet' BY <4>2, <4>3 DEF StopsSet
      <4>5. SamePosition => SameStops(ps, ps')
        BY <4>2 DEF SamePosition, StopsSet, SameStops
      <4> QED BY <1>1, <4>4, <4>5
    <3> QED BY <3>2, <3>3
  <2> QED BY <1>2, <2>1, <2>2 DEF Sync
<1>3. CASE Trail
  <2> DEFINE level == HighWater(ps) - TrailDist
  <2>1. level \in Int BY <1>0, LevelTypes
  <2>2. \/ UNCHANGED ps
        \/ /\ ps' = [ps EXCEPT !.trail = level]
           /\ Activates(ps) \/ (ps.on /\ level > ps.trail)
    BY <1>3 DEF Trail
  <2> HIDE DEF level
  <2>3. CASE UNCHANGED ps BY <1>1, <2>3 DEF SameStops
  <2>4. CASE /\ ps' = [ps EXCEPT !.trail = level]
             /\ Activates(ps) \/ (ps.on /\ level > ps.trail)
    <3>1. /\ ps'.entry = ps.entry /\ ps'.stopE = ps.stopE /\ ps'.stop = ps.stop
          /\ ps'.trail = level /\ ps'.on = ps.on
      BY <1>0, <2>4 DEF PairStates
    <3>2. ps.on => level > ps.trail BY <2>4 DEF Activates
    <3>3. StopsSet' BY <3>1 DEF StopsSet
    <3>4. EffectiveStop(ps') >= EffectiveStop(ps)
      BY <1>a, <2>1, <3>1, <3>2 DEF EffectiveStop, SoftStop
    <3> QED BY <3>3, <3>4
  <2> QED BY <2>2, <2>3, <2>4
<1>4. CASE BreakEven
  <2>1. CASE UNCHANGED ps BY <1>1, <2>1 DEF SameStops
  <2>2. CASE ps' = [ps EXCEPT !.stop = ps.entry] /\ ps.entry # 0 /\ ps.entry > ps.stop
    <3>1. /\ ps'.entry = ps.entry /\ ps'.stopE = ps.stopE /\ ps'.stop = ps.entry
          /\ ps'.trail = ps.trail /\ ps'.on = ps.on
      BY <1>0, <2>2 DEF PairStates
    <3>2. ps.stopE # 0 /\ ps.stop # 0 BY <2>2 DEF StopsSet
    <3>3. StopsSet' BY <2>2, <3>1 DEF StopsSet
    <3>4. EffectiveStop(ps') >= EffectiveStop(ps)
      BY <1>a, <2>2, <3>1, <3>2 DEF EffectiveStop, SoftStop
    <3> QED BY <3>3, <3>4
  <2> QED BY <1>4, <2>1, <2>2 DEF BreakEven, BreaksEven
<1>5. CASE Trailed
  <2>1. ps' = [ps EXCEPT !.on = ps.on \/ Activates(ps), !.max = HighWater(ps),
                         !.be = ps.be \/ BreaksEven(ps)]
    BY <1>5 DEF Trailed
  <2>2. /\ ps'.entry = ps.entry /\ ps'.stopE = ps.stopE /\ ps'.stop = ps.stop
        /\ ps'.trail = ps.trail /\ ps'.on = (ps.on \/ Activates(ps))
    BY <1>0, <2>1 DEF PairStates
  <2>3. StopsSet' BY <2>2 DEF StopsSet
  <2>4. ps.on => ps'.on BY <2>2
  <2>5. EffectiveStop(ps') >= EffectiveStop(ps)
    BY <1>a, <2>2, <2>4 DEF EffectiveStop, SoftStop
  <2> QED BY <2>3, <2>5
<1>6. CASE Buy
  <2>1. CASE UNCHANGED ps BY <1>1, <2>1 DEF SameStops
  <2>2. CASE ps' = Bought(ctx.px)
    <3>1. ps'.stopE = ctx.px - StopDist /\ ps'.stop = ctx.px - StopDist
      BY <1>0, <2>2 DEF Bought, PairStates
    <3>2. ctx.px - StopDist # 0 BY <1>0, <1>6, CycleAssumption DEF Buy, Snapshots
    <3>3. ps.side # "BUY" BY <1>6 DEF Buy, MayBuy
    <3> QED BY <3>1, <3>2, <3>3 DEF StopsSet, SamePosition
  <2> QED BY <1>6, <2>1, <2>2 DEF Buy
<1>7. CASE Rollback
  <2>1. CASE UNCHANGED ps BY <1>1, <2>1 DEF SameStops
  <2>2. CASE ps' = [ps EXCEPT !.entry = 0, !.side = "SELL", !.slId = NoId, !.placed = FALSE]
    <3>1. ps'.entry = 0 /\ ps'.side = "SELL" /\ ps'.stopE = ps.stopE /\ ps'.stop = ps.stop
      BY <1>0, <2>2 DEF PairStates
    <3> QED BY <3>1 DEF StopsSet, SamePosition
  <2> QED BY <1>7, <2>1, <2>2 DEF Rollback
<1> QED BY <1>1, <1>2, <1>3, <1>4, <1>5, <1>6, <1>7, StopSteps

(* Whatever fails, and whichever of the trailing, break-even and history   *)
(* rules touches it, the stop that the bot applies to a position only goes *)
(* up while the position stays open.                                       *)
THEOREM StopNeverFalls == Spec => EffectiveStopNeverFalls
<1> DEFINE I == PairTypeOK /\ JobPos /\ BuyAboveStop /\ StopsSet
<1>1. Init => I
  BY InitTypes DEF Init, ExInit, BuyAboveStop, StopsSet, Closed
<1>2. I /\ [PairNext]_pairVars => I'
  <2>1. I /\ PairNext => I' BY NextTypes, NextJobPos, NextBuyAboveStop, NextStops
  <2>2. I /\ UNCHANGED pairVars => I'
    BY StutterTypes DEF pairVars, exVars, botVars, BuyAboveStop, StopsSet
  <2> QED BY <2>1, <2>2
<1>3. I /\ [PairNext]_pairVars => [SamePosition => EffectiveStop(ps') >= EffectiveStop(ps)]_pairVars
  BY NextStops
<1> QED BY <1>1, <1>2, <1>3, PairSteps, PTL DEF EffectiveStopNeverFalls

-----------------------------------------------------------------------------
(* What the bot believes of its stop order.  When every reply arrives, the *)
(* identifier and the flag sl_exchange_placed change together with the     *)
(* order they stand for, whatever calls are refused or fail.               *)

NamedLive == Armed => ps.slId \in Live \/ HasFilled(ps.slId)

(* An order that is open or has filled is not lost by any call but the one *)
(* that cancels it, and that one succeeds or does nothing.                 *)
Standing(i) == i \in Live \/ HasFilled(i)
StandingKept == \A j \in StopIds : Standing(j) => Standing(j)'

LEMMA CallsKeepStanding ==
    ASSUME ExTypeOK, ~LostReplies \/ faults' = 0
    PROVE  /\ \A i, r : CancelCall(i, r) /\ r # "ok" => StandingKept
           /\ \A q, r : MarketSellCall(q, r) => StandingKept
           /\ \A q, p, r : MarketBuyCall(q, p, r) => StandingKept
           /\ \A i \in StopIds : StopFills(i) \/ FillAges(i) => StandingKept
           /\ \A i \in StopIds : \A q, p, r :
                PlaceStopCall(i, q, p, r) => IF r = "ok" THEN Standing(i)' ELSE StandingKept
           /\ (UNCHANGED ord) => StandingKept
<1> USE DEF Standing, StandingKept, Live, HasFilled
<1>0. faults \in Nat BY SpotAssumption DEF ExTypeOK
<1>1. \A i, r : CancelCall(i, r) /\ r # "ok" => StandingKept
  BY <1>0 DEF CancelCall, Answered, Effective, Faulty
<1>2. \A q, r : MarketSellCall(q, r) => StandingKept BY DEF MarketSellCall
<1>3. \A q, p, r : MarketBuyCall(q, p, r) => StandingKept BY DEF MarketBuyCall, ExTypeOK
<1>4. ASSUME NEW i \in StopIds, StopFills(i) \/ FillAges(i)
      PROVE  StandingKept
  <2>1. CASE StopFills(i) BY <2>1 DEF StopFills, ExTypeOK
  <2>2. CASE FillAges(i) BY <2>2 DEF FillAges, ExTypeOK
  <2> QED BY <1>4, <2>1, <2>2
<1>5. \A i \in StopIds : \A q, p, r :
        PlaceStopCall(i, q, p, r) => IF r = "ok" THEN Standing(i)' ELSE StandingKept
  BY <1>0 DEF PlaceStopCall, Answered, Effective, Faulty, ExTypeOK
<1>6. (UNCHANGED ord) => StandingKept OBVIOUS
<1> QED
  <2> HIDE DEF StandingKept
  <2> QED BY <1>1, <1>2, <1>3, <1>4, <1>5, <1>6

LEMMA NextNamedLive ==
    ASSUME PairTypeOK, ~LostReplies \/ faults' = 0, NamedLive, PairNext
    PROVE  NamedLive'
<1> USE DEF Goto
<1>0. ExTypeOK /\ ps \in PairStates /\ NoId \notin StopIds
  BY CycleAssumption DEF PairTypeOK
<1>a. ASSUME ps'.slId = ps.slId, ps'.placed = ps.placed, StandingKept PROVE NamedLive'
  <2>1. ps.slId \in StopIds \cup {NoId} BY <1>0 DEF PairStates
  <2> QED BY <1>a, <2>1 DEF NamedLive, Armed, StandingKept, Standing
<1>b. ~Armed' => NamedLive' BY DEF NamedLive
<1>c. /\ ~Reset("SELL").placed
      /\ ~[Reset("SELL") EXCEPT !.taken = ps.taken].placed
      /\ ~[ps EXCEPT !.slId = NoId, !.placed = FALSE].placed
      /\ ~[ps EXCEPT !.entry = 0, !.side = "SELL", !.slId = NoId, !.placed = FALSE].placed
  BY <1>0 DEF Reset, Closed, PairStates
<1>d. ~ps'.placed => NamedLive' BY <1>b DEF Armed
<1>e. UNCHANGED <<ps, ord>> => NamedLive' BY <1>0, <1>a, CallsKeepStanding
<1>f. ASSUME NEW q, NEW price, NEW r, Place(q, price, r) PROVE NamedLive'
  <2>1. PICK i \in StopIds :
          /\ PlaceStopCall(i, q, price, r)
          /\ ps' = IF r = "ok" THEN [ps EXCEPT !.slId = i, !.placed = TRUE] ELSE ps
    BY <1>f DEF Place
  <2>2. CASE r = "ok"
    <3>1. ps'.slId = i BY <1>0, <2>1, <2>2 DEF PairStates
    <3>2. Standing(i)' BY <1>0, <2>1, <2>2, CallsKeepStanding
    <3> QED BY <3>1, <3>2 DEF NamedLive, Standing
  <2>3. CASE r # "ok"
    <3>1. ps' = ps /\ StandingKept BY <1>0, <2>1, <2>3, CallsKeepStanding
    <3> QED BY <1>a, <3>1
  <2> QED BY <2>2, <2>3
<1>1. CASE CycleStart
  <2>1. UNCHANGED ord BY <1>1 DEF CycleStart
  <2>2. CASE UNCHANGED ps BY <1>e, <2>1, <2>2
  <2>3. CASE ps.slId \in Live /\ ps' = [ps EXCEPT !.placed = TRUE]
    <3>1. ps'.slId = ps.slId BY <1>0, <2>3 DEF PairStates
    <3>2. ps.slId \in Live' BY <2>1, <2>3 DEF Live
    <3> QED BY <3>1, <3>2 DEF NamedLive
  <2>4. CASE ps' = [ps EXCEPT !.placed = FALSE]
    <3>1. ~ps'.placed BY <1>0, <2>4 DEF PairStates
    <3> QED BY <1>d, <3>1
  <2>5. \/ UNCHANGED ps
        \/ \E r \in {"ok", "err"} : ps' = [ps EXCEPT !.placed = (r = "ok" /\ ps.slId \in Live)]
    BY <1>1 DEF CycleStart
  <2>6. \/ UNCHANGED ps
        \/ ps.slId \in Live /\ ps' = [ps EXCEPT !.placed = TRUE]
        \/ ps' = [ps EXCEPT !.placed = FALSE]
    <3>1. CASE ps.slId \in Live BY <2>5, <3>1
    <3>2. CASE ps.slId \notin Live BY <2>5, <3>2
    <3> QED BY <3>1, <3>2
  <2> QED BY <2>2, <2>3, <2>4, <2>6
<1>2. CASE HaltedCycle \/ FullCycle \/ NoPoll \/ FetchBalances \/ FetchPrice
           \/ NoTrailing \/ PartialNext \/ StopCheck \/ NoDust \/ NoSignal \/ CoolDownEnds
           \/ CanceledRead \/ SoldRead \/ DustRead \/ SignalRead
  <2>1. UNCHANGED <<ps, ord>>
    BY <1>2 DEF HaltedCycle, FullCycle, NoPoll, FetchBalances, FetchPrice, NoTrailing, PartialNext,
                StopCheck, NoDust, NoSignal, CoolDownEnds, CanceledRead, SoldRead, DustRead,
                SignalRead, Reread, pairVars, botVars, exVars
  <2> QED BY <1>e, <2>1
<1>3. CASE Poll \/ ZeroBalance \/ FilledCheck \/ DustReset
  <2>1. /\ UNCHANGED ord
        /\ UNCHANGED ps \/ ps' = Reset("SELL") \/ ps' = [Reset("SELL") EXCEPT !.taken = ps.taken]
    BY <1>3 DEF Poll, ZeroBalance, FilledCheck, DustReset, exVars
  <2> QED BY <1>c, <1>d, <1>e, <2>1
<1>4. CASE Sync \/ Trail \/ BreakEven \/ Trailed \/ PartialSync
  <2>1. UNCHANGED ord BY <1>4 DEF Sync, Trail, BreakEven, Trailed, PartialSync, exVars
  <2>2. SyncedEntry(SyncedSide(ps)).slId = ps.slId /\ SyncedEntry(SyncedSide(ps)).placed = ps.placed
    <3>1. SyncedSide(ps).slId = ps.slId /\ SyncedSide(ps).placed = ps.placed
      BY <1>0 DEF SyncedSide, PairStates
    <3>2. SyncedEntry(SyncedSide(ps)).slId = SyncedSide(ps).slId
          /\ SyncedEntry(SyncedSide(ps)).placed = SyncedSide(ps).placed
      BY <1>0 DEF SyncedEntry, SyncedSide, PairStates
    <3> QED BY <3>1, <3>2
  <2>3. ps'.slId = ps.slId /\ ps'.placed = ps.placed
    <3>1. CASE Sync BY <2>2, <3>1 DEF Sync
    <3>2. CASE Trail BY <1>0, <3>2 DEF Trail, PairStates
    <3>3. CASE BreakEven BY <1>0, <3>3 DEF BreakEven, PairStates
    <3>4. CASE Trailed BY <1>0, <3>4 DEF Trailed, PairStates
    <3>5. CASE PartialSync BY <1>0, <3>5 DEF PartialSync, PairStates
    <3> QED BY <1>4, <3>1, <3>2, <3>3, <3>4, <3>5
  <2> QED BY <1>0, <1>a, <2>1, <2>3, CallsKeepStanding
<1>5. CASE MoveCancel \/ StaleCancel \/ GuardCancel \/ PartialCancel \/ SellSignal
  <2>1. \/ UNCHANGED <<ps, ord>>
        \/ ps' = [ps EXCEPT !.slId = NoId, !.placed = FALSE]
        \/ UNCHANGED ps /\ \E r : CancelCall(ps.slId, r) /\ r # "ok"
    BY <1>5 DEF MoveCancel, StaleCancel, GuardCancel, PartialCancel, SellSignal,
                CancelForSale, exVars
  <2> QED BY <1>0, <1>a, <1>c, <1>d, <1>e, <2>1, CallsKeepStanding
<1>6. CASE MovePlace \/ Restore \/ PartialPlace \/ Protect
  <2>1. UNCHANGED <<ps, ord>> \/ \E q, price, r : Place(q, price, r)
    BY <1>6 DEF MovePlace, Restore, PartialPlace, Protect, exVars
  <2> QED BY <1>e, <1>f, <2>1
<1>7. CASE PartialSell \/ ManualSell \/ DustSell \/ SignalSell \/ Rollback
  <2>1. UNCHANGED ord
    BY <1>7 DEF PartialSell, ManualSell, DustSell, SignalSell, Rollback, MarketSellCall, exVars
  <2>2. \/ ps'.slId = ps.slId /\ ps'.placed = ps.placed
        \/ ~ps'.placed
    <3>1. CASE PartialSell BY <1>0, <3>1 DEF PartialSell, PairStates
    <3>2. CASE ManualSell \/ DustSell
      <4>1. UNCHANGED ps \/ ps' = Reset("SELL") BY <3>2 DEF ManualSell, DustSell
      <4> QED BY <1>c, <4>1
    <3>3. CASE SignalSell
      <4>1. UNCHANGED ps \/ ps' = [Closed EXCEPT !.slId = ps.slId, !.placed = ps.placed]
        BY <3>3 DEF SignalSell
      <4> QED BY <4>1 DEF Closed
    <3>4. CASE Rollback
      <4>1. \/ UNCHANGED ps
            \/ ps' = [ps EXCEPT !.entry = 0, !.side = "SELL", !.slId = NoId, !.placed = FALSE]
        BY <3>4 DEF Rollback
      <4> QED BY <1>c, <4>1
    <3> QED BY <1>7, <3>1, <3>2, <3>3, <3>4
  <2> QED BY <1>0, <1>a, <1>d, <2>1, <2>2, CallsKeepStanding
<1>8. CASE Buy
  <2>1. StandingKept
    <3>1. \E q, r : MarketBuyCall(q, ctx.px, r) BY <1>8 DEF Buy
    <3> QED BY <1>0, <3>1, CallsKeepStanding
  <2>2. ps'.slId = ps.slId /\ ps'.placed = ps.placed
    BY <1>0, <1>8 DEF Buy, Bought, PairStates
  <2> QED BY <1>a, <2>1, <2>2
<1>9. CASE Market
  <2>1. PICK i \in StopIds : StopFills(i) \/ FillAges(i) BY <1>9 DEF Market
  <2>2. UNCHANGED ps BY <1>9 DEF Market, botVars
  <2> QED BY <1>0, <1>a, <2>1, <2>2, CallsKeepStanding
<1> QED BY <1>1, <1>2, <1>3, <1>4, <1>5, <1>6, <1>7, <1>8, <1>9 DEF PairNext, Cycle

(* As long as no reply is lost, an armed position has an order on the      *)
(* exchange or one that filled, however many calls fail.  With lost        *)
(* replies it need not: a cancellation may have taken effect unnoticed.    *)
THEOREM ArmedPositionCovered ==
    ASSUME ~LostReplies
    PROVE  Spec => []ArmedMeansLive
<1>1. Init => PairTypeOK /\ JobPos /\ NamedLive
  BY InitTypes DEF Init, NamedLive, Armed, Closed
<1>2. PairTypeOK /\ JobPos /\ NamedLive /\ [PairNext]_pairVars =>
      (PairTypeOK /\ JobPos /\ NamedLive)'
  <2>1. ASSUME PairTypeOK, JobPos, NamedLive, PairNext PROVE (PairTypeOK /\ JobPos /\ NamedLive)'
    BY <2>1, NextTypes, NextJobPos, NextNamedLive
  <2>2. ASSUME PairTypeOK, JobPos, NamedLive, UNCHANGED pairVars
        PROVE  (PairTypeOK /\ JobPos /\ NamedLive)'
    BY <2>2, StutterTypes DEF pairVars, exVars, botVars, NamedLive, Armed, Live, HasFilled
  <2> QED BY <2>1, <2>2
<1>3. PairTypeOK /\ JobPos /\ NamedLive => ArmedMeansLive
  BY DEF NamedLive, ArmedMeansLive
<1> QED BY <1>1, <1>2, <1>3, PairSteps, PTL

-----------------------------------------------------------------------------
(* Never two stop orders.  A path that places one computes the quantity on *)
(* a snapshot, and it may run while an order whose reply was lost is still *)
(* open.  It is the quantity that makes the exchange refuse the second     *)
(* one: it covers all that the snapshot holds but less than a step, while  *)
(* an open order locks, and every sale removes, at least a step.  A buy of *)
(* the minimum itself escapes the argument, and the claim does not hold    *)
(* for it: BigBuys excludes it.                                            *)

BigBuys == \A q \in BuyQtys : Floor(q) >= MinQty + Step

OneLive ==
    /\ Live = {} => locked = 0
    /\ \A i \in Live :
         /\ Live = {i} /\ locked = ord[i].qty /\ locked >= MinQty
         /\ locked = MinQty => free > 0 /\ free < Step
SnapshotExact ==
    pc \notin {"idle", "poll", "fetch", "protect", "rollback"} =>
        Held = ctx.tot \/ Held + Step <= ctx.tot
MovesEnough == pc \in {"moveCancel", "movePlace"} => ctx.tot > MinQty
ProtectsAll ==
    pc = "protect" =>
        /\ job.arg >= MinQty + Step /\ Held < job.arg + MinQty + Step
        /\ Live # {} => locked = job.arg
OneStopInv == OneLive /\ SnapshotExact /\ MovesEnough /\ ProtectsAll

(* Coins leave the account by a step at least, or not at all. *)
Shrinks == Held' = Held \/ Held' + Step <= Held

(* What the paths that place a stop order see to. *)
RoomFor(q) == q <= free => Live = {} /\ (q = MinQty => q < free /\ free < q + Step)

(* Rounding down loses less than a step. *)
LEMMA FloorBounds ==
    ASSUME NEW q \in Int
    PROVE  Floor(q) <= q /\ q < Floor(q) + Step
<1>1. Step \in Nat \ {0} BY SpotAssumption
<1>2. q = (q \div Step) * Step + (q % Step) /\ q % Step \in 0..(Step - 1)
  BY <1>1
<1> QED BY <1>1, <1>2, FloorType DEF Floor

LEMMA CallsKeepOneLive ==
    ASSUME ExTypeOK, OneLive
    PROVE  /\ \A i, r : CancelCall(i, r) => OneLive' /\ Shrinks
           /\ \A q \in Int : \A r : MarketSellCall(q, r) => OneLive' /\ Shrinks
           /\ \A i \in StopIds : StopFills(i) \/ FillAges(i) => OneLive' /\ Shrinks
           /\ \A i \in StopIds : \A q, price \in Int : \A r :
                PlaceStopCall(i, q, price, r) /\ RoomFor(q) => OneLive' /\ Shrinks
           /\ UNCHANGED <<free, locked, ord>> => OneLive' /\ Shrinks
<1>0. /\ free \in Nat /\ locked \in Int /\ MinQty \in Nat \ {0} /\ Step \in Nat \ {0}
      /\ Step <= MinQty
      /\ ord \in [StopIds -> [st : StopStates, qty : Nat, stop : Int, late : BOOLEAN]]
  BY SpotAssumption DEF ExTypeOK
<1>a. Live \subseteq StopIds BY DEF Live
<1>b. ASSUME UNCHANGED <<free, locked, ord>> PROVE OneLive' /\ Shrinks
  BY <1>b DEF OneLive, Live, Shrinks, Held
(* The one open order leaves the book. *)
<1>c. ASSUME NEW i \in Live, NEW s \in StopStates \ {"LIVE"}, ord' = [ord EXCEPT ![i] = Ended(s)],
             locked' = locked - ord[i].qty
      PROVE  OneLive'
  <2>1. Live = {i} /\ locked' = 0 BY <1>0, <1>c DEF OneLive
  <2>2. Live' = {}
    <3>1. \A j \in StopIds : j # i => ord'[j] = ord[j] BY <1>0, <1>c
    <3>2. ord'[i].st = s BY <1>0, <1>a, <1>c
    <3> QED BY <1>c, <2>1, <3>1, <3>2 DEF Live
  <2> QED BY <2>1, <2>2 DEF OneLive
<1>1. ASSUME NEW i, NEW r, CancelCall(i, r) PROVE OneLive' /\ Shrinks
  <2>1. CASE r \in Effective
    <3>1. i \in Live BY <1>1, <2>1 DEF CancelCall, Answered, Effective
    <3>2. /\ ord' = [ord EXCEPT ![i] = Ended("CANCELED")]
          /\ free' = free + ord[i].qty /\ locked' = locked - ord[i].qty
      BY <1>1, <2>1 DEF CancelCall
    <3>3. ord[i].qty \in Nat BY <1>0, <1>a, <3>1
    <3>5. "CANCELED" \in StopStates \ {"LIVE"} BY DEF StopStates
    <3>4. OneLive' BY ONLY <1>c, <3>1, <3>2, <3>5
    <3> QED BY <1>0, <3>2, <3>3, <3>4 DEF Shrinks, Held
  <2>2. CASE r \notin Effective BY <1>1, <1>b, <2>2 DEF CancelCall
  <2> QED BY <2>1, <2>2
<1>2. ASSUME NEW q \in Int, NEW r, MarketSellCall(q, r) PROVE OneLive' /\ Shrinks
  <2>1. ord' = ord /\ locked' = locked BY <1>2 DEF MarketSellCall
  <2>2. CASE r \in Effective
    <3>1. q >= MinQty /\ q <= free /\ free' = free - q
      BY <1>2, <2>2 DEF MarketSellCall, Answered, Effective
    <3>2. Shrinks BY <1>0, <2>1, <3>1 DEF Shrinks, Held
    <3>3. OneLive' BY <1>0, <2>1, <3>1 DEF OneLive, Live
    <3> QED BY <3>2, <3>3
  <2>3. CASE r \notin Effective
    <3>1. free' = free BY <1>2, <2>3 DEF MarketSellCall
    <3> QED BY <1>b, <2>1, <3>1
  <2> QED BY <2>2, <2>3
<1>3. ASSUME NEW i \in StopIds, StopFills(i) PROVE OneLive' /\ Shrinks
  <2>1. i \in Live /\ ord' = [ord EXCEPT ![i] = Ended("FILLED")]
        /\ locked' = locked - ord[i].qty /\ free' = free
    BY <1>3 DEF StopFills
  <2>4. "FILLED" \in StopStates \ {"LIVE"} BY DEF StopStates
  <2>2. OneLive' BY ONLY <1>c, <2>1, <2>4
  <2>3. ord[i].qty >= MinQty BY <2>1 DEF OneLive
  <2> QED BY <1>0, <2>1, <2>2, <2>3 DEF Shrinks, Held, OneLive
<1>4. ASSUME NEW i \in StopIds, FillAges(i) PROVE OneLive' /\ Shrinks
  <2>1. ord[i].st = "FILLED" /\ ord' = [ord EXCEPT ![i] = Ended("OLD")]
        /\ locked' = locked /\ free' = free
    BY <1>4 DEF FillAges
  <2>2. Live' = Live BY <1>0, <2>1 DEF Live
  <2>3. \A j \in Live : ord'[j] = ord[j] BY <1>0, <2>1 DEF Live
  <2>4. OneLive' BY <2>1, <2>2, <2>3 DEF OneLive
  <2> QED BY <2>1, <2>4 DEF Shrinks, Held
<1>5. ASSUME NEW i \in StopIds, NEW q \in Int, NEW price \in Int, NEW r,
             PlaceStopCall(i, q, price, r), RoomFor(q)
      PROVE  OneLive' /\ Shrinks
  <2>1. CASE r \in Effective
    <3>1. q >= MinQty /\ q <= free BY <1>5, <2>1 DEF PlaceStopCall, Answered, Effective
    <3>2. Live = {} /\ locked = 0 BY <1>0, <1>5, <3>1 DEF OneLive, RoomFor
    <3>3. /\ ord' = [ord EXCEPT ![i] = [st |-> "LIVE", qty |-> q, stop |-> price, late |-> TRUE]]
          /\ free' = free - q /\ locked' = locked + q
      BY <1>5, <2>1 DEF PlaceStopCall
    <3>4. ord'[i].st = "LIVE" /\ ord'[i].qty = q BY <1>0, <3>3
    <3>5. \A j \in StopIds : j # i => ord'[j] = ord[j] BY <1>0, <3>3
    <3>6. Live' = {i} BY <3>2, <3>4, <3>5 DEF Live
    <3>7. locked' = q BY <3>2, <3>3
    <3>8. OneLive' BY <1>0, <1>5, <3>1, <3>3, <3>4, <3>6, <3>7 DEF OneLive, RoomFor
    <3>9. Shrinks BY <1>0, <3>3 DEF Shrinks, Held
    <3> QED BY <3>8, <3>9
  <2>2. CASE r \notin Effective
    <3>1. UNCHANGED <<free, locked, ord>> BY <1>5, <2>2 DEF PlaceStopCall
    <3> QED BY <1>b, <3>1
  <2> QED BY <2>1, <2>2
<1> QED BY <1>b, <1>1, <1>2, <1>3, <1>4, <1>5

LEMMA PlaceKeepsOneLive ==
    ASSUME PairTypeOK, OneLive, NEW q \in Int, NEW price \in Int, NEW r, Place(q, price, r),
           RoomFor(q)
    PROVE  OneLive' /\ Shrinks
BY CallsKeepOneLive DEF Place, PairTypeOK

(* The coins held, and the rounding of what the snapshot says of them. *)
LEMMA SnapshotRoom ==
    ASSUME PairTypeOK, OneLive, NEW q \in Int, q <= ctx.tot, ctx.tot < q + Step,
           ctx.tot > MinQty, Held = ctx.tot \/ Held + Step <= ctx.tot
    PROVE  RoomFor(q)
<1>0. /\ free \in Nat /\ locked \in Int /\ MinQty \in Nat \ {0} /\ Step \in Nat \ {0}
      /\ Step <= MinQty /\ ctx.tot \in Int
  BY SpotAssumption DEF PairTypeOK, ExTypeOK, Snapshots
<1>1. CASE Live = {}
  <2>1. Held = free BY <1>0, <1>1 DEF OneLive, Held
  <2> QED BY <1>0, <1>1, <2>1 DEF RoomFor
<1>2. CASE Live # {}
  <2>1. locked >= MinQty BY <1>2 DEF OneLive
  <2>2. Held = free + locked BY DEF Held
  <2> QED BY <1>0, <2>1, <2>2 DEF RoomFor
<1> QED BY <1>1, <1>2

(* A stop order that is taken leaves no more than a residue free. *)
Fits(q) == q <= free => free < q + MinQty + Step

(* What a step may do to the coins and the orders. *)
LEMMA CoinSteps ==
    ASSUME PairTypeOK, JobPos, FlatInv, OneStopInv, PairNext
    PROVE  \/ UNCHANGED <<free, locked, ord>>
           \/ \E i, r : CancelCall(i, r)
           \/ \E q \in Int : \E r : MarketSellCall(q, r)
           \/ \E q, price \in Int : \E r : Place(q, price, r) /\ RoomFor(q) /\ Fits(q)
           \/ \E i \in StopIds : StopFills(i) \/ FillAges(i)
           \/ Buy /\ Live = {} /\ Held <= MinQty
<1> USE DEF Goto, Keep
<1>0. /\ OneLive /\ ExTypeOK /\ Held \in Int
      /\ ctx.tot \in Int /\ ctx.free \in Int /\ job.arg \in Int /\ ps.stopE \in Int
      /\ SoftStop(ps) \in Int /\ free \in Nat /\ locked \in Int
      /\ MinQty \in Nat \ {0} /\ Step \in Nat \ {0} /\ Step <= MinQty
  <2>1. ps \in PairStates /\ ctx \in Snapshots /\ job \in Jobs BY DEF PairTypeOK
  <2>2. ctx.tot \in Int /\ ctx.free \in Int /\ job.arg \in Int /\ ps.stopE \in Int
    BY <2>1 DEF Snapshots, Jobs, PairStates
  <2>3. Held \in Int /\ ExTypeOK BY DEF PairTypeOK, ExTypeOK, Held
  <2>4. free \in Nat /\ locked \in Int BY <2>3 DEF ExTypeOK
  <2> QED BY <2>1, <2>2, <2>3, <2>4, LevelTypes, SpotAssumption DEF OneStopInv
<1>a. Floor(ctx.tot) \in Int /\ Floor(ctx.free) \in Int BY <1>0, FloorType
<1>b. Floor(ctx.tot) <= ctx.tot /\ ctx.tot < Floor(ctx.tot) + Step BY <1>0, FloorBounds
<1>c. free <= Held BY <1>0 DEF OneLive, Held
<1>1. CASE \/ CycleStart \/ HaltedCycle \/ FullCycle \/ NoPoll \/ Poll
           \/ FetchBalances \/ FetchPrice \/ Sync
  BY <1>1 DEF CycleStart, HaltedCycle, FullCycle, NoPoll, Poll, FetchBalances, FetchPrice, Sync,
              pairVars, exVars
<1>2. CASE NoTrailing \/ Trail \/ BreakEven \/ Trailed \/ PartialSync \/ PartialNext
           \/ StopCheck \/ ZeroBalance \/ FilledCheck \/ DustReset \/ NoDust \/ NoSignal
           \/ CoolDownEnds
  BY <1>2 DEF NoTrailing, Trail, BreakEven, Trailed, PartialSync, PartialNext,
              StopCheck, ZeroBalance, FilledCheck, DustReset, NoDust, NoSignal,
              CoolDownEnds, exVars
<1>3. CASE CanceledRead \/ SoldRead \/ DustRead \/ SignalRead
  BY <1>3 DEF CanceledRead, SoldRead, DustRead, SignalRead, Reread
<1>4. CASE MoveCancel \/ StaleCancel \/ GuardCancel \/ PartialCancel \/ SellSignal
  <2>1. (\E r : CancelCall(ps.slId, r)) \/ UNCHANGED exVars
    BY <1>4 DEF MoveCancel, StaleCancel, GuardCancel, PartialCancel, SellSignal, CancelForSale
  <2> QED BY <2>1 DEF exVars
<1>5. CASE MovePlace \/ Restore \/ PartialPlace
  <2>1. SnapshotExact /\ pc \in {"movePlace", "restore", "partialPlace"}
    BY <1>5 DEF OneStopInv, MovePlace, Restore, PartialPlace
  <2>2. Held = ctx.tot \/ Held + Step <= ctx.tot BY <2>1 DEF SnapshotExact
  <2>3. \/ UNCHANGED exVars
        \/ /\ ctx.tot > MinQty
           /\ \E q, price \in Int : \E r :
                /\ q \in {Floor(ctx.tot), Larger(Floor(ctx.tot), MinQty)}
                /\ Place(q, price, r)
    <3>1. Larger(Floor(ctx.tot), MinQty) \in Int BY <1>0, <1>a DEF Larger
    <3>2. CASE MovePlace
      <4>1. ctx.tot > MinQty BY <3>2 DEF OneStopInv, MovesEnough, MovePlace
      <4> QED BY <1>0, <3>1, <3>2, <4>1 DEF MovePlace
    <3>3. CASE Restore BY <1>0, <1>a, <3>3 DEF Restore
    <3>4. CASE PartialPlace BY <1>0, <1>a, <3>4 DEF PartialPlace
    <3> QED BY <1>5, <3>2, <3>3, <3>4
  <2>4. CASE UNCHANGED exVars BY <2>4 DEF exVars
  <2>5. ASSUME ctx.tot > MinQty, NEW q \in Int, NEW price \in Int, NEW r,
               q \in {Floor(ctx.tot), Larger(Floor(ctx.tot), MinQty)}, Place(q, price, r)
        PROVE  RoomFor(q) /\ Fits(q)
    <3>1. q <= ctx.tot /\ ctx.tot < q + Step BY <1>0, <1>a, <1>b, <2>5 DEF Larger
    <3>2. RoomFor(q) BY <1>0, <2>2, <2>5, <3>1, SnapshotRoom
    <3>3. Fits(q) BY <1>0, <1>c, <2>2, <2>5, <3>1 DEF Fits
    <3> QED BY <3>2, <3>3
  <2> QED BY <2>3, <2>4, <2>5
<1>6. CASE Protect
  <2>1. \E r : Place(job.arg, ps.stopE, r) BY <1>6 DEF Protect
  <2>2. /\ job.arg >= MinQty + Step /\ Held < job.arg + MinQty + Step
        /\ Live # {} => locked = job.arg
    BY <1>6 DEF OneStopInv, ProtectsAll, Protect
  <2>3. RoomFor(job.arg) BY <1>0, <2>2 DEF RoomFor, Held
  <2>4. Fits(job.arg) BY <1>0, <1>c, <2>2 DEF Fits
  <2> QED BY <1>0, <2>1, <2>3, <2>4
<1>7. CASE PartialSell
  <2>1. PartialQty(job.k, ctx.tot) \in Int
    BY <1>0, <1>7, PartialQtyType DEF PartialSell, JobPos
  <2>2. UNCHANGED exVars \/ \E r : MarketSellCall(PartialQty(job.k, ctx.tot), r)
    BY <1>7 DEF PartialSell
  <2> QED BY <2>1, <2>2 DEF exVars
<1>8. CASE ManualSell \/ DustSell \/ SignalSell \/ Rollback
  <2>1. \/ UNCHANGED exVars
        \/ \E q \in Int : \E r : MarketSellCall(q, r)
    BY <1>0, <1>a, <1>8 DEF ManualSell, DustSell, SignalSell, Rollback
  <2> QED BY <2>1 DEF exVars
<1>9. CASE Buy
  <2>1. Held <= MinQty
    BY <1>0, <1>9 DEF Buy, FlatInv, CoinsCovered, ResidueOnly
  <2>2. Live = {} BY <1>0, <2>1 DEF OneLive, Held
  <2> QED BY <1>9, <2>1, <2>2
<1>10. CASE Market BY <1>10 DEF Market
<1> QED BY <1>1, <1>2, <1>3, <1>4, <1>5, <1>6, <1>7, <1>8, <1>9, <1>10 DEF PairNext, Cycle

(* A buy changes the orders only in where they stand in the history. *)
LEMMA BuyLeavesBook ==
    ASSUME ExTypeOK, Buy
    PROVE  Live' = Live /\ locked' = locked
<1>1. ord' = ord \/ ord' = [i \in StopIds |-> [ord[i] EXCEPT !.late = FALSE]]
  BY DEF Buy, MarketBuyCall
<1>2. \A i \in StopIds : ord'[i].st = ord[i].st BY <1>1 DEF ExTypeOK
<1> QED BY <1>2 DEF Live, Buy, MarketBuyCall

(* Every step keeps a single stop order, and only a buy adds coins. *)
LEMMA NextOneLive ==
    ASSUME PairTypeOK, JobPos, FlatInv, OneStopInv, PairNext
    PROVE  OneLive' /\ (~Buy => Shrinks)
<1>0. OneLive /\ ExTypeOK BY DEF OneStopInv, PairTypeOK
<1>1. CASE Buy /\ Live = {} /\ Held <= MinQty
  BY <1>0, <1>1, BuyLeavesBook DEF OneLive
<1>2. ASSUME NEW q \in Int, NEW price \in Int, NEW r, Place(q, price, r), RoomFor(q)
      PROVE  OneLive' /\ Shrinks
  BY <1>0, <1>2, PlaceKeepsOneLive
<1> QED BY <1>0, <1>1, <1>2, CoinSteps, CallsKeepOneLive

(* What a step may do to the snapshot of the cycle. *)
Unsnapped == {"idle", "poll", "fetch", "protect", "rollback"}

LEMMA SnapshotSteps ==
    ASSUME PairTypeOK, PairNext
    PROVE  \/ pc' \in Unsnapped
           \/ pc \notin Unsnapped /\ ctx'.tot = ctx.tot /\ ~Buy
           \/ ctx'.tot = Held /\ Held' = Held
<1> USE DEF Goto, Unsnapped
<1>0. job.then \in Returns BY DEF PairTypeOK, Jobs
<1>1. CASE \/ EndCycle \/ HaltedCycle \/ FullCycle \/ CycleStart \/ NoPoll
           \/ Poll \/ Protect \/ Rollback \/ Buy
           \/ ZeroBalance \/ FilledCheck \/ DustReset \/ NoSignal \/ SignalSell
  <2>1. CASE HaltedCycle \/ FullCycle BY <2>1 DEF HaltedCycle, FullCycle, pairVars, botVars
  <2> QED
    BY <1>1, <2>1 DEF EndCycle, CycleStart, NoPoll, Poll, Protect, Rollback, Buy, ZeroBalance,
                      FilledCheck, DustReset, NoSignal, SignalSell
<1>2. CASE FetchBalances /\ ~EndCycle
  <2>1. ctx' = [NoCtx EXCEPT !.free = free, !.locked = locked, !.tot = Held]
        /\ UNCHANGED <<free, locked>>
    BY <1>2 DEF FetchBalances
  <2> QED BY <2>1 DEF NoCtx, Held
<1>3. CASE (FetchPrice \/ Sync) /\ ~EndCycle
  BY <1>3 DEF FetchPrice, Sync, Buy, PairTypeOK, Snapshots
<1>4. CASE NoTrailing \/ Trail \/ BreakEven \/ Trailed \/ MoveCancel \/ MovePlace \/ Restore
           \/ PartialSync \/ PartialNext \/ PartialCancel \/ PartialSell \/ PartialPlace
  BY <1>4 DEF NoTrailing, Trail, BreakEven, Trailed, MoveCancel, MovePlace, Restore,
              PartialSync, PartialNext, PartialCancel, PartialSell, PartialPlace,
              CancelForSale, Buy
<1>5. CASE CanceledRead \/ SoldRead \/ DustRead \/ SignalRead
  <2>1. Held' = Held /\ (ctx'.tot = Held \/ ctx' = ctx) /\ pc \notin Unsnapped /\ ~Buy
    BY <1>5 DEF CanceledRead, SoldRead, DustRead, SignalRead, Reread, Held, Buy, PairTypeOK,
                Snapshots
  <2> QED BY <2>1
<1>6. CASE (StopCheck \/ StaleCancel \/ GuardCancel \/ ManualSell) /\ ~EndCycle
  BY <1>6 DEF StopCheck, StaleCancel, GuardCancel, ManualSell, PairTypeOK, Snapshots, Buy
<1>7. CASE DustSell \/ NoDust \/ SellSignal
  BY <1>7 DEF DustSell, NoDust, SellSignal, CancelForSale, Buy
<1>8. CASE CoolDownEnds \/ Market
  <2>1. UNCHANGED <<pc, ctx>> BY <1>8 DEF CoolDownEnds, Market, botVars
  <2> QED BY <1>1, <2>1
<1> QED BY <1>1, <1>2, <1>3, <1>4, <1>5, <1>6, <1>7, <1>8 DEF PairNext, Cycle

(* What is held after a step, against what the snapshot says. *)
LEMMA ExactAfterLess ==
    ASSUME NEW h \in Int, NEW g \in Int, NEW t \in Int, NEW d \in Nat,
           g = h \/ g + d <= h, h = t \/ h + d <= t
    PROVE  g = t \/ g + d <= t
OBVIOUS

LEMMA NextSnapshotExact ==
    ASSUME PairTypeOK, JobPos, FlatInv, OneStopInv, PairNext
    PROVE  SnapshotExact'
<1>0. Held \in Int /\ Held' \in Int /\ ctx.tot \in Int /\ Step \in Nat
  <2>1. PairTypeOK' BY NextTypes
  <2> QED BY <2>1, SpotAssumption DEF PairTypeOK, ExTypeOK, Held, Snapshots
<1>1. ~Buy => Shrinks BY NextOneLive
<1>2. pc \notin Unsnapped => Held = ctx.tot \/ Held + Step <= ctx.tot
  BY DEF OneStopInv, SnapshotExact, Unsnapped
<1>3. CASE pc' \in Unsnapped BY <1>3 DEF SnapshotExact, Unsnapped
<1>4. CASE pc \notin Unsnapped /\ ctx'.tot = ctx.tot /\ ~Buy
  <2>1. Held' = Held \/ Held' + Step <= Held BY <1>1, <1>4 DEF Shrinks
  <2>2. Held = ctx.tot \/ Held + Step <= ctx.tot BY <1>2, <1>4
  <2>3. Held' = ctx.tot \/ Held' + Step <= ctx.tot BY <1>0, <2>1, <2>2, ExactAfterLess
  <2> QED BY <1>4, <2>3 DEF SnapshotExact
<1>5. CASE ctx'.tot = Held /\ Held' = Held BY <1>5 DEF SnapshotExact
<1> QED BY <1>3, <1>4, <1>5, SnapshotSteps

(* _update_trailing_stop moves an order only of a position worth one. *)
LEMMA NextMovesEnough ==
    ASSUME PairTypeOK, MovesEnough, PairNext
    PROVE  MovesEnough'
<1> USE DEF Goto, MovesEnough
<1>0. job.then \in Returns BY DEF PairTypeOK, Jobs
<1>1. CASE Trail \/ BreakEven \/ MoveCancel
  BY <1>1 DEF Trail, BreakEven, MoveCancel, MoveStop, exVars
<1>2. CASE CoolDownEnds \/ Market BY <1>2 DEF CoolDownEnds, Market, botVars
<1>3. CASE HaltedCycle \/ FullCycle BY <1>3 DEF HaltedCycle, FullCycle, pairVars, botVars
<1>4. CASE ~(Trail \/ BreakEven \/ MoveCancel \/ CoolDownEnds \/ Market \/ HaltedCycle \/ FullCycle)
  <2>1. pc' \notin {"moveCancel", "movePlace"}
    <3>1. CASE CycleStart \/ NoPoll \/ Poll \/ FetchBalances \/ FetchPrice \/ Sync
               \/ NoTrailing \/ Trailed
      BY <3>1 DEF CycleStart, NoPoll, Poll, FetchBalances, FetchPrice, Sync, NoTrailing,
                  Trailed, EndCycle
    <3>2. CASE MovePlace \/ Restore BY <1>0, <3>2 DEF MovePlace, Restore, Returns
    <3>3. CASE PartialSync \/ PartialNext \/ PartialCancel \/ CanceledRead \/ PartialSell
               \/ SoldRead \/ PartialPlace
      BY <3>3 DEF PartialSync, PartialNext, PartialCancel, CanceledRead, PartialSell, SoldRead,
                  PartialPlace, CancelForSale, Reread
    <3>4. CASE StopCheck \/ ZeroBalance \/ StaleCancel \/ FilledCheck \/ GuardCancel \/ ManualSell
      BY <3>4 DEF StopCheck, ZeroBalance, StaleCancel, FilledCheck, GuardCancel, ManualSell,
                  EndCycle
    <3>5. CASE DustReset \/ DustSell \/ DustRead \/ NoDust \/ NoSignal
      BY <3>5 DEF DustReset, DustSell, DustRead, NoDust, NoSignal, Reread, EndCycle
    <3>6. CASE SellSignal \/ SignalRead \/ SignalSell
      BY <3>6 DEF SellSignal, SignalRead, SignalSell, CancelForSale, Reread, EndCycle
    <3>7. CASE Buy \/ Protect \/ Rollback BY <3>7 DEF Buy, Protect, Rollback, EndCycle
    <3> QED BY <1>4, <3>1, <3>2, <3>3, <3>4, <3>5, <3>6, <3>7 DEF PairNext, Cycle
  <2> QED BY <2>1
<1> QED BY <1>1, <1>2, <1>3, <1>4

(* While _place_sl_after_buy tries, only the stop order it places may be   *)
(* open, and the quantity it asks for is nearly all there is.              *)
LEMMA BuyIsAlone ==
    ASSUME PairTypeOK, FlatInv, OneLive, Buy, BigBuys, pc' = "protect"
    PROVE  /\ Live' = {} /\ Held' > MinQty
           /\ job'.arg >= MinQty + Step /\ Held' < job'.arg + MinQty + Step
<1>0. /\ free \in Nat /\ locked \in Int /\ MinQty \in Nat \ {0} /\ Step \in Nat \ {0}
      /\ Step <= MinQty /\ ctx.tot \in Int /\ Held = free + locked
      /\ ord \in [StopIds -> [st : StopStates, qty : Nat, stop : Int, late : BOOLEAN]]
  BY SpotAssumption DEF PairTypeOK, ExTypeOK, Snapshots, Held
<1>1. Held <= MinQty BY <1>0 DEF Buy, FlatInv, CoinsCovered, ResidueOnly
<1>2. Live = {} /\ locked = 0 BY <1>0, <1>1 DEF OneLive
<1>3. PICK q \in BuyQtys : MarketBuyCall(q, ctx.px, "ok") /\ job' = [NoJob EXCEPT !.arg = Floor(q)]
  BY DEF Buy, EndCycle, Goto
<1>4. q \in Nat /\ Floor(q) \in Int /\ Floor(q) <= q /\ q < Floor(q) + Step
      /\ Floor(q) >= MinQty + Step
  <2>1. q \in Nat BY SpotAssumption
  <2> QED BY <2>1, FloorType, FloorBounds DEF BigBuys
<1>5. job'.arg = Floor(q) BY <1>3 DEF NoJob
<1>6. free' = free + q /\ locked' = locked BY <1>3 DEF MarketBuyCall, Effective
<1>7. Held' = Held + q BY <1>0, <1>4, <1>6 DEF Held
<1>8. Live' = {}
  <2>1. ord' = [i \in StopIds |-> [ord[i] EXCEPT !.late = FALSE]]
    BY <1>3 DEF MarketBuyCall, Effective
  <2>2. \A i \in StopIds : ord'[i].st = ord[i].st BY <1>0, <2>1
  <2> QED BY <1>2, <2>2 DEF Live
<1>9. Held' > MinQty BY <1>0, <1>2, <1>4, <1>7
<1>10. Held' < Floor(q) + MinQty + Step BY <1>0, <1>1, <1>4, <1>7
<1> QED BY <1>4, <1>5, <1>8, <1>9, <1>10

(* Only Buy starts the attempts, and only Protect and the market act then. *)
LEMMA ProtectSteps ==
    ASSUME PairTypeOK, PairNext, pc' \in {"protect", "rollback"}
    PROVE  \/ Buy /\ pc' = "protect"
           \/ Protect /\ pc = "protect"
           \/ (CoolDownEnds \/ Market) /\ UNCHANGED <<pc, job>>
<1> USE DEF Goto
<1>0. job.then \in Returns BY DEF PairTypeOK, Jobs
<1>1. CASE \/ CycleStart \/ HaltedCycle \/ FullCycle \/ NoPoll \/ Poll
           \/ FetchBalances \/ FetchPrice \/ Sync
  BY <1>1 DEF CycleStart, HaltedCycle, FullCycle, NoPoll, Poll, FetchBalances, FetchPrice, Sync,
              EndCycle, pairVars, botVars
<1>2. CASE NoTrailing \/ Trail \/ BreakEven \/ Trailed
  BY <1>2 DEF NoTrailing, Trail, BreakEven, Trailed, MoveStop
<1>3. CASE MoveCancel \/ MovePlace \/ Restore
  BY <1>0, <1>3 DEF MoveCancel, MovePlace, Restore, Returns
<1>4. CASE PartialSync \/ PartialNext \/ PartialCancel \/ CanceledRead \/ PartialSell
           \/ SoldRead \/ PartialPlace
  BY <1>4 DEF PartialSync, PartialNext, PartialCancel, CanceledRead, PartialSell, SoldRead,
              PartialPlace, CancelForSale, Reread
<1>5. CASE StopCheck \/ ZeroBalance \/ StaleCancel \/ FilledCheck \/ GuardCancel \/ ManualSell
  BY <1>5 DEF StopCheck, ZeroBalance, StaleCancel, FilledCheck, GuardCancel, ManualSell, EndCycle
<1>6. CASE DustReset \/ DustSell \/ DustRead \/ NoDust \/ NoSignal
  BY <1>6 DEF DustReset, DustSell, DustRead, NoDust, NoSignal, Reread, EndCycle
<1>7. CASE SellSignal \/ SignalRead \/ SignalSell
  BY <1>7 DEF SellSignal, SignalRead, SignalSell, CancelForSale, Reread, EndCycle
<1>8. CASE Buy BY <1>8 DEF Buy, EndCycle
<1>9. CASE Protect \/ Rollback BY <1>9 DEF Protect, Rollback, EndCycle
<1>10. CASE CoolDownEnds \/ Market BY <1>10 DEF CoolDownEnds, Market, botVars
<1> QED BY <1>1, <1>2, <1>3, <1>4, <1>5, <1>6, <1>7, <1>8, <1>9, <1>10 DEF PairNext, Cycle

(* A placement that takes effect locks just the quantity asked for. *)
LEMMA ProtectLocks ==
    ASSUME PairTypeOK, OneLive, Live # {} => locked = job.arg, Protect, OneLive'
    PROVE  Live' # {} => locked' = job.arg
<1>1. PICK i \in StopIds : \E r : PlaceStopCall(i, job.arg, ps.stopE, r)
  BY DEF Protect, Place
<1>2. CASE UNCHANGED <<ord, locked>> BY <1>2 DEF Live
<1>3. CASE ord' = [ord EXCEPT ![i] = [st |-> "LIVE", qty |-> job.arg, stop |-> ps.stopE,
                                      late |-> TRUE]]
  <2>1. ord'[i].st = "LIVE" /\ ord'[i].qty = job.arg BY <1>3 DEF PairTypeOK, ExTypeOK
  <2>2. i \in Live' BY <2>1 DEF Live
  <2> QED BY <2>1, <2>2 DEF OneLive
<1> QED BY <1>1, <1>2, <1>3 DEF PlaceStopCall

LEMMA NextProtectsAll ==
    ASSUME PairTypeOK, JobPos, FlatInv, OneStopInv, BigBuys, PairNext
    PROVE  ProtectsAll'
<1> SUFFICES ASSUME pc' = "protect"
             PROVE  /\ job'.arg >= MinQty + Step /\ Held' < job'.arg + MinQty + Step
                    /\ Live' # {} => locked' = job'.arg
  BY DEF ProtectsAll
<1> USE DEF Goto
<1>0. /\ OneLive /\ OneLive' /\ (~Buy => Held' <= Held)
      /\ Held \in Int /\ Held' \in Int /\ job \in Jobs /\ job.arg \in Int
      /\ MinQty \in Nat \ {0} /\ Step \in Nat \ {0}
  <2>1. PairTypeOK' BY NextTypes
  <2>2. OneLive' /\ (~Buy => Held' <= Held) BY NextOneLive, OnlyBuyAddsCoins
  <2>3. Held \in Int /\ Held' \in Int /\ job \in Jobs /\ job.arg \in Int
    BY <2>1 DEF PairTypeOK, ExTypeOK, Held, Jobs
  <2> QED BY <2>2, <2>3, SpotAssumption DEF OneStopInv
<1>1. CASE Buy BY <1>0, <1>1, BuyIsAlone
<1>2. CASE Protect /\ ~Buy
  <2>1. pc = "protect" BY <1>2 DEF Protect
  <2>2. /\ job.arg >= MinQty + Step /\ Held < job.arg + MinQty + Step
        /\ Live # {} => locked = job.arg
    BY <2>1 DEF OneStopInv, ProtectsAll
  <2>3. job'.arg = job.arg BY <1>0, <1>2 DEF Protect, EndCycle, Jobs
  <2>4. Held' <= Held BY <1>0, <1>2
  <2>5. Live' # {} => locked' = job.arg BY <1>0, <1>2, <2>2, ProtectLocks
  <2>6. Held' < job.arg + MinQty + Step BY <1>0, <2>2, <2>4
  <2> QED BY <2>2, <2>3, <2>5, <2>6
<1>3. CASE (CoolDownEnds \/ Market) /\ UNCHANGED <<pc, job>> /\ ~Buy
  <2>1. /\ job.arg >= MinQty + Step /\ Held < job.arg + MinQty + Step
        /\ Live # {} => locked = job.arg
    BY <1>3 DEF OneStopInv, ProtectsAll
  <2>2. Held' <= Held BY <1>0, <1>3
  <2>3. Live' # {} => locked' = job.arg
    <3>1. CASE UNCHANGED <<ord, locked>> BY <2>1, <3>1 DEF Live
    <3>2. ASSUME NEW i \in StopIds, FillAges(i) PROVE Live' # {} => locked' = job.arg
      <4>1. Live' \subseteq Live /\ locked' = locked
        BY <3>2 DEF FillAges, Live, PairTypeOK, ExTypeOK
      <4> QED BY <2>1, <4>1
    <3>3. ASSUME NEW i \in StopIds, StopFills(i) PROVE Live' = {}
      <4>1. Live = {i} BY <1>0, <3>3 DEF StopFills, OneLive
      <4>2. ord' = [ord EXCEPT ![i] = Ended("FILLED")] BY <3>3 DEF StopFills
      <4> QED BY <4>1, <4>2 DEF Live, PairTypeOK, ExTypeOK
    <3> QED BY <1>3, <3>1, <3>2, <3>3 DEF CoolDownEnds, Market, exVars
  <2>4. Held' < job.arg + MinQty + Step BY <1>0, <2>1, <2>2
  <2> QED BY <1>3, <2>1, <2>3, <2>4
<1> QED BY <1>1, <1>2, <1>3, ProtectSteps

LEMMA InvariantOneStop ==
    ASSUME BigBuys
    PROVE  Spec => [](PairTypeOK /\ JobPos /\ FlatInv /\ OneStopInv)
<1> DEFINE I == PairTypeOK /\ JobPos /\ FlatInv /\ OneStopInv
<1>1. Init => I
  <2> SUFFICES ASSUME Init PROVE I OBVIOUS
  <2>1. Live = {} /\ locked = 0 BY DEF Init, ExInit, Live, NoStop
  <2>2. pc = "idle" BY DEF Init
  <2>3. OneStopInv
    BY <2>1, <2>2 DEF OneStopInv, OneLive, SnapshotExact, MovesEnough, ProtectsAll
  <2>4. FlatInv BY <2>2 DEF FlatInv, CoinsCovered, ResidueOnly
  <2> QED BY <2>3, <2>4, InitTypes
<1>2. I /\ [PairNext]_pairVars => I'
  <2>1. ASSUME I, PairNext PROVE I'
    <3>1. PairTypeOK' /\ JobPos' /\ FlatInv' BY <2>1, NextTypes, NextJobPos, NextFlat
    <3>2. OneStopInv'
      BY <2>1, NextOneLive, NextSnapshotExact, NextMovesEnough, NextProtectsAll DEF OneStopInv
    <3> QED BY <3>1, <3>2
  <2>2. ASSUME I, UNCHANGED pairVars PROVE I'
    <3>1. PairTypeOK' /\ JobPos' BY <2>2, StutterTypes
    <3>2. FlatInv'
      BY <2>2 DEF pairVars, exVars, botVars, FlatInv, CoinsCovered, ResidueOnly, Held
    <3>3. OneStopInv'
      BY <2>2 DEF pairVars, exVars, botVars, OneStopInv, OneLive, SnapshotExact, MovesEnough,
                  ProtectsAll, Held, Live
    <3> QED BY <3>1, <3>2, <3>3
  <2> QED BY <2>1, <2>2
<1> QED BY <1>1, <1>2, PairSteps, PTL

(* Whatever fails and whatever reply is lost, there are never two stop     *)
(* orders for the coins of one position, when no buy delivers less than a  *)
(* step above the minimum of the pair.                                     *)
THEOREM NeverTwoStops ==
    ASSUME BigBuys
    PROVE  Spec => []AtMostOneStop
<1>1. PairTypeOK /\ JobPos /\ FlatInv /\ OneStopInv => AtMostOneStop
  BY DEF OneStopInv, OneLive, AtMostOneStop
<1> QED BY <1>1, InvariantOneStop, PTL

-----------------------------------------------------------------------------
(* A stop order covers all but a residue, whatever failed on the way to    *)
(* it.                                                                     *)
Covering == Live # {} => free < MinQty + Step

(* An order placed on the quantity a path computes. *)
LEMMA PlaceCovers ==
    ASSUME ExTypeOK, Covering, NEW q \in Int, NEW price, NEW r, Place(q, price, r), Fits(q)
    PROVE  Covering'
<1>0. free \in Nat /\ MinQty \in Nat /\ Step \in Nat BY SpotAssumption DEF ExTypeOK
<1>1. PICK i \in StopIds : PlaceStopCall(i, q, price, r) BY DEF Place
<1>2. CASE r \in Effective
  <2>1. q <= free /\ free' = free - q
    BY <1>1, <1>2 DEF PlaceStopCall, Answered, Effective
  <2> QED BY <1>0, <2>1 DEF Fits, Covering
<1>3. CASE r \notin Effective BY <1>1, <1>3 DEF PlaceStopCall, Covering, Live
<1> QED BY <1>2, <1>3

(* No step leaves more than that beside an order. *)
LEMMA NextCovering ==
    ASSUME PairTypeOK, JobPos, FlatInv, OneStopInv, Covering, PairNext
    PROVE  Covering'
<1>0. /\ OneLive /\ OneLive' /\ ExTypeOK /\ free \in Nat /\ MinQty \in Nat \ {0}
      /\ Step \in Nat \ {0}
      /\ ord \in [StopIds -> [st : StopStates, qty : Nat, stop : Int, late : BOOLEAN]]
  BY NextOneLive, SpotAssumption DEF OneStopInv, PairTypeOK, ExTypeOK
<1>1. CASE UNCHANGED <<free, locked, ord>> BY <1>1 DEF Covering, Live
<1>2. ASSUME NEW i, NEW r, CancelCall(i, r) PROVE Covering'
  <2>1. CASE r \in Effective
    <3>1. i \in Live BY <1>2, <2>1 DEF CancelCall, Answered, Effective
    <3>2. Live = {i} /\ ord' = [ord EXCEPT ![i] = Ended("CANCELED")]
      BY <1>0, <1>2, <2>1, <3>1 DEF OneLive, CancelCall
    <3>3. \A j \in StopIds : ord'[j].st = "LIVE" => j # i /\ ord'[j] = ord[j] BY <1>0, <3>2
    <3>4. Live' = {} BY <3>2, <3>3 DEF Live
    <3> QED BY <3>4 DEF Covering
  <2>2. CASE r \notin Effective BY <1>2, <2>2 DEF CancelCall, Covering, Live
  <2> QED BY <2>1, <2>2
<1>3. ASSUME NEW q \in Int, NEW r, MarketSellCall(q, r) PROVE Covering'
  <2>1. Live' = Live BY <1>3 DEF MarketSellCall, Live
  <2>2. free' <= free
    BY <1>0, <1>3 DEF MarketSellCall, Answered, Effective
  <2>3. free' \in Int BY <1>0, <1>3 DEF MarketSellCall
  <2> QED BY <1>0, <2>1, <2>2, <2>3 DEF Covering
<1>4. ASSUME NEW q \in Int, NEW price \in Int, NEW r, Place(q, price, r), RoomFor(q), Fits(q)
      PROVE  Covering'
  BY <1>0, <1>4, PlaceCovers
<1>5. ASSUME NEW i \in StopIds, StopFills(i) \/ FillAges(i) PROVE Covering'
  <2>1. Live' \subseteq Live
    <3>1. \E s \in {"FILLED", "OLD"} : ord' = [ord EXCEPT ![i] = Ended(s)]
      BY <1>5 DEF StopFills, FillAges
    <3>2. \A j \in StopIds : ord'[j].st = "LIVE" => ord'[j] = ord[j] BY <1>0, <3>1
    <3> QED BY <3>2 DEF Live
  <2>2. free' = free BY <1>5 DEF StopFills, FillAges
  <2> QED BY <2>1, <2>2 DEF Covering
<1>6. CASE Buy /\ Live = {} BY <1>0, <1>6, BuyLeavesBook DEF Covering
<1> QED BY <1>1, <1>2, <1>3, <1>4, <1>5, <1>6, CoinSteps

-----------------------------------------------------------------------------
(* The halt.  _rollback_on_sl_failure halts the bot when the sale of an    *)
(* unprotected position fails; that it is unprotected is known only from   *)
(* the failure of the placements, so a lost reply may prove it wrong.      *)

Exposed == pc \in {"protect", "rollback"} => Live = {} /\ Held > MinQty

LEMMA NextExposed ==
    ASSUME PairTypeOK, JobPos, FlatInv, OneStopInv, BigBuys, ~LostReplies, Exposed, PairNext
    PROVE  Exposed'
<1> SUFFICES ASSUME pc' \in {"protect", "rollback"} PROVE Live' = {} /\ Held' > MinQty
  BY DEF Exposed
<1> USE DEF Goto
<1>1. CASE Buy /\ pc' = "protect" BY <1>1, BuyIsAlone DEF OneStopInv
<1>2. CASE Protect
  <2>1. Live = {} /\ Held > MinQty BY <1>2 DEF Exposed, Protect
  <2>2. PICK r : r # "ok" /\ \E i \in StopIds : PlaceStopCall(i, job.arg, ps.stopE, r)
    BY <1>2 DEF Protect, Place, EndCycle
  <2>3. UNCHANGED <<ord, free, locked>>
    BY <2>2 DEF PlaceStopCall, Answered, Effective
  <2> QED BY <2>1, <2>3 DEF Live, Held
<1>3. CASE (CoolDownEnds \/ Market) /\ UNCHANGED <<pc, job>>
  <2>1. Live = {} /\ Held > MinQty BY <1>3 DEF Exposed
  <2>2. CASE CoolDownEnds BY <2>1, <2>2 DEF CoolDownEnds, exVars, Live, Held
  <2>3. CASE Market
    <3>1. PICK i \in StopIds : FillAges(i) BY <2>1, <2>3 DEF Market, StopFills
    <3>2. UNCHANGED <<free, locked>> /\ Live' \subseteq Live
      BY <3>1 DEF FillAges, Live, PairTypeOK, ExTypeOK
    <3> QED BY <2>1, <3>2 DEF Held
  <2> QED BY <1>3, <2>2, <2>3
<1> QED BY <1>1, <1>2, <1>3, ProtectSteps

(* The emergency halt is raised only for a position that no stop order     *)
(* covers, when no reply is lost and no buy is close to the minimum.       *)
THEOREM HaltIsForExposed ==
    ASSUME BigBuys, ~LostReplies
    PROVE  Spec => HaltOnlyExposed
<1> DEFINE I == PairTypeOK /\ JobPos /\ FlatInv /\ OneStopInv
<1>1. Init => Exposed BY DEF Init, Exposed
<1>2. I /\ Exposed /\ [PairNext]_pairVars => Exposed'
  <2>1. I /\ Exposed /\ PairNext => Exposed' BY NextExposed
  <2>2. I /\ Exposed /\ UNCHANGED pairVars => Exposed'
    BY DEF pairVars, exVars, botVars, Exposed, Live, Held
  <2> QED BY <2>1, <2>2
<1>3. I /\ Exposed /\ [PairNext]_pairVars => [halt' /\ ~halt =>
      (Live = {} /\ Held > MinQty)']_pairVars
  <2> SUFFICES ASSUME I, Exposed, PairNext, halt', ~halt
               PROVE  (Live = {} /\ Held > MinQty)'
    OBVIOUS
  <2>1. Rollback
    <3>1. ~Rollback => halt' = halt
      BY DEF PairNext, Cycle, Keep, CycleStart, HaltedCycle, FullCycle, NoPoll, Poll,
             FetchBalances, FetchPrice, Sync, NoTrailing, Trail, BreakEven, Trailed,
             MoveCancel, MovePlace, Restore, PartialSync, PartialNext, PartialCancel,
             CanceledRead, PartialSell, SoldRead, PartialPlace, StopCheck, ZeroBalance,
             StaleCancel, FilledCheck, GuardCancel,
             ManualSell, DustReset, DustSell, DustRead, NoDust, NoSignal, SellSignal,
             SignalRead, SignalSell, Buy, Protect, CoolDownEnds, Market, CancelForSale, Reread,
             pairVars, botVars
    <3> QED BY <3>1
  <2>2. PICK r : MarketSellCall(job.arg, r) /\ r \notin {"ok", "unfilled"}
    BY <2>1 DEF Rollback
  <2>3. UNCHANGED <<ord, free, locked>> BY <2>2 DEF MarketSellCall, Answered, Effective
  <2>4. Live = {} /\ Held > MinQty BY <2>1 DEF Rollback, Exposed
  <2> QED BY <2>3, <2>4 DEF Live, Held
<1> QED BY <1>1, <1>2, <1>3, InvariantOneStop, PairSteps, PTL DEF HaltOnlyExposed

-----------------------------------------------------------------------------
(* A pair none of whose calls fails.  The orders, the coins and the memory *)
(* then always fit together: either the order the bot names covers all but *)
(* a residue, or it has gone and a residue is all that is left, or the     *)
(* coins are in the hands of the path that took the order away and is      *)
(* about to put it back or to sell.                                        *)

(* Where the code works on a position that is open; where coins may be in  *)
(* hand; from the price read to the guard; where the position has been or  *)
(* is being sold.                                                          *)
OpenLabels == {"even", "trailed", "moveCancel", "movePlace", "restore", "partialNext",
               "partialCancel", "canceledRead", "partialSell", "soldRead", "partialPlace",
               "zero", "stale", "filled", "guard", "manual", "protect"}
AirLabels == {"movePlace", "restore", "canceledRead", "partialSell", "guard", "manual",
              "signalRead", "signalSell"}
ToStop == {"price", "sync", "trail", "even", "trailed", "moveCancel", "movePlace", "restore",
           "partial", "partialNext", "partialCancel", "canceledRead", "partialSell",
           "partialPlace", "stop", "stale", "guard", "manual"}

SaleLabels == {"canceledRead", "partialSell", "soldRead", "partialPlace", "signalRead",
               "signalSell", "manual", "zero"}

(* Between two calls: the named order is there and leaves a residue free,  *)
(* or it has gone and a residue is all that is left.                       *)
Settled ==
    \/ ps.slId \in Live /\ free < MinQty + Step
    \/ /\ Live = {} /\ Held < MinQty + Step /\ hist.side = "SELL"
       /\ ps.slId # NoId \/ Held <= MinQty

(* While an order is being replaced or the position sold, the coins are    *)
(* all free, and the snapshot counts them.                                 *)
InHand ==
    /\ Live = {} /\ ps.slId = NoId
    /\ \/ pc \in AirLabels /\ Held = ctx.tot /\ Held > MinQty
       \/ /\ pc \in {"soldRead", "partialPlace"} /\ hist.side = "SELL"
          /\ pc = "partialPlace" => Held = ctx.tot
       \/ pc = "manual" /\ hist.side = "SELL" /\ Held < MinQty + Step

(* The memory: the placed flag says whether an order is named, and an      *)
(* open position has an entry price.                                       *)
FlagNamed == ps.placed <=> ps.slId # NoId
EntrySet == ps.side = "BUY" => ps.entry # 0

(* The steps of a position run on an open one, and a closed one has        *)
(* neither an order nor a purchase to be restored from.                    *)
WorksOnOpen == pc \in OpenLabels => ps.side = "BUY"
ClosedHasNone == ps.side # "BUY" => Live = {} /\ hist.side = "SELL"

(* The heart of it: every coin of an open position is settled or in hand.  *)
Accounted == ps.side = "BUY" /\ pc # "protect" => Settled \/ InHand

(* Orders are placed with the late trigger, and the first one of a buy     *)
(* fits in the free balance.                                               *)
LateOrders == \A i \in Live : ord[i].late
ProtectFits ==
    /\ pc # "rollback"
    /\ pc = "protect" => Live = {} /\ job.arg <= free /\ ps.stop = ps.stopE

(* What the snapshot may still be trusted for after the balances were      *)
(* read.                                                                   *)
SnapshotCovers ==
    /\ ctx.free <= ctx.tot
    /\ pc \notin Unsnapped /\ Live # {} => Held = ctx.tot
FreeKept ==
    /\ pc \in ToStop => ctx.free <= free \/ free < Step
    /\ pc \in {"guard", "manual"} => ctx.free >= MinQty

(* No order, and no order about to be placed, is below the software stop.  *)
HighEnough ==
    /\ pc # "moveCancel" => \A i \in Live : ord[i].stop >= SoftStop(ps)
    /\ pc \in {"moveCancel", "movePlace"} => job.arg >= SoftStop(ps)

(* Where a sale is read or booked, no order is on the exchange.            *)
OrderGone == pc \in SaleLabels => Live = {}

(* The invariant of the memory, the orders and the coins, and the          *)
(* invariants proved before that it rests on.                              *)
QuietInv ==
    /\ FlagNamed /\ EntrySet /\ WorksOnOpen /\ ClosedHasNone /\ Accounted
    /\ LateOrders /\ ProtectFits /\ SnapshotCovers /\ FreeKept /\ HighEnough
    /\ OrderGone
Grounds == PairTypeOK /\ JobPos /\ FlatInv /\ OneStopInv /\ BuyAboveStop /\ StopsSet /\ NamedLive

(* What a call that does not fail does. *)
Untouched == UNCHANGED <<free, locked, ord, hist>>
TookBack(i) ==
    /\ i \in Live /\ Live' = {}
    /\ locked' = 0 /\ free' = Held /\ hist' = hist
LockedAway(i, q, price) ==
    /\ q >= MinQty /\ q <= free /\ free' = free - q /\ locked' = locked + q
    /\ i \in Live' /\ ord'[i].stop = price /\ ord'[i].late /\ hist'.side = hist.side
SoldOff(q) ==
    /\ q >= MinQty /\ q <= free /\ free' = free - q
    /\ hist'.side = "SELL" /\ UNCHANGED <<locked, ord>>

(* The types of what the proofs below compute with.                        *)
LEMMA Quantities ==
    ASSUME PairTypeOK
    PROVE  /\ free \in Nat /\ locked \in Int /\ Held \in Int /\ Held = free + locked
           /\ MinQty \in Nat \ {0} /\ Step \in Nat \ {0} /\ Step <= MinQty
           /\ ctx.free \in Int /\ ctx.tot \in Int /\ ctx.locked \in Int
           /\ job.arg \in Int /\ job.then \in Returns /\ SoftStop(ps) \in Int
           /\ ps \in PairStates /\ ctx \in Snapshots /\ job \in Jobs
           /\ ord \in [StopIds -> [st : StopStates, qty : Nat, stop : Int, late : BOOLEAN]]
BY SpotAssumption, LevelTypes DEF PairTypeOK, ExTypeOK, Held, Snapshots, Jobs

(* An exchange that does not fail obeys a valid call and refuses any       *)
(* other; no answer is lost and no read fails.                             *)
LEMMA QuietCalls ==
    ASSUME ExTypeOK, OneLive, faults' = 0
    PROVE  /\ \A i, r : CancelCall(i, r) =>
                IF r = "ok" THEN TookBack(i) ELSE i \notin Live /\ r = "rej" /\ Untouched
           /\ \A i \in StopIds : \A q, price \in Int : \A r :
                PlaceStopCall(i, q, price, r) =>
                  IF r = "ok" THEN LockedAway(i, q, price)
                  ELSE r = "rej" /\ ~(q >= MinQty /\ q <= free) /\ Untouched
           /\ \A q \in Int : \A r : MarketSellCall(q, r) =>
                IF r = "ok" THEN SoldOff(q)
                ELSE r = "rej" /\ ~(q >= MinQty /\ q <= free) /\ Untouched
           /\ \A r : ReadCall(r) => r = "ok" /\ faults = 0
<1> USE DEF Answered, Effective, Faulty, ExTypeOK
<1>0. faults \in Nat /\ faults + 1 # 0 BY SpotAssumption
<1>1. ASSUME NEW i, NEW r, CancelCall(i, r)
      PROVE  IF r = "ok" THEN TookBack(i) ELSE i \notin Live /\ r = "rej" /\ Untouched
  <2>1. CASE i \in Live
    <3>1. r = "ok" BY <1>0, <1>1, <2>1 DEF CancelCall
    <3>2. Live = {i} /\ locked = ord[i].qty /\ i \in StopIds BY <2>1 DEF OneLive, Live
    <3>3. ord' = [ord EXCEPT ![i] = Ended("CANCELED")] /\ free' = free + ord[i].qty
          /\ locked' = locked - ord[i].qty /\ hist' = hist
      BY <1>1, <3>1 DEF CancelCall
    <3>4. Live' = {}
      <4>1. \A j \in StopIds : j # i => ord'[j] = ord[j] BY <3>3
      <4>2. ord'[i].st = "CANCELED" BY <3>2, <3>3
      <4> QED BY <3>2, <4>1, <4>2 DEF Live
    <3>5. ord[i].qty \in Nat BY <3>2
    <3> QED BY <2>1, <3>1, <3>2, <3>3, <3>4, <3>5 DEF TookBack, Held
  <2>2. CASE i \notin Live BY <1>1, <2>2 DEF CancelCall, Untouched
  <2> QED BY <2>1, <2>2
<1>2. ASSUME NEW i \in StopIds, NEW q \in Int, NEW price \in Int, NEW r,
             PlaceStopCall(i, q, price, r)
      PROVE  IF r = "ok" THEN LockedAway(i, q, price)
             ELSE r = "rej" /\ ~(q >= MinQty /\ q <= free) /\ Untouched
  <2>1. CASE q >= MinQty /\ q <= free
    <3>1. r = "ok" BY <1>0, <1>2, <2>1 DEF PlaceStopCall
    <3>2. /\ ord' = [ord EXCEPT ![i] = [st |-> "LIVE", qty |-> q, stop |-> price, late |-> TRUE]]
          /\ free' = free - q /\ locked' = locked + q
          /\ hist' = [hist EXCEPT !.newest = FALSE]
      BY <1>2, <3>1 DEF PlaceStopCall
    <3>3. hist'.side = hist.side BY <3>2
    <3>4. ord'[i] = [st |-> "LIVE", qty |-> q, stop |-> price, late |-> TRUE] BY <3>2
    <3> QED BY <2>1, <3>1, <3>2, <3>3, <3>4 DEF LockedAway, Live
  <2>2. CASE ~(q >= MinQty /\ q <= free) BY <1>2, <2>2 DEF PlaceStopCall, Untouched
  <2> QED BY <2>1, <2>2
<1>3. ASSUME NEW q \in Int, NEW r, MarketSellCall(q, r)
      PROVE  IF r = "ok" THEN SoldOff(q)
             ELSE r = "rej" /\ ~(q >= MinQty /\ q <= free) /\ Untouched
  <2>1. CASE q >= MinQty /\ q <= free
    <3>1. r = "ok" BY <1>0, <1>3, <2>1 DEF MarketSellCall
    <3>2. /\ hist' = [hist EXCEPT !.side = "SELL", !.newest = FALSE, !.sales = Append(@, q)]
          /\ free' = free - q /\ UNCHANGED <<ord, locked>>
      BY <1>3, <3>1 DEF MarketSellCall
    <3>3. hist'.side = "SELL" BY <3>2
    <3> QED BY <2>1, <3>1, <3>2, <3>3 DEF SoldOff
  <2>2. CASE ~(q >= MinQty /\ q <= free) BY <1>3, <2>2 DEF MarketSellCall, Untouched
  <2> QED BY <2>1, <2>2
<1>4. \A r : ReadCall(r) => r = "ok" /\ faults = 0 BY <1>0 DEF ReadCall
<1> QED BY <1>1, <1>2, <1>3, <1>4

(* The four ways a step leaves things in order: it touches neither the     *)
(* orders nor the coins; it closes the position; it takes the order back;  *)
(* it places an order.                                                     *)
SameMemory ==
    /\ (ps'.side = "BUY") = (ps.side = "BUY")
    /\ ps'.entry = ps.entry /\ ps'.slId = ps.slId /\ ps'.placed = ps.placed
SameSnapshot ==
    /\ ctx'.free = ctx.free /\ ctx'.tot = ctx.tot
    /\ pc' \in Unsnapped \/ pc \notin Unsnapped
    /\ pc' \in ToStop => pc \in ToStop
NewSnapshot == ctx'.free = free /\ ctx'.tot = Held

(* A step that touches neither the orders nor the coins.                   *)
LEMMA StillQuiet ==
    ASSUME Grounds, QuietInv, Untouched, SameMemory,
           ps.side = "BUY" => Settled,
           SameSnapshot \/ NewSnapshot \/ (ctx' = NoCtx /\ pc' = "idle"),
           pc' \notin {"protect", "rollback"},
           pc' \in OpenLabels => ps.side = "BUY",
           pc' \in {"guard", "manual"} => ctx'.free >= MinQty,
           pc' \in SaleLabels => Live = {},
           pc' # "moveCancel" => \A i \in Live : ord[i].stop >= SoftStop(ps'),
           pc' \in {"moveCancel", "movePlace"} => job'.arg >= SoftStop(ps')
    PROVE  QuietInv'
<1>0. PairTypeOK /\ OneLive BY DEF Grounds, OneStopInv
<1>a. /\ free' = free /\ locked' = locked /\ ord' = ord /\ hist' = hist
      /\ Live' = Live /\ Held' = Held
  BY DEF Untouched, Live, Held
<1>b. /\ free \in Nat /\ locked \in Int /\ Held = free + locked /\ ctx.free \in Int
      /\ ctx.tot \in Int /\ MinQty \in Nat \ {0} /\ Step \in Nat \ {0}
      /\ ord \in [StopIds -> [st : StopStates, qty : Nat, stop : Int, late : BOOLEAN]]
  BY <1>0, Quantities
<1>c. locked \in Nat BY <1>b, <1>0, SpotAssumption DEF OneLive
<1>1. FlagNamed' BY DEF QuietInv, FlagNamed, SameMemory
<1>2. EntrySet' BY DEF QuietInv, EntrySet, SameMemory
<1>3. WorksOnOpen' BY DEF WorksOnOpen, SameMemory
<1>4. ClosedHasNone' BY <1>a DEF QuietInv, ClosedHasNone, SameMemory
<1>5. Accounted' BY <1>a DEF Accounted, Settled, SameMemory
<1>6. LateOrders' BY <1>a DEF QuietInv, LateOrders
<1>7. ProtectFits' BY DEF ProtectFits
<1>8. SnapshotCovers'
  BY <1>a, <1>b, <1>c
     DEF QuietInv, SnapshotCovers, SameSnapshot, NewSnapshot, NoCtx, Unsnapped
<1>9. FreeKept'
  BY <1>a, <1>b DEF QuietInv, FreeKept, SameSnapshot, NewSnapshot, ToStop
<1>10. HighEnough' BY <1>a DEF HighEnough
<1>11. OrderGone' BY <1>a DEF OrderGone
<1> QED
  BY <1>1, <1>2, <1>3, <1>4, <1>5, <1>6, <1>7, <1>8, <1>9, <1>10, <1>11 DEF QuietInv

(* A step that closes the position.                                        *)
LEMMA CloseQuiet ==
    ASSUME ps'.side # "BUY", ps'.placed <=> ps'.slId # NoId, Live' = {}, hist'.side = "SELL",
           pc' \in {"idle", "fetch", "dustRead"}, ctx'.free <= ctx'.tot
    PROVE  QuietInv'
BY DEF QuietInv, FlagNamed, EntrySet, WorksOnOpen, OpenLabels, ClosedHasNone, Accounted,
       LateOrders, ProtectFits, SnapshotCovers, FreeKept, ToStop, HighEnough,
       OrderGone, SaleLabels

(* A step that takes the order back.                                       *)
LEMMA InHandQuiet ==
    ASSUME ps'.side = "BUY", ps'.entry # 0, ps'.slId = NoId, ~ps'.placed,
           pc' \in AirLabels, Live' = {}, Held' \in Int,
           Held' = ctx'.tot, free' = Held', Held' > MinQty, ctx'.free <= ctx'.tot,
           pc' \in {"guard", "manual"} => ctx'.free >= MinQty,
           pc' = "movePlace" => job'.arg >= SoftStop(ps')
    PROVE  QuietInv'
BY DEF QuietInv, FlagNamed, EntrySet, WorksOnOpen, ClosedHasNone, Accounted, InHand, AirLabels,
       LateOrders, ProtectFits, SnapshotCovers, FreeKept, HighEnough,
       OrderGone

(* A step that places an order.                                            *)
LEMMA PlacedQuiet ==
    ASSUME NEW i \in StopIds, OneLive', i \in Live', ord'[i].late, ord'[i].stop >= SoftStop(ps'),
           ps'.side = "BUY", ps'.entry # 0, ps'.slId = i, ps'.placed,
           free' < MinQty + Step, pc' = "idle" \/ free' < Step,
           ctx'.free <= ctx'.tot, pc' = "idle" \/ Held' = ctx'.tot,
           pc' \in Returns
    PROVE  QuietInv'
<1>1. Live' = {i} BY DEF OneLive
<1>2. i # NoId BY CycleAssumption
<1> QED
  BY <1>1, <1>2
     DEF QuietInv, FlagNamed, EntrySet, WorksOnOpen, ClosedHasNone, Accounted, Settled,
         LateOrders, ProtectFits, SnapshotCovers, FreeKept, HighEnough, Returns, Unsnapped, ToStop,
         OrderGone, SaleLabels

(* Outside the steps that hold coins in hand, an open position is          *)
(* settled.                                                                *)
LEMMA SettledElsewhere ==
    ASSUME QuietInv, ps.side = "BUY",
           pc \notin AirLabels \cup {"soldRead", "partialPlace", "protect"}
    PROVE  Settled
BY DEF QuietInv, Accounted, InHand, AirLabels

(* The first steps of a cycle: the poll of the order and the reads.        *)
LEMMA QuietGates ==
    ASSUME Grounds, QuietInv, faults' = 0,
           \/ CycleStart \/ HaltedCycle \/ FullCycle \/ NoPoll \/ Poll
           \/ FetchBalances \/ FetchPrice \/ CoolDownEnds
    PROVE  QuietInv'
<1> USE DEF Goto
<1>0. /\ ExTypeOK /\ OneLive /\ ps \in PairStates /\ ctx \in Snapshots
      /\ NoId \notin StopIds
      /\ ord \in [StopIds -> [st : StopStates, qty : Nat, stop : Int, late : BOOLEAN]]
  BY Quantities, CycleAssumption DEF Grounds, PairTypeOK, OneStopInv
<1>a. pc \notin AirLabels \cup {"soldRead", "partialPlace", "protect"} =>
        (ps.side = "BUY" => Settled)
  BY SettledElsewhere
<1>b. pc # "moveCancel" => \A i \in Live : ord[i].stop >= SoftStop(ps)
  BY DEF QuietInv, HighEnough
<1>1. CASE HaltedCycle \/ FullCycle \/ CoolDownEnds
  <2>1. UNCHANGED <<exVars, ps, ctx, pc, job>>
    BY <1>1 DEF HaltedCycle, FullCycle, CoolDownEnds, pairVars, botVars
  <2>2. Untouched /\ Live' = Live /\ Held' = Held
    BY <2>1 DEF exVars, Untouched, Live, Held
  <2> QED
    BY <2>1, <2>2 DEF Untouched, QuietInv, FlagNamed, EntrySet, WorksOnOpen, ClosedHasNone,
      Accounted, Settled, InHand, LateOrders, ProtectFits, SnapshotCovers, FreeKept, HighEnough,
      OrderGone
<1>2. CASE UNCHANGED <<free, locked, ord, hist, ps>> /\ ctx' = ctx /\ pc \in {"idle", "poll"}
           /\ pc' \in {"poll", "fetch"}
  <2>1. Untouched BY <1>2 DEF Untouched
  <2>2. SameMemory /\ SameSnapshot BY <1>2 DEF SameMemory, SameSnapshot, Unsnapped, ToStop
  <2> QED BY <1>a, <1>b, <1>2, <2>1, <2>2, StillQuiet DEF OpenLabels, AirLabels, SaleLabels
<1>3. CASE CycleStart
  <2>1. ~(ps.side = "BUY" /\ ~ps.placed /\ ps.slId # NoId) BY DEF QuietInv, FlagNamed
  <2>2. UNCHANGED <<free, locked, ord, hist, ps>> /\ ctx' = ctx /\ pc = "idle" /\ pc' = "poll"
    BY <1>3, <2>1 DEF CycleStart
  <2> QED BY <1>2, <2>2
<1>4. CASE NoPoll BY <1>2, <1>4 DEF NoPoll, exVars
<1>5. CASE Poll
  <2>1. CASE UNCHANGED ps BY <1>2, <1>5, <2>1 DEF Poll
  <2>2. CASE ps' = Reset("SELL") /\ HasFilled(ps.slId)
    <3>1. ps.slId \notin Live BY <2>2 DEF Live, HasFilled
    <3>2. Settled /\ pc = "poll" BY <1>5, <1>a DEF Poll, AirLabels
    <3>3. Live = {} /\ hist.side = "SELL" BY <3>1, <3>2 DEF Settled
    <3>4. Live' = {} /\ hist'.side = "SELL" /\ pc' = "fetch" /\ ctx' = ctx
      BY <1>5, <3>3 DEF Poll, Live
    <3>5. ps'.side # "BUY" /\ ps'.slId = NoId /\ ~ps'.placed BY <2>2 DEF Reset, Closed
    <3>6. ctx'.free <= ctx'.tot BY <3>4 DEF QuietInv, SnapshotCovers
    <3> QED BY <3>4, <3>5, <3>6, CloseQuiet
  <2>3. UNCHANGED ps \/ (ps' = Reset("SELL") /\ HasFilled(ps.slId)) BY <1>5 DEF Poll
  <2> QED BY <2>1, <2>2, <2>3
<1>6. CASE FetchBalances \/ FetchPrice
  <2>1. Untouched /\ UNCHANGED ps /\ pc \in {"fetch", "price"}
    BY <1>6 DEF FetchBalances, FetchPrice, Untouched
  <2>2. CASE FetchBalances
    <3>1. ctx' = [NoCtx EXCEPT !.free = free, !.locked = locked, !.tot = Held]
          /\ pc' = "price"
      BY <1>0, <2>2, QuietCalls DEF FetchBalances
    <3>2. NewSnapshot BY <3>1 DEF NewSnapshot, NoCtx
    <3>3. SameMemory BY <2>1 DEF SameMemory
    <3> QED BY <1>a, <1>b, <2>1, <3>1, <3>2, <3>3, StillQuiet DEF AirLabels, OpenLabels, SaleLabels
  <2>3. CASE FetchPrice
    <3>1. PICK p \in Prices : ctx' = [ctx EXCEPT !.px = p] /\ pc = "price" /\ pc' = "sync"
      BY <1>0, <2>3, QuietCalls DEF FetchPrice
    <3>2. ctx'.free = ctx.free /\ ctx'.tot = ctx.tot BY <1>0, <3>1 DEF Snapshots
    <3>3. SameMemory /\ SameSnapshot
      BY <2>1, <3>1, <3>2 DEF SameMemory, SameSnapshot, ToStop, Unsnapped
    <3> QED BY <1>a, <1>b, <2>1, <3>1, <3>3, StillQuiet DEF AirLabels, OpenLabels, SaleLabels
  <2> QED BY <1>6, <2>2, <2>3
<1> QED BY <1>1, <1>3, <1>4, <1>5, <1>6

(* The market fills the order, or the answer about a fill grows old.       *)
LEMMA QuietMarket ==
    ASSUME Grounds, QuietInv, Market
    PROVE  QuietInv'
<1>0. /\ PairTypeOK /\ OneLive BY DEF Grounds, OneStopInv
<1>a. /\ free \in Nat /\ locked \in Int /\ Held = free + locked
      /\ MinQty \in Nat \ {0} /\ Step \in Nat \ {0}
      /\ ord \in [StopIds -> [st : StopStates, qty : Nat, stop : Int, late : BOOLEAN]]
  BY <1>0, Quantities
<1>b. UNCHANGED <<ps, ctx, pc, job>> BY DEF Market, botVars
<1>1. ASSUME NEW i \in StopIds, StopFills(i) PROVE QuietInv'
  <2>1. i \in Live /\ Live = {i} /\ locked = ord[i].qty /\ ord[i].late
    BY <1>0, <1>1 DEF StopFills, OneLive, QuietInv, LateOrders
  <2>2. /\ ord' = [ord EXCEPT ![i] = Ended("FILLED")]
        /\ locked' = locked - ord[i].qty /\ free' = free
        /\ hist' = [hist EXCEPT !.side = "SELL", !.sales = Append(@, ord[i].qty)]
    BY <1>1, <2>1 DEF StopFills
  <2>3. Live' = {}
    <3>1. \A j \in StopIds : j # i => ord'[j] = ord[j] BY <1>a, <2>2
    <3>2. ord'[i].st = "FILLED" BY <1>a, <2>2
    <3> QED BY <2>1, <3>1, <3>2 DEF Live
  <2>4. Held' = free /\ hist'.side = "SELL"
    <3>1. hist'.side = "SELL" BY <1>0, <2>2 DEF PairTypeOK, ExTypeOK
    <3> QED BY <1>a, <2>1, <2>2, <3>1 DEF Held
  <2>5. ps.side = "BUY" /\ pc # "protect" /\ ~InHand
    BY <2>1 DEF QuietInv, ClosedHasNone, ProtectFits, InHand
  <2>6. free < MinQty + Step /\ ps.slId # NoId
    <3>1. Settled BY <2>5 DEF QuietInv, Accounted
    <3> QED BY <2>1, <3>1, CycleAssumption DEF Settled
  <2>7. Settled' BY <1>b, <2>3, <2>4, <2>6 DEF Settled
  <2> QED
    BY <1>b, <2>2, <2>3, <2>4, <2>5, <2>7
       DEF QuietInv, FlagNamed, EntrySet, WorksOnOpen, ClosedHasNone, Accounted, LateOrders,
           ProtectFits, SnapshotCovers, FreeKept, HighEnough, OrderGone
<1>2. ASSUME NEW i \in StopIds, FillAges(i) PROVE QuietInv'
  <2>1. ord[i].st = "FILLED" /\ ord' = [ord EXCEPT ![i] = Ended("OLD")]
        /\ UNCHANGED <<free, locked, hist>>
    BY <1>2 DEF FillAges
  <2>2. Live' = Live /\ (\A j \in Live : ord'[j] = ord[j]) /\ Held' = Held
    BY <1>a, <2>1 DEF Live, Held
  <2> QED
    BY <1>b, <2>1, <2>2
       DEF QuietInv, FlagNamed, EntrySet, WorksOnOpen, ClosedHasNone, Accounted, Settled, InHand,
           LateOrders, ProtectFits, SnapshotCovers, FreeKept, HighEnough, OrderGone
<1> QED BY <1>1, <1>2 DEF Market

(* The entry restored from the trade history.                              *)
LEMMA QuietSync ==
    ASSUME Grounds, QuietInv, faults' = 0, Sync
    PROVE  QuietInv'
<1> USE DEF Goto
<1>0. /\ ExTypeOK /\ OneLive /\ ps \in PairStates /\ ctx \in Snapshots
  BY Quantities DEF Grounds, PairTypeOK, OneStopInv
<1>1. /\ ps' = SyncedEntry(SyncedSide(ps)) /\ ctx' = [ctx EXCEPT !.newest = hist.newest]
      /\ pc = "sync" /\ pc' = "trail" /\ Untouched
  BY <1>0, QuietCalls DEF Sync, Untouched
<1>2. ctx'.free = ctx.free /\ ctx'.tot = ctx.tot BY <1>0, <1>1 DEF Snapshots
<1>3. SameMemory /\ SoftStop(ps') = SoftStop(ps)
  <2>1. CASE hist.side # "BUY"
    <3>1. hist.side = "SELL" BY <1>0, <2>1 DEF ExTypeOK
    <3>2. ps' = SyncedSide(ps) BY <1>1, <2>1 DEF SyncedEntry
    <3>3. ps.side = "BUY" => ps' = ps BY <3>1, <3>2 DEF SyncedSide, QuietInv, EntrySet
    <3>4. ps.side # "BUY" => ps' = [ps EXCEPT !.side = "SELL"] BY <3>1, <3>2 DEF SyncedSide
    <3> QED BY <1>0, <3>3, <3>4 DEF SameMemory, SoftStop, PairStates
  <2>2. CASE hist.side = "BUY"
    <3>1. ps.side = "BUY" /\ ps.entry # 0 /\ ps.stopE # 0
      BY <2>2 DEF QuietInv, ClosedHasNone, EntrySet, Grounds, StopsSet
    <3>2. SyncedSide(ps) = ps BY <1>0, <2>2, <3>1 DEF SyncedSide, PairStates
    <3>3. ps' = [ps EXCEPT !.entry = ps.entry, !.stopE = ps.stopE, !.stop = ps.stop,
                           !.act = IF ps.act = 0 THEN hist.px + TrailDist ELSE ps.act,
                           !.side = "BUY"]
      BY <1>1, <2>2, <3>1, <3>2 DEF SyncedEntry
    <3> QED BY <1>0, <3>1, <3>3 DEF SameMemory, SoftStop, PairStates
  <2> QED BY <2>1, <2>2
<1>4. SameSnapshot BY <1>1, <1>2 DEF SameSnapshot, Unsnapped, ToStop
<1>5. ps.side = "BUY" => Settled BY <1>1, SettledElsewhere DEF AirLabels
<1>6. \A i \in Live : ord[i].stop >= SoftStop(ps') BY <1>1, <1>3 DEF QuietInv, HighEnough
<1> QED BY <1>1, <1>3, <1>4, <1>5, <1>6, StillQuiet DEF OpenLabels, SaleLabels

(* The trailing and break-even stops.                                      *)
LEMMA QuietTrailing ==
    ASSUME Grounds, QuietInv, NoTrailing \/ Trail \/ BreakEven \/ Trailed
    PROVE  QuietInv'
<1> USE DEF Goto
<1>0. /\ PairTypeOK /\ OneLive /\ ps \in PairStates /\ ps.entry \in Int /\ ps.stop \in Int
      /\ (ps.stopE # 0 => ps.stop # 0) /\ (ps.entry # 0 => ps.stopE # 0)
      /\ HighWater(ps) - TrailDist \in Int /\ SoftStop(ps) \in Int
      /\ ord \in [StopIds -> [st : StopStates, qty : Nat, stop : Int, late : BOOLEAN]]
  <2>1. PairTypeOK /\ OneLive /\ StopsSet BY DEF Grounds, OneStopInv
  <2>2. ps \in PairStates /\ ctx \in Snapshots /\ SoftStop(ps) \in Int
        /\ ord \in [StopIds -> [st : StopStates, qty : Nat, stop : Int, late : BOOLEAN]]
    BY <2>1, Quantities
  <2>3. TrailDist \in Int BY CycleAssumption
  <2> QED BY <2>1, <2>2, <2>3, LevelTypes DEF StopsSet, PairStates
<1>1. /\ Untouched /\ ctx' = ctx /\ ps'.side = ps.side /\ ps'.entry = ps.entry
      /\ ps'.slId = ps.slId /\ ps'.placed = ps.placed /\ ps'.stopE = ps.stopE
      /\ (BreakEven \/ ps'.stop = ps.stop)
  <2>1. CASE NoTrailing BY <2>1 DEF NoTrailing, exVars, Untouched
  <2>2. CASE Trail BY <1>0, <2>2 DEF Trail, exVars, Untouched, PairStates
  <2>3. CASE BreakEven BY <1>0, <2>3 DEF BreakEven, exVars, Untouched, PairStates
  <2>4. CASE Trailed BY <1>0, <2>4 DEF Trailed, exVars, Untouched, PairStates
  <2> QED BY <2>1, <2>2, <2>3, <2>4
<1>2. /\ pc \in {"trail", "even", "trailed"}
      /\ pc' \in {"even", "trailed", "partial", "moveCancel"}
      /\ pc = "trail" /\ ps.side # "BUY" => pc' = "partial"
  BY DEF NoTrailing, Trail, BreakEven, Trailed, MoveStop
<1>3. ps.side = "BUY" => Settled BY <1>2, SettledElsewhere DEF AirLabels
<1>4. SameMemory /\ SameSnapshot
  BY <1>1, <1>2 DEF SameMemory, SameSnapshot, Unsnapped, ToStop
<1>5. pc' \in OpenLabels => ps.side = "BUY"
  BY <1>2 DEF QuietInv, WorksOnOpen, OpenLabels
<1>6. \A i \in Live : ord[i].stop >= SoftStop(ps) BY <1>2 DEF QuietInv, HighEnough
<1>7. ps'.stop = ps.stop => SoftStop(ps') = SoftStop(ps) BY <1>1 DEF SoftStop
(* The order that is there can be moved. *)
<1>8. Live # {} => Armed /\ ctx.tot > MinQty /\ ps.side = "BUY"
  <2> SUFFICES ASSUME Live # {} PROVE Armed /\ ctx.tot > MinQty /\ ps.side = "BUY"
    OBVIOUS
  <2>1. ps.side = "BUY" BY DEF QuietInv, ClosedHasNone
  <2>2. ps.slId \in Live BY <1>3, <2>1 DEF Settled
  <2>3. Armed BY <2>2, CycleAssumption DEF Armed, QuietInv, FlagNamed, Live
  <2>4. Held = ctx.tot BY <1>2 DEF QuietInv, SnapshotCovers, Unsnapped
  <2>5. Held > MinQty
    BY <1>0, <2>2, Quantities DEF OneLive
  <2> QED BY <2>1, <2>3, <2>4, <2>5
<1>9. /\ pc' # "moveCancel" => \A i \in Live : ord[i].stop >= SoftStop(ps')
      /\ pc' = "moveCancel" => job'.arg >= SoftStop(ps')
  <2>1. CASE NoTrailing \/ Trailed
    <3>1. pc' = "partial" /\ ps'.stop = ps.stop
      <4>1. ~BreakEven BY <2>1 DEF NoTrailing, Trailed, BreakEven
      <4> QED BY <1>1, <2>1, <4>1 DEF NoTrailing, Trailed
    <3> QED BY <1>6, <1>7, <3>1
  <2>2. CASE Trail
    <3> DEFINE level == HighWater(ps) - TrailDist
    <3>1. ps'.stop = ps.stop
      <4>1. ~BreakEven BY <2>2 DEF Trail, BreakEven
      <4> QED BY <1>1, <4>1
    <3>2. pc' = "moveCancel" => level > ps.stop /\ job'.arg = level
      BY <1>0, <2>2, Quantities DEF Trail, MoveStop, Jobs
    <3>3. SoftStop(ps') = ps.stop
      BY <1>0, <1>7, <2>2, <3>1 DEF Trail, SoftStop, QuietInv, EntrySet
    <3> QED BY <1>0, <1>6, <1>7, <3>1, <3>2, <3>3
  <2>3. CASE BreakEven
    <3>1. CASE UNCHANGED ps
      <4>1. pc' = "trailed" \/ (BreaksEven(ps) /\ ps.entry > ps.stop /\ ps'.stop = ps.entry)
        BY <1>0, <2>3 DEF BreakEven, PairStates
      <4> QED BY <1>0, <1>6, <3>1, <4>1
    <3>2. CASE ps' = [ps EXCEPT !.stop = ps.entry] /\ MoveStop(ps.entry, "trailed")
               /\ BreaksEven(ps)
      <4>1. ps'.stop = ps.entry /\ ps.entry # 0 BY <1>0, <3>2 DEF PairStates, BreaksEven
      <4>2. SoftStop(ps') = ps.entry BY <4>1 DEF SoftStop
      <4>3. Live # {} => pc' = "moveCancel" BY <1>8, <3>2 DEF MoveStop
      <4>4. pc' = "moveCancel" => job'.arg = ps.entry
        BY <1>0, <3>2, Quantities DEF MoveStop, Jobs
      <4> QED BY <1>0, <4>2, <4>3, <4>4
    <3> QED BY <2>3, <3>1, <3>2 DEF BreakEven
  <2> QED BY <2>1, <2>2, <2>3
<1> QED BY <1>1, <1>2, <1>3, <1>4, <1>5, <1>9, StillQuiet DEF SaleLabels

(* Rounding down keeps the minimum, which is a number of steps. *)
LEMMA FloorKeepsMin ==
    ASSUME NEW q \in Int, q >= MinQty
    PROVE  Floor(q) >= MinQty /\ Floor(q) <= q /\ q < Floor(q) + Step /\ Floor(q) \in Int
<1>1. Step \in Nat \ {0} /\ MinQty \in Nat \ {0} /\ MinQty % Step = 0 BY SpotAssumption
<1>2. Floor(q) <= q /\ q < Floor(q) + Step /\ Floor(q) \in Int BY FloorBounds, FloorType
<1>3. PICK m \in Int : MinQty = m * Step
  <2>1. MinQty = (MinQty \div Step) * Step BY <1>1
  <2>2. MinQty \div Step \in Int BY <1>1
  <2> QED BY <2>1, <2>2
<1>4. q \div Step \in Int BY <1>1
<1>5. m * Step < (q \div Step) * Step + Step BY <1>1, <1>2, <1>3 DEF Floor
<1>6. \A a, b \in Int : a * Step < b * Step + Step => a * Step <= b * Step
  <2> SUFFICES ASSUME NEW a \in Int, NEW b \in Int, a * Step < b * Step + Step
               PROVE  a * Step <= b * Step
    OBVIOUS
  <2>1. a < b + 1 BY <1>1, SMTT(30)
  <2>2. a <= b BY <2>1
  <2> QED BY <1>1, <2>2, SMTT(30)
<1>7. m * Step <= (q \div Step) * Step BY <1>4, <1>5, <1>6
<1> QED BY <1>2, <1>3, <1>7 DEF Floor

(* A partial sale leaves coins.                                            *)
LEMMA PartialIsPart ==
    ASSUME NEW k \in Pos, NEW q \in Nat
    PROVE  PartialQty(k, q) <= q /\ PartialQty(k, q) \in Int
<1>1. Pct[k] \in 0..100 BY CycleAssumption DEF Pos
<1>2. q * Pct[k] \in Nat /\ q * Pct[k] <= q * 100 BY <1>1, SMTT(30)
<1>3. (q * Pct[k]) \div 100 <= q /\ (q * Pct[k]) \div 100 \in Int BY <1>2
<1>4. Floor((q * Pct[k]) \div 100) <= (q * Pct[k]) \div 100
      /\ Floor((q * Pct[k]) \div 100) \in Int
  BY <1>3, FloorBounds, FloorType
<1> QED BY <1>3, <1>4 DEF PartialQty

(* A stop order that is taken covers all but a part of a step. *)
LEMMA QuietPlace ==
    ASSUME Grounds, QuietInv, OneLive', faults' = 0,
           NEW q \in Int, NEW price \in Int, Place(q, price, "ok"),
           ctx.tot < q + Step, price >= SoftStop(ps), ps.side = "BUY",
           pc \notin Unsnapped, ctx' = ctx, pc' \in Returns
    PROVE  QuietInv'
<1>0. /\ PairTypeOK /\ ExTypeOK /\ OneLive /\ free \in Nat /\ locked \in Int /\ Held = free + locked
      /\ MinQty \in Nat \ {0} /\ Step \in Nat \ {0} /\ Step <= MinQty /\ ctx.tot \in Int
      /\ Held \in Int /\ ps \in PairStates
      /\ (Held = ctx.tot \/ Held + Step <= ctx.tot)
  <2>1. PairTypeOK /\ ExTypeOK /\ OneLive /\ SnapshotExact
    BY DEF Grounds, OneStopInv, PairTypeOK
  <2> QED BY <2>1, Quantities DEF SnapshotExact, Unsnapped
<1>1. PICK i \in StopIds :
        /\ PlaceStopCall(i, q, price, "ok")
        /\ ps' = [ps EXCEPT !.slId = i, !.placed = TRUE]
  BY DEF Place
<1>2. LockedAway(i, q, price) BY <1>0, <1>1, QuietCalls
<1>3. ps'.side = "BUY" /\ ps'.entry # 0 /\ ps'.slId = i /\ ps'.placed
      /\ SoftStop(ps') = SoftStop(ps)
  BY <1>0, <1>1 DEF PairStates, QuietInv, EntrySet, SoftStop
<1>4. Live = {} => locked = 0 BY <1>0 DEF OneLive
<1>5. Live # {} => locked >= MinQty BY <1>0 DEF OneLive
<1>6. q <= free /\ free' = free - q /\ locked' = locked + q BY <1>2 DEF LockedAway
<1>7. locked = 0 BY <1>0, <1>4, <1>5, <1>6
<1>8. Held = ctx.tot BY <1>0, <1>6, <1>7
<1>9. free' < Step /\ Held' = ctx.tot BY <1>0, <1>6, <1>7, <1>8 DEF Held
<1>10. free' \in Int BY <1>0, <1>6
<1>11. free' < MinQty + Step BY <1>0, <1>9, <1>10
<1> QED
  BY <1>2, <1>3, <1>9, <1>11, PlacedQuiet DEF LockedAway, QuietInv, SnapshotCovers

(* A cancellation that is taken leaves all the coins free. *)
LEMMA QuietCancel ==
    ASSUME Grounds, QuietInv, TookBack(ps.slId),
           ps' = [ps EXCEPT !.slId = NoId, !.placed = FALSE],
           pc \notin Unsnapped, pc' \in AirLabels, ctx'.tot = ctx.tot, ctx'.free <= ctx'.tot,
           pc' \in {"guard", "manual"} => ctx'.free >= MinQty,
           pc' = "movePlace" => job'.arg >= SoftStop(ps)
    PROVE  QuietInv' /\ ctx.tot > MinQty
<1>0. /\ PairTypeOK /\ OneLive /\ free \in Nat /\ locked \in Int /\ Held = free + locked
      /\ MinQty \in Nat \ {0} /\ Step \in Nat \ {0} /\ ctx.tot \in Int /\ ps \in PairStates
      /\ Held \in Int
  <2>1. PairTypeOK /\ OneLive BY DEF Grounds, OneStopInv
  <2> QED BY <2>1, Quantities
<1>1. /\ ps.slId \in Live /\ Live' = {} /\ locked' = 0 /\ free' = Held
  BY DEF TookBack
<1>2. ps.side = "BUY" BY <1>1 DEF QuietInv, ClosedHasNone
<1>3. /\ ps'.side = "BUY" /\ ps'.entry # 0 /\ ps'.slId = NoId /\ ~ps'.placed
      /\ SoftStop(ps') = SoftStop(ps)
  BY <1>0, <1>2 DEF PairStates, QuietInv, EntrySet, SoftStop
<1>4. Held = ctx.tot BY <1>1 DEF QuietInv, SnapshotCovers
<1>5. Held > MinQty BY <1>0, <1>1 DEF OneLive
<1>6. Held' = Held BY <1>0, <1>1 DEF Held
<1> QED BY <1>0, <1>1, <1>3, <1>4, <1>5, <1>6, InHandQuiet

(* Only the step of the code changes, and no call takes effect. *)
LEMMA QuietPass ==
    ASSUME Grounds, QuietInv, Untouched, ps' = ps, ctx' = ctx,
           ps.side = "BUY" => Settled, pc # "moveCancel" \/ Live = {},
           pc' \in Unsnapped \/ pc \notin Unsnapped, pc' \in ToStop => pc \in ToStop,
           pc' \notin {"protect", "rollback", "guard", "moveCancel"},
           pc' = "movePlace" => FALSE,
           pc' \in OpenLabels => ps.side = "BUY",
           pc' \in SaleLabels => Live = {},
           pc' = "manual" => pc \in {"guard", "manual"}
    PROVE  QuietInv'
<1>1. SameMemory /\ SameSnapshot BY DEF SameMemory, SameSnapshot
<1>2. \A i \in Live : ord[i].stop >= SoftStop(ps')
  BY DEF QuietInv, HighEnough
<1>3. pc' \in {"guard", "manual"} => ctx'.free >= MinQty BY DEF QuietInv, FreeKept
<1> QED BY <1>1, <1>2, <1>3, StillQuiet

(* The order that is moved up: cancelled, placed again, or restored.       *)
LEMMA QuietMoves ==
    ASSUME Grounds, QuietInv, OneLive', faults' = 0, MoveCancel \/ MovePlace \/ Restore
    PROVE  QuietInv'
<1> USE DEF Goto
<1>0. /\ PairTypeOK /\ ExTypeOK /\ OneLive /\ free \in Nat /\ locked \in Int /\ Held = free + locked
      /\ MinQty \in Nat \ {0} /\ Step \in Nat \ {0} /\ Step <= MinQty /\ ctx.tot \in Int
      /\ SoftStop(ps) \in Int /\ job.arg \in Int /\ job.then \in Returns
      /\ ps \in PairStates
  <2>1. PairTypeOK /\ ExTypeOK /\ OneLive BY DEF Grounds, OneStopInv, PairTypeOK
  <2> QED BY <2>1, Quantities
<1>a. ps.side = "BUY" /\ (Settled \/ InHand) /\ pc \in {"moveCancel", "movePlace", "restore"}
      /\ pc \notin Unsnapped /\ ctx' = ctx /\ job' = job
  BY DEF MoveCancel, MovePlace, Restore, QuietInv, WorksOnOpen, OpenLabels, Accounted, Unsnapped
<1>b. ctx.tot < Floor(ctx.tot) + Step /\ Floor(ctx.tot) <= ctx.tot /\ Floor(ctx.tot) \in Int
      /\ (ctx.tot >= MinQty => Floor(ctx.tot) >= MinQty)
  BY <1>0, FloorBounds, FloorType, FloorKeepsMin
<1>c. InHand /\ pc \in {"movePlace", "restore"} =>
        Live = {} /\ ps.slId = NoId /\ free = ctx.tot /\ ctx.tot > MinQty
  <2>1. Live = {} => locked = 0 BY <1>0 DEF OneLive
  <2> QED BY <1>0, <2>1 DEF InHand
<1>1. CASE MoveCancel
  <2>0. Settled /\ pc = "moveCancel" BY <1>1, <1>a DEF MoveCancel, InHand, AirLabels
  <2>1. PICK r : CancelCall(ps.slId, r)
                 /\ IF r = "ok"
                      THEN /\ ps' = [ps EXCEPT !.slId = NoId, !.placed = FALSE]
                           /\ pc' = "movePlace"
                      ELSE UNCHANGED ps /\ pc' = "restore"
    BY <1>1 DEF MoveCancel
  <2>2. CASE r = "ok"
    <3>1. TookBack(ps.slId) BY <1>0, <2>1, <2>2, QuietCalls
    <3>2. job'.arg >= SoftStop(ps) /\ ctx'.free <= ctx'.tot
      BY <1>a, <2>0 DEF QuietInv, HighEnough, SnapshotCovers
    <3> QED BY <1>a, <2>1, <2>2, <3>1, <3>2, QuietCancel DEF AirLabels
  <2>3. CASE r # "ok"
    <3>1. ps.slId \notin Live /\ Untouched BY <1>0, <2>1, <2>3, QuietCalls
    <3>2. Live = {} BY <2>0, <3>1 DEF Settled
    <3> QED
      BY <1>a, <2>0, <2>1, <2>3, <3>1, <3>2, QuietPass DEF ToStop, SaleLabels, OpenLabels
  <2> QED BY <2>2, <2>3
<1>2. CASE MovePlace
  <2>1. PICK r : Place(Larger(Floor(ctx.tot), MinQty), job.arg, r)
                 /\ pc' = (IF r = "ok" THEN job.then ELSE "restore")
    BY <1>2 DEF MovePlace
  <2>2. pc = "movePlace" /\ ctx.tot > MinQty /\ job.arg >= SoftStop(ps)
    BY <1>2 DEF MovePlace, Grounds, OneStopInv, MovesEnough, QuietInv, HighEnough
  <2>3. Larger(Floor(ctx.tot), MinQty) = Floor(ctx.tot) BY <1>0, <1>b, <2>2 DEF Larger
  <2>4. CASE r = "ok"
    BY <1>0, <1>a, <1>b, <2>1, <2>2, <2>3, <2>4, QuietPlace
  <2>5. CASE r # "ok"
    <3>1. Untouched /\ ps' = ps /\ ~(Floor(ctx.tot) >= MinQty /\ Floor(ctx.tot) <= free)
      BY <1>0, <1>b, <2>1, <2>3, <2>5, QuietCalls DEF Place
    <3>2. Settled BY <1>0, <1>a, <1>b, <1>c, <2>2, <3>1
    <3> QED
      BY <1>a, <2>1, <2>2, <2>5, <3>1, <3>2, QuietPass DEF ToStop, SaleLabels, OpenLabels
  <2> QED BY <2>4, <2>5
<1>3. CASE Restore
  <2>1. pc = "restore" /\ pc' = job.then BY <1>3 DEF Restore
  <2>2. SoftStop(ps) # 0
    BY <1>a DEF QuietInv, EntrySet, Grounds, StopsSet, SoftStop
  <2>3. CASE Settled /\ Untouched /\ ps' = ps
    BY <1>0, <1>a, <2>1, <2>3, QuietPass DEF Returns, ToStop, SaleLabels, OpenLabels, Unsnapped
  <2>4. CASE ps.placed \/ ctx.tot <= MinQty
    <3>1. Untouched /\ ps' = ps BY <1>3, <2>4 DEF Restore, exVars, Untouched
    <3>2. Settled
      <4>1. CASE ps.placed BY <1>a, <1>c, <2>1, <4>1 DEF QuietInv, FlagNamed
      <4>2. CASE ctx.tot <= MinQty BY <1>0, <1>a, <1>c, <2>1, <4>2
      <4> QED BY <2>4, <4>1, <4>2
    <3> QED BY <2>3, <3>1, <3>2
  <2>5. CASE ~(ps.placed \/ ctx.tot <= MinQty)
    <3>1. PICK r : Place(Floor(ctx.tot), SoftStop(ps), r) BY <1>3, <2>2, <2>5 DEF Restore
    <3>2. CASE r = "ok"
      BY <1>0, <1>a, <1>b, <2>1, <3>1, <3>2, QuietPlace
    <3>3. CASE r # "ok"
      <4>1. Untouched /\ ps' = ps /\ ~(Floor(ctx.tot) >= MinQty /\ Floor(ctx.tot) <= free)
        BY <1>0, <1>b, <3>1, <3>3, QuietCalls DEF Place
      <4>2. Settled BY <1>0, <1>a, <1>b, <1>c, <2>1, <2>5, <4>1
      <4> QED BY <2>3, <4>1, <4>2
    <3> QED BY <3>2, <3>3
  <2> QED BY <2>4, <2>5
<1> QED BY <1>1, <1>2, <1>3

(* The steps around a partial sale.                                        *)
LEMMA QuietPartials ==
    ASSUME Grounds, QuietInv, OneLive', faults' = 0,
           PartialSync \/ PartialNext \/ PartialCancel \/ CanceledRead \/ SoldRead \/ PartialPlace
    PROVE  QuietInv'
<1> USE DEF Goto
<1>0. /\ PairTypeOK /\ ExTypeOK /\ OneLive /\ free \in Nat /\ locked \in Int /\ Held = free + locked
      /\ MinQty \in Nat \ {0} /\ Step \in Nat \ {0} /\ Step <= MinQty /\ ctx.tot \in Int
      /\ SoftStop(ps) \in Int /\ ps \in PairStates /\ ctx \in Snapshots
      /\ (Live = {} => locked = 0)
  <2>1. PairTypeOK /\ ExTypeOK /\ OneLive BY DEF Grounds, OneStopInv, PairTypeOK
  <2> QED BY <2>1, Quantities DEF OneLive
<1>1. CASE PartialSync \/ PartialNext
  <2>1. /\ pc \in {"partial", "partialNext"} /\ Untouched /\ ctx' = ctx
        /\ pc' \in {"stop", "partialNext", "partialCancel"}
        /\ pc' # "stop" => ps.side = "BUY"
    BY <1>1 DEF PartialSync, PartialNext, exVars, Untouched, QuietInv, WorksOnOpen, OpenLabels
  <2>2. ps'.side = ps.side /\ ps'.entry = ps.entry /\ ps'.slId = ps.slId /\ ps'.placed = ps.placed
        /\ SoftStop(ps') = SoftStop(ps)
    BY <1>0, <1>1 DEF PartialSync, PartialNext, PairStates, SoftStop
  <2>3. ps.side = "BUY" => Settled BY <2>1, SettledElsewhere DEF AirLabels
  <2>4. SameMemory /\ SameSnapshot
    BY <2>1, <2>2 DEF SameMemory, SameSnapshot, Unsnapped, ToStop
  <2>5. \A i \in Live : ord[i].stop >= SoftStop(ps') BY <2>1, <2>2 DEF QuietInv, HighEnough
  <2> QED BY <2>1, <2>3, <2>4, <2>5, StillQuiet DEF SaleLabels, OpenLabels
<1>2. CASE PartialCancel
  <2>1. pc = "partialCancel" /\ ps.side = "BUY" /\ ctx' = ctx /\ job' = job
    BY <1>2 DEF PartialCancel, CancelForSale, QuietInv, WorksOnOpen, OpenLabels
  <2>2. Settled BY <2>1, SettledElsewhere DEF AirLabels
  <2>3. CASE Untouched /\ ps' = ps /\ pc' = "partialSell" /\ ps.slId \notin Live
    <3>1. Live = {} BY <2>2, <2>3 DEF Settled
    <3> QED
      BY <2>1, <2>2, <2>3, <3>1, QuietPass DEF ToStop, SaleLabels, OpenLabels, Unsnapped
  <2>4. CASE ps.slId = NoId
    BY <1>2, <2>3, <2>4, CycleAssumption DEF PartialCancel, CancelForSale, exVars, Untouched, Live
  <2>5. CASE ps.slId # NoId
    <3>1. PICK r : CancelCall(ps.slId, r)
                   /\ IF r = "ok"
                        THEN /\ ps' = [ps EXCEPT !.slId = NoId, !.placed = FALSE]
                             /\ pc' = "canceledRead"
                        ELSE UNCHANGED ps /\ pc' = "partialSell"
      BY <1>2, <2>5 DEF PartialCancel, CancelForSale
    <3>2. CASE r = "ok"
      <4>1. TookBack(ps.slId) BY <1>0, <3>1, <3>2, QuietCalls
      <4>2. ctx'.free <= ctx'.tot BY <2>1 DEF QuietInv, SnapshotCovers
      <4> QED
        BY <2>1, <3>1, <3>2, <4>1, <4>2, QuietCancel DEF AirLabels, Unsnapped
    <3>3. CASE r # "ok"
      <4>1. ps.slId \notin Live /\ Untouched BY <1>0, <3>1, <3>3, QuietCalls
      <4> QED BY <2>3, <3>1, <3>3, <4>1
    <3> QED BY <3>2, <3>3
  <2> QED BY <2>4, <2>5
<1>3. CASE CanceledRead \/ SoldRead
  <2>1. /\ Untouched /\ ps' = ps /\ ps.side = "BUY" /\ Live = {}
        /\ ctx' = [ctx EXCEPT !.free = free, !.locked = locked, !.tot = Held]
        /\ pc \in {"canceledRead", "soldRead"}
        /\ pc' = IF pc = "canceledRead" THEN "partialSell" ELSE "partialPlace"
    BY <1>0, <1>3, QuietCalls
       DEF CanceledRead, SoldRead, Reread, Untouched, QuietInv, WorksOnOpen, OpenLabels,
           OrderGone, SaleLabels
  <2>2. ctx'.free = free /\ ctx'.tot = Held BY <1>0, <2>1 DEF Snapshots
  <2>3. /\ Live' = {} /\ Held' = Held /\ free' = free /\ hist' = hist /\ Held = free
    BY <1>0, <2>1 DEF Untouched, Live, Held
  <2>4. CASE Settled
    <3>1. SameMemory /\ NewSnapshot BY <2>1, <2>2 DEF SameMemory, NewSnapshot
    <3> QED BY <2>1, <2>4, <3>1, StillQuiet DEF OpenLabels
  <2>5. CASE InHand /\ pc = "canceledRead"
    <3>1. ps.slId = NoId /\ ~ps.placed /\ ps.entry # 0 /\ Held > MinQty
      BY <2>1, <2>5 DEF InHand, QuietInv, FlagNamed, EntrySet
    <3> QED BY <1>0, <2>1, <2>2, <2>3, <2>5, <3>1, InHandQuiet DEF AirLabels
  <2>6. CASE InHand /\ pc = "soldRead"
    <3>1. ps.slId = NoId /\ ~ps.placed /\ ps.entry # 0 /\ hist.side = "SELL"
      BY <2>1, <2>6 DEF InHand, AirLabels, QuietInv, FlagNamed, EntrySet
    <3>2. pc' = "partialPlace" BY <2>1, <2>6
    <3>3. InHand' BY <2>1, <2>2, <2>3, <3>1, <3>2 DEF InHand
    <3>4. SnapshotCovers' /\ FreeKept'
      BY <1>0, <2>2, <2>3, <3>2 DEF SnapshotCovers, FreeKept
    <3> QED
      BY <2>1, <2>3, <3>1, <3>2, <3>3, <3>4
         DEF QuietInv, FlagNamed, EntrySet, WorksOnOpen, ClosedHasNone, Accounted,
             LateOrders, ProtectFits, HighEnough, OrderGone
  <2>7. Settled \/ InHand BY <2>1 DEF QuietInv, Accounted
  <2> QED BY <2>1, <2>4, <2>5, <2>6, <2>7
<1>4. CASE PartialPlace
  <2>1. /\ pc = "partialPlace" /\ pc' = "partialNext" /\ ctx' = ctx /\ ps.side = "BUY" /\ Live = {}
        /\ (Settled \/ InHand)
    BY <1>4 DEF PartialPlace, QuietInv, WorksOnOpen, OpenLabels, Accounted, OrderGone, SaleLabels
  <2>2. SoftStop(ps) # 0 BY <2>1 DEF QuietInv, EntrySet, Grounds, StopsSet, SoftStop
  <2>3. InHand => hist.side = "SELL" /\ Held = ctx.tot /\ free = ctx.tot
    BY <1>0, <2>1 DEF InHand, AirLabels
  <2>4. Floor(ctx.tot) \in Int /\ ctx.tot < Floor(ctx.tot) + Step /\ Floor(ctx.tot) <= ctx.tot
        /\ (ctx.tot >= MinQty => Floor(ctx.tot) >= MinQty)
    BY <1>0, FloorBounds, FloorType, FloorKeepsMin
  <2>5. CASE Settled /\ Untouched /\ ps' = ps
    BY <2>1, <2>5, QuietPass DEF ToStop, SaleLabels, OpenLabels, Unsnapped
  <2>6. CASE ctx.tot <= MinQty
    <3>1. Untouched /\ ps' = ps BY <1>4, <2>6 DEF PartialPlace, exVars, Untouched
    <3>2. Settled BY <1>0, <2>1, <2>3, <2>6 DEF Settled
    <3> QED BY <2>5, <3>1, <3>2
  <2>7. CASE ctx.tot > MinQty
    <3>1. PICK r : Place(Floor(ctx.tot), SoftStop(ps), r)
      BY <1>0, <1>4, <2>2, <2>7 DEF PartialPlace
    <3>2. CASE r = "ok"
      <4>1. SoftStop(ps) >= SoftStop(ps) BY <1>0
      <4> QED
        BY <1>0, <2>1, <2>4, <3>1, <3>2, <4>1, QuietPlace DEF Unsnapped, Returns
    <3>3. CASE r # "ok"
      <4>1. Untouched /\ ps' = ps /\ ~(Floor(ctx.tot) >= MinQty /\ Floor(ctx.tot) <= free)
        BY <1>0, <2>4, <3>1, <3>3, QuietCalls DEF Place
      <4>2. Settled BY <1>0, <2>1, <2>3, <2>4, <2>7, <4>1
      <4> QED BY <2>5, <4>1, <4>2
    <3> QED BY <3>2, <3>3
  <2> QED BY <1>0, <2>6, <2>7
<1> QED BY <1>1, <1>2, <1>3, <1>4

(* The partial sale itself.                                                *)
LEMMA QuietPartialSale ==
    ASSUME Grounds, QuietInv, faults' = 0, PartialSell
    PROVE  QuietInv'
<1> USE DEF Goto
<1> DEFINE q == PartialQty(job.k, ctx.tot)
           flagged == [ps EXCEPT !.taken[job.k] = TRUE]
<1>0. /\ PairTypeOK /\ ExTypeOK /\ OneLive /\ free \in Nat /\ locked \in Int /\ Held = free + locked
      /\ Held \in Int
      /\ MinQty \in Nat \ {0} /\ Step \in Nat \ {0} /\ Step <= MinQty /\ ctx.tot \in Int
      /\ ps \in PairStates
      /\ (Live = {} => locked = 0) /\ Held <= ctx.tot /\ job.k \in Pos
  <2>1. PairTypeOK /\ ExTypeOK /\ OneLive /\ FlatInv /\ JobPos
    BY DEF Grounds, OneStopInv, PairTypeOK
  <2>2. pc = "partialSell" BY DEF PartialSell
  <2> QED BY <2>1, <2>2, Quantities DEF OneLive, FlatInv, CoinsCovered, JobPos
<1>1. /\ pc = "partialSell" /\ ctx' = ctx /\ ps.side = "BUY" /\ Live = {} /\ locked = 0
      /\ ctx.tot \in Nat
      /\ (Settled \/ (InHand /\ ps.slId = NoId /\ free = ctx.tot /\ ctx.tot > MinQty))
      /\ ps.entry # 0
  <2>1. /\ pc = "partialSell" /\ ctx' = ctx /\ ps.side = "BUY" /\ Live = {} /\ ps.entry # 0
        /\ (Settled \/ InHand)
    BY DEF PartialSell, QuietInv, WorksOnOpen, OpenLabels, Accounted, OrderGone, SaleLabels,
           EntrySet
  <2>2. InHand => ps.slId = NoId /\ free = ctx.tot /\ ctx.tot > MinQty
    BY <1>0, <2>1 DEF InHand
  <2> QED BY <1>0, <2>1, <2>2
<1>2. q \in Int /\ q <= ctx.tot BY <1>0, <1>1, PartialIsPart
<1>3. flagged.side = ps.side /\ flagged.entry = ps.entry /\ flagged.slId = ps.slId
      /\ flagged.placed = ps.placed /\ SoftStop(flagged) = SoftStop(ps)
  BY <1>0 DEF PairStates, SoftStop
<1> HIDE DEF q, flagged
(* Nothing is sold, and the order has to be put back. *)
<1>4. CASE Untouched /\ (ps' = ps \/ ps' = flagged) /\ pc' = "restore"
  <2>1. SameMemory /\ SameSnapshot /\ SoftStop(ps') = SoftStop(ps)
    BY <1>1, <1>3, <1>4 DEF SameMemory, SameSnapshot, Unsnapped, ToStop
  <2>2. CASE Settled
    BY <1>1, <1>4, <2>1, <2>2, StillQuiet DEF SaleLabels, OpenLabels
  <2>3. CASE InHand /\ ps.slId = NoId /\ free = ctx.tot /\ ctx.tot > MinQty
    <3>1. Live' = {} /\ Held' = ctx'.tot /\ free' = Held' /\ Held' > MinQty
      BY <1>0, <1>1, <1>4, <2>3 DEF Untouched, Live, Held
    <3>2. ps'.side = "BUY" /\ ps'.entry # 0 /\ ps'.slId = NoId /\ ~ps'.placed
      BY <1>1, <1>3, <1>4, <2>3 DEF QuietInv, FlagNamed
    <3>3. ctx'.free <= ctx'.tot BY <1>1 DEF QuietInv, SnapshotCovers
    <3> QED BY <1>0, <1>1, <1>4, <3>1, <3>2, <3>3, InHandQuiet DEF AirLabels
  <2> QED BY <1>1, <2>2, <2>3
<1>5. CASE q < MinQty
  <2>1. Untouched /\ ps' = flagged /\ pc' = "restore"
    BY <1>5 DEF PartialSell, q, flagged, exVars, Untouched
  <2> QED BY <1>4, <2>1
<1>6. CASE q >= MinQty
  <2>1. PICK r : /\ MarketSellCall(q, r)
                 /\ ps' = IF r = "ok" THEN flagged ELSE ps
                 /\ pc' = IF r = "ok" THEN "soldRead" ELSE "restore"
    BY <1>0, <1>2, <1>6 DEF PartialSell, q, flagged
  <2>2. CASE r = "ok"
    <3>1. SoldOff(q) BY <1>0, <1>2, <2>1, <2>2, QuietCalls
    <3>2. /\ Live' = {} /\ hist'.side = "SELL" /\ free' = free - q /\ Held' = Held - q
      BY <1>0, <1>1, <1>2, <3>1 DEF SoldOff, Live, Held
    <3>3. ps'.side = "BUY" /\ ps'.entry # 0 /\ ps'.slId = ps.slId /\ ps'.placed = ps.placed
      BY <1>1, <1>3, <2>1, <2>2
    <3>4. pc' = "soldRead" BY <2>1, <2>2
    <3>5. (Settled \/ InHand)'
      <4>1. CASE Settled
        BY <1>0, <1>1, <1>2, <1>6, <3>2, <3>3, <4>1 DEF Settled
      <4>2. CASE InHand /\ ps.slId = NoId BY <3>2, <3>3, <3>4, <4>2 DEF InHand
      <4> QED BY <1>1, <4>1, <4>2
    <3>6. FlagNamed' BY <3>3 DEF QuietInv, FlagNamed
    <3>7. SnapshotCovers' BY <1>1, <3>2 DEF QuietInv, SnapshotCovers
    <3> QED
      BY <3>2, <3>3, <3>4, <3>5, <3>6, <3>7
         DEF QuietInv, EntrySet, WorksOnOpen, ClosedHasNone, Accounted,
             LateOrders, ProtectFits, FreeKept, ToStop, HighEnough, OrderGone
  <2>3. CASE r # "ok"
    <3>1. Untouched /\ ps' = ps /\ pc' = "restore"
      BY <1>0, <1>2, <2>1, <2>3, QuietCalls
    <3> QED BY <1>4, <3>1
  <2> QED BY <2>2, <2>3
<1> QED BY <1>0, <1>2, <1>5, <1>6

(* The stop checks: a zero balance, a stale order, a fill that the poll    *)
(* missed.                                                                 *)
LEMMA QuietStops ==
    ASSUME Grounds, QuietInv, faults' = 0,
           StopCheck \/ ZeroBalance \/ StaleCancel \/ FilledCheck
    PROVE  QuietInv'
<1> USE DEF Goto
<1>0. /\ PairTypeOK /\ ExTypeOK /\ OneLive /\ free \in Nat /\ locked \in Int /\ Held = free + locked
      /\ MinQty \in Nat \ {0} /\ Step \in Nat \ {0} /\ ctx.tot \in Int
      /\ ctx.free \in Int /\ ps \in PairStates /\ ctx \in Snapshots
      /\ (Live # {} => locked >= MinQty)
  <2>1. PairTypeOK /\ ExTypeOK /\ OneLive BY DEF Grounds, OneStopInv, PairTypeOK
  <2> QED BY <2>1, Quantities DEF OneLive
<1>a. /\ Reset("SELL").side # "BUY" /\ Reset("SELL").slId = NoId /\ ~Reset("SELL").placed
      /\ NoCtx.free <= NoCtx.tot
      /\ [Reset("SELL") EXCEPT !.taken = ps.taken].side # "BUY"
      /\ [Reset("SELL") EXCEPT !.taken = ps.taken].slId = NoId
      /\ ~[Reset("SELL") EXCEPT !.taken = ps.taken].placed
  BY DEF Reset, Closed, NoCtx
<1>b. pc \in {"stop", "zero", "stale", "filled"} => (ps.side = "BUY" => Settled)
  BY SettledElsewhere DEF AirLabels
<1>c. pc \in {"zero", "stale", "filled"} => ps.side = "BUY"
  BY DEF QuietInv, WorksOnOpen, OpenLabels
<1>1. CASE StopCheck
  <2>1. /\ pc = "stop" /\ Untouched /\ ps' = ps /\ ctx' = ctx
        /\ pc' \in {"residue", "zero", "guard", "stale", "filled"}
        /\ pc' # "residue" => ps.side = "BUY"
        /\ pc' = "guard" => ctx.free >= MinQty
        /\ pc' = "zero" => ctx.tot <= 0
    BY <1>1 DEF StopCheck, exVars, Untouched
  <2>2. SameMemory /\ SameSnapshot BY <2>1 DEF SameMemory, SameSnapshot, Unsnapped, ToStop
  <2>3. \A i \in Live : ord[i].stop >= SoftStop(ps') BY <2>1 DEF QuietInv, HighEnough
  <2>4. pc' \in SaleLabels => Live = {}
    <3>1. Held <= ctx.tot BY <2>1 DEF Grounds, FlatInv, CoinsCovered
    <3> QED BY <1>0, <2>1, <3>1 DEF SaleLabels
  <2> QED BY <1>b, <2>1, <2>2, <2>3, <2>4, StillQuiet DEF OpenLabels
<1>2. CASE ZeroBalance
  <2>1. pc = "zero" /\ Untouched /\ ps' = [Reset("SELL") EXCEPT !.taken = ps.taken]
        /\ pc' = "idle" /\ ctx' = NoCtx
    BY <1>2 DEF ZeroBalance, EndCycle, Untouched
  <2>2. Live = {} /\ hist.side = "SELL"
    BY <1>b, <1>c, <2>1 DEF QuietInv, OrderGone, SaleLabels, Settled
  <2>3. Live' = {} /\ hist'.side = "SELL" BY <2>1, <2>2 DEF Untouched, Live
  <2> QED BY <1>a, <2>1, <2>3, CloseQuiet
<1>3. CASE StaleCancel
  <2>1. PICK r : /\ CancelCall(ps.slId, r)
                 /\ IF r = "ok"
                      THEN /\ ps' = [ps EXCEPT !.slId = NoId, !.placed = FALSE]
                           /\ ctx' = [ctx EXCEPT !.free = ctx.tot]
                           /\ pc' = "guard"
                      ELSE UNCHANGED <<ps, ctx, job>> /\ pc' = "filled"
    BY <1>3 DEF StaleCancel
  <2>2. pc = "stale" /\ Settled /\ ps.side = "BUY" BY <1>3, <1>b, <1>c DEF StaleCancel
  <2>3. CASE r = "ok"
    <3>1. TookBack(ps.slId) BY <1>0, <2>1, <2>3, QuietCalls
    <3>2. ctx'.tot = ctx.tot /\ ctx'.free = ctx.tot BY <1>0, <2>1, <2>3 DEF Snapshots
    <3>3. ctx.tot >= MinQty
      <4>1. Held = ctx.tot /\ Live # {}
        BY <2>2, <3>1 DEF TookBack, QuietInv, SnapshotCovers, Unsnapped
      <4> QED BY <1>0, <4>1
    <3> QED
      BY <1>0, <2>1, <2>2, <2>3, <3>1, <3>2, <3>3, QuietCancel DEF AirLabels, Unsnapped
  <2>4. CASE r # "ok"
    <3>1. Untouched BY <1>0, <2>1, <2>4, QuietCalls
    <3> QED
      BY <2>1, <2>2, <2>4, <3>1, QuietPass DEF ToStop, SaleLabels, OpenLabels, Unsnapped
  <2> QED BY <2>3, <2>4
<1>4. CASE FilledCheck
  <2>1. pc = "filled" /\ Untouched /\ pc' = "idle" /\ ctx' = NoCtx /\ ps.side = "BUY" /\ Settled
    BY <1>4, <1>b, <1>c DEF FilledCheck, EndCycle, Untouched
  <2>2. CASE UNCHANGED ps
    <3>1. SameMemory BY <2>2 DEF SameMemory
    <3>2. \A i \in Live : ord[i].stop >= SoftStop(ps') BY <2>1, <2>2 DEF QuietInv, HighEnough
    <3> QED BY <2>1, <3>1, <3>2, StillQuiet DEF SaleLabels, OpenLabels
  <2>3. CASE ps' = Reset("SELL") /\ (HasFilled(ps.slId) \/ ps.slId = NoId)
    <3>1. ps.slId \notin Live BY <2>3, CycleAssumption DEF Live, HasFilled
    <3>2. Live = {} /\ hist.side = "SELL" BY <2>1, <3>1 DEF Settled
    <3>3. Live' = {} /\ hist'.side = "SELL" BY <2>1, <3>2 DEF Untouched, Live
    <3> QED BY <1>a, <2>1, <2>3, <3>3, CloseQuiet
  <2> QED BY <1>4, <2>2, <2>3 DEF FilledCheck
<1> QED BY <1>1, <1>2, <1>3, <1>4

(* The guard sells what the snapshot had free.  When the exchange refuses  *)
(* that, less than a step is left.                                         *)
LEMMA QuietGuard ==
    ASSUME Grounds, QuietInv, faults' = 0, GuardCancel \/ ManualSell
    PROVE  QuietInv'
<1> USE DEF Goto
<1>0. /\ PairTypeOK /\ ExTypeOK /\ OneLive /\ free \in Nat /\ locked \in Int /\ Held = free + locked
      /\ MinQty \in Nat \ {0} /\ Step \in Nat \ {0} /\ Step <= MinQty /\ ctx.tot \in Int
      /\ ctx.free \in Int /\ ps \in PairStates
      /\ (Live = {} => locked = 0)
  <2>1. PairTypeOK /\ ExTypeOK /\ OneLive BY DEF Grounds, OneStopInv, PairTypeOK
  <2> QED BY <2>1, Quantities DEF OneLive
<1>a. /\ pc \in {"guard", "manual"} /\ ps.side = "BUY" /\ (Settled \/ InHand)
      /\ ctx.free <= ctx.tot /\ ctx.free >= MinQty /\ ps.entry # 0
      /\ (ctx.free <= free \/ free < Step)
      /\ (pc = "manual" => Live = {})
  BY DEF GuardCancel, ManualSell, QuietInv, WorksOnOpen, OpenLabels, Accounted, SnapshotCovers,
         FreeKept, ToStop, EntrySet, OrderGone, SaleLabels
<1>1. CASE GuardCancel
  <2>0. pc = "guard" /\ pc' = "manual" /\ ctx' = ctx BY <1>1 DEF GuardCancel
  <2>1. CASE ~Armed
    <3>1. Untouched /\ ps' = ps BY <1>1, <2>1 DEF GuardCancel, exVars, Untouched
    <3>2. ps.slId = NoId /\ ~ps.placed BY <2>1 DEF Armed, QuietInv, FlagNamed
    <3>3. Live = {} BY <1>a, <3>2, CycleAssumption DEF Settled, InHand, Live
    <3>4. CASE Settled
      BY <1>a, <2>0, <3>1, <3>3, <3>4, QuietPass
         DEF ToStop, SaleLabels, OpenLabels, Unsnapped
    <3>5. CASE InHand
      <4>1. Held = ctx.tot /\ Held > MinQty /\ Held = free BY <1>0, <2>0, <3>3, <3>5 DEF InHand
      <4>2. Live' = {} /\ Held' = Held /\ free' = free BY <3>1, <3>3 DEF Untouched, Live, Held
      <4> QED
        BY <1>0, <1>a, <2>0, <3>1, <3>2, <4>1, <4>2, InHandQuiet DEF AirLabels
    <3> QED BY <1>a, <3>4, <3>5
  <2>2. CASE Armed
    <3>1. PICK r : CancelCall(ps.slId, r) BY <1>1, <2>2 DEF GuardCancel
    <3>2. ps' = [ps EXCEPT !.slId = NoId, !.placed = FALSE] BY <1>1, <2>2 DEF GuardCancel
    <3>3. CASE r = "ok"
      <4>1. TookBack(ps.slId) BY <1>0, <3>1, <3>3, QuietCalls
      <4> QED
        BY <1>a, <2>0, <3>2, <4>1, QuietCancel DEF AirLabels, Unsnapped
    <3>4. CASE r # "ok"
      <4>1. ps.slId \notin Live /\ Untouched BY <1>0, <3>1, <3>4, QuietCalls
      <4>2. Live = {} /\ hist.side = "SELL" /\ Held < MinQty + Step
        BY <1>a, <2>2, <4>1 DEF Settled, InHand, Armed
      <4>3. Live' = {} /\ hist'.side = "SELL" /\ Held' = Held /\ free' = free
        BY <4>1, <4>2 DEF Untouched, Live, Held
      <4>4. ps'.side = "BUY" /\ ps'.entry # 0 /\ ps'.slId = NoId /\ ~ps'.placed
        BY <1>0, <1>a, <3>2 DEF PairStates
      <4>5. InHand' BY <2>0, <4>2, <4>3, <4>4 DEF InHand
      <4>6. SnapshotCovers' /\ FreeKept'
        BY <1>0, <1>a, <2>0, <4>3 DEF SnapshotCovers, FreeKept
      <4> QED
        BY <2>0, <4>3, <4>4, <4>5, <4>6
           DEF QuietInv, FlagNamed, EntrySet, WorksOnOpen, ClosedHasNone, Accounted,
               LateOrders, ProtectFits, HighEnough, OrderGone
    <3> QED BY <3>3, <3>4
  <2> QED BY <2>1, <2>2
<1>2. CASE ManualSell
  <2>0. pc = "manual" /\ Live = {} /\ locked = 0 BY <1>0, <1>2, <1>a DEF ManualSell
  <2>1. Floor(ctx.free) >= MinQty /\ Floor(ctx.free) <= ctx.free /\ Floor(ctx.free) \in Int
    BY <1>0, <1>a, FloorKeepsMin
  <2>2. PICK r : /\ MarketSellCall(Floor(ctx.free), r)
                 /\ IF r = "ok" THEN ps' = Reset("SELL") /\ EndCycle
                    ELSE /\ UNCHANGED ps
                         /\ (pc' = "filled" /\ UNCHANGED ctx) \/ EndCycle
    BY <1>0, <1>2, <2>1 DEF ManualSell
  <2>3. CASE r = "ok"
    <3>1. SoldOff(Floor(ctx.free)) BY <1>0, <2>1, <2>2, <2>3, QuietCalls
    <3>2. Live' = {} /\ hist'.side = "SELL" BY <2>0, <3>1 DEF SoldOff, Live
    <3> QED
      BY <2>2, <2>3, <3>2, CloseQuiet DEF EndCycle, Reset, Closed, NoCtx
  <2>4. CASE r # "ok"
    <3>1. Untouched /\ ~(Floor(ctx.free) >= MinQty /\ Floor(ctx.free) <= free)
      BY <1>0, <2>1, <2>2, <2>4, QuietCalls
    <3>2. free < Step /\ Held = free BY <1>0, <1>a, <2>0, <2>1, <3>1
    <3>3. Settled
      <4>1. CASE InHand
        <5>1. hist.side = "SELL" \/ Held > MinQty BY <2>0, <4>1 DEF InHand
        <5> QED BY <1>0, <2>0, <3>2, <4>1, <5>1 DEF InHand, Settled
      <4> QED BY <1>a, <4>1
    <3>4. SameMemory BY <2>2, <2>4 DEF SameMemory
    <3>5. SameSnapshot \/ (ctx' = NoCtx /\ pc' = "idle")
      BY <2>0, <2>2, <2>4 DEF SameSnapshot, EndCycle, Unsnapped, ToStop
    <3>6. pc' \in {"filled", "idle"} BY <2>2, <2>4 DEF EndCycle
    <3> QED
      BY <1>a, <2>0, <3>1, <3>3, <3>4, <3>5, <3>6, StillQuiet DEF SaleLabels, OpenLabels
  <2> QED BY <2>3, <2>4
<1> QED BY <1>1, <1>2

(* The dust clean-up.                                                      *)
LEMMA QuietDust ==
    ASSUME Grounds, QuietInv, faults' = 0, DustReset \/ DustSell \/ DustRead \/ NoDust \/ NoSignal
    PROVE  QuietInv'
<1> USE DEF Goto
<1>0. /\ PairTypeOK /\ ExTypeOK /\ OneLive /\ free \in Nat /\ locked \in Int /\ Held = free + locked
      /\ MinQty \in Nat \ {0} /\ Step \in Nat \ {0} /\ ctx.tot \in Int /\ ctx \in Snapshots
      /\ (\A i \in Live : locked >= MinQty /\ (locked = MinQty => free > 0))
  <2>1. PairTypeOK /\ ExTypeOK /\ OneLive BY DEF Grounds, OneStopInv, PairTypeOK
  <2> QED BY <2>1, Quantities DEF OneLive
<1>a. /\ pc \in {"residue", "dustRead", "signal", "buy"}
      /\ (ps.side = "BUY" => Settled)
      /\ Held <= ctx.tot /\ ctx.free <= ctx.tot
  <2>1. pc \in {"residue", "dustRead", "signal", "buy"}
    BY DEF DustReset, DustSell, DustRead, NoDust, NoSignal
  <2>2. ps.side = "BUY" => Settled BY <2>1, SettledElsewhere DEF AirLabels
  <2>3. Held <= ctx.tot BY <2>1 DEF Grounds, FlatInv, CoinsCovered
  <2> QED BY <2>1, <2>2, <2>3 DEF QuietInv, SnapshotCovers
<1>b. ctx.tot <= MinQty => Live = {} /\ hist.side = "SELL"
  <2> SUFFICES ASSUME ctx.tot <= MinQty PROVE Live = {} /\ hist.side = "SELL" OBVIOUS
  <2>1. Live = {} BY <1>0, <1>a
  <2>2. ps.side = "BUY" => hist.side = "SELL" BY <1>a, <2>1 DEF Settled
  <2> QED BY <2>1, <2>2 DEF QuietInv, ClosedHasNone
<1>c. \A i \in Live : ord[i].stop >= SoftStop(ps) BY <1>a DEF QuietInv, HighEnough
<1>1. CASE DustReset
  <2>1. /\ Untouched /\ ps' = Reset("SELL") /\ pc' = "idle" /\ ctx' = NoCtx /\ ctx.tot <= MinQty
    BY <1>1 DEF DustReset, Residue, EndCycle, exVars, Untouched
  <2>2. Live' = {} /\ hist'.side = "SELL" BY <1>b, <2>1 DEF Untouched, Live
  <2> QED BY <2>1, <2>2, CloseQuiet DEF Reset, Closed, NoCtx
<1>2. CASE DustSell
  <2>1. PICK r : /\ MarketSellCall(ctx.tot, r)
                 /\ ps' = IF r = "ok" THEN Reset("SELL") ELSE ps
                 /\ pc' = IF r = "ok" THEN "dustRead" ELSE "buy"
    BY <1>2 DEF DustSell
  <2>2. ctx.tot <= MinQty /\ ctx' = ctx BY <1>2 DEF DustSell, Residue
  <2>3. CASE r = "ok"
    <3>1. SoldOff(ctx.tot) BY <1>0, <2>1, <2>3, QuietCalls
    <3>2. Live' = {} /\ hist'.side = "SELL" BY <1>b, <2>2, <3>1 DEF SoldOff, Live
    <3> QED BY <1>a, <2>1, <2>2, <2>3, <3>2, CloseQuiet DEF Reset, Closed
  <2>4. CASE r # "ok"
    <3>1. Untouched BY <1>0, <2>1, <2>4, QuietCalls
    <3> QED
      BY <1>a, <2>1, <2>2, <2>4, <3>1, QuietPass DEF ToStop, SaleLabels, OpenLabels, Unsnapped
  <2> QED BY <2>3, <2>4
<1>3. CASE DustRead
  <2>1. /\ Untouched /\ ps' = ps /\ pc' = "buy"
        /\ ctx' = [ctx EXCEPT !.free = free, !.locked = locked, !.tot = Held]
    BY <1>0, <1>3, QuietCalls DEF DustRead, Reread, Untouched
  <2>2. SameMemory /\ NewSnapshot BY <1>0, <2>1 DEF SameMemory, NewSnapshot, Snapshots
  <2> QED
    BY <1>a, <1>c, <2>1, <2>2, StillQuiet DEF SaleLabels, OpenLabels
<1>4. CASE NoDust
  <2>1. Untouched /\ ps' = ps /\ ctx' = ctx /\ pc' \in {"signal", "buy"}
    BY <1>4 DEF NoDust, exVars, Untouched
  <2> QED BY <1>a, <2>1, QuietPass DEF ToStop, SaleLabels, OpenLabels, Unsnapped
<1>5. CASE NoSignal
  <2>1. Untouched /\ ps' = ps /\ ctx' = NoCtx /\ pc' = "idle"
    BY <1>5 DEF NoSignal, EndCycle, exVars, Untouched
  <2>2. SameMemory BY <2>1 DEF SameMemory
  <2> QED BY <1>a, <1>c, <2>1, <2>2, StillQuiet DEF SaleLabels, OpenLabels
<1> QED BY <1>1, <1>2, <1>3, <1>4, <1>5

(* The sale on a signal.                                                   *)
LEMMA QuietSignal ==
    ASSUME Grounds, QuietInv, faults' = 0, SellSignal \/ SignalRead \/ SignalSell
    PROVE  QuietInv'
<1> USE DEF Goto
<1>0. /\ PairTypeOK /\ ExTypeOK /\ OneLive /\ free \in Nat /\ locked \in Int /\ Held = free + locked
      /\ MinQty \in Nat \ {0} /\ Step \in Nat \ {0} /\ ctx.tot \in Int /\ ctx \in Snapshots
      /\ (Live = {} => locked = 0) /\ Held \in Int
  <2>1. PairTypeOK /\ ExTypeOK /\ OneLive BY DEF Grounds, OneStopInv, PairTypeOK
  <2> QED BY <2>1, Quantities DEF OneLive
<1>c. pc # "moveCancel" => \A i \in Live : ord[i].stop >= SoftStop(ps)
  BY DEF QuietInv, HighEnough
<1>1. CASE SellSignal
  <2>1. pc = "signal" /\ ctx' = ctx /\ (ps.side = "BUY" => Settled) /\ ctx.free <= ctx.tot
    BY <1>1, SettledElsewhere DEF SellSignal, CancelForSale, AirLabels, QuietInv, SnapshotCovers
  <2>2. CASE Untouched /\ ps' = ps /\ pc' = "signalSell" /\ ps.slId \notin Live
    <3>1. Live = {} BY <2>1, <2>2 DEF Settled, QuietInv, ClosedHasNone
    <3> QED
      BY <2>1, <2>2, <3>1, QuietPass DEF ToStop, SaleLabels, OpenLabels, Unsnapped
  <2>3. CASE ps.slId = NoId
    BY <1>1, <2>2, <2>3, CycleAssumption DEF SellSignal, CancelForSale, exVars, Untouched, Live
  <2>4. CASE ps.slId # NoId
    <3>1. PICK r : CancelCall(ps.slId, r)
                   /\ IF r = "ok"
                        THEN /\ ps' = [ps EXCEPT !.slId = NoId, !.placed = FALSE]
                             /\ pc' = "signalRead"
                        ELSE UNCHANGED ps /\ pc' = "signalSell"
      BY <1>1, <2>4 DEF SellSignal, CancelForSale
    <3>2. CASE r = "ok"
      <4>1. TookBack(ps.slId) BY <1>0, <3>1, <3>2, QuietCalls
      <4> QED
        BY <2>1, <3>1, <3>2, <4>1, QuietCancel DEF AirLabels, Unsnapped
    <3>3. CASE r # "ok"
      <4>1. ps.slId \notin Live /\ Untouched BY <1>0, <3>1, <3>3, QuietCalls
      <4> QED BY <2>2, <3>1, <3>3, <4>1
    <3> QED BY <3>2, <3>3
  <2> QED BY <2>3, <2>4
<1>2. CASE SignalRead
  <2>1. /\ Untouched /\ ps' = ps /\ Live = {} /\ pc = "signalRead" /\ pc' = "signalSell"
        /\ ctx' = [ctx EXCEPT !.free = free, !.locked = locked, !.tot = Held]
    BY <1>0, <1>2, QuietCalls DEF SignalRead, Reread, Untouched, QuietInv, OrderGone, SaleLabels
  <2>2. ctx'.free = free /\ ctx'.tot = Held BY <1>0, <2>1 DEF Snapshots
  <2>3. CASE ps.side = "BUY" => Settled
    <3>1. SameMemory /\ NewSnapshot BY <2>1, <2>2 DEF SameMemory, NewSnapshot
    <3> QED BY <2>1, <2>3, <3>1, StillQuiet DEF OpenLabels
  <2>4. CASE ps.side = "BUY" /\ InHand
    <3>1. /\ Live' = {} /\ Held' = Held /\ free' = free /\ Held = free
      BY <1>0, <2>1 DEF Untouched, Live, Held
    <3>2. ps.slId = NoId /\ ~ps.placed /\ ps.entry # 0 /\ Held > MinQty
      BY <2>1, <2>4 DEF InHand, QuietInv, FlagNamed, EntrySet
    <3> QED BY <1>0, <2>1, <2>2, <2>4, <3>1, <3>2, InHandQuiet DEF AirLabels
  <2> QED BY <2>1, <2>3, <2>4 DEF QuietInv, Accounted
<1>3. CASE SignalSell
  <2>0. /\ pc = "signalSell" /\ pc' = "idle" /\ ctx' = NoCtx /\ Live = {}
    BY <1>3 DEF SignalSell, EndCycle, QuietInv, OrderGone, SaleLabels
  <2>1. Floor(ctx.tot) \in Int /\ Floor(ctx.tot) <= ctx.tot
        /\ (ctx.tot >= MinQty => Floor(ctx.tot) >= MinQty)
    BY <1>0, FloorBounds, FloorType, FloorKeepsMin
  <2>2. CASE Untouched /\ ps' = ps /\ ~(Floor(ctx.tot) >= MinQty /\ Floor(ctx.tot) <= free)
    <3>1. ps.side = "BUY" => Settled
      <4> SUFFICES ASSUME ps.side = "BUY", InHand PROVE FALSE
        BY <2>0 DEF QuietInv, Accounted
      <4>1. Held = ctx.tot /\ Held > MinQty /\ Held = free BY <1>0, <2>0 DEF InHand
      <4> QED BY <1>0, <2>1, <2>2, <4>1
    <3>2. SameMemory BY <2>2 DEF SameMemory
    <3> QED BY <1>c, <2>0, <2>2, <3>1, <3>2, StillQuiet DEF SaleLabels, OpenLabels
  <2>3. CASE Floor(ctx.tot) < MinQty
    <3>1. Untouched /\ ps' = ps BY <1>3, <2>3 DEF SignalSell, exVars, Untouched
    <3> QED BY <1>0, <2>1, <2>2, <2>3, <3>1
  <2>4. CASE ~(Floor(ctx.tot) < MinQty)
    <3>1. PICK r : /\ MarketSellCall(Floor(ctx.tot), r)
                   /\ ps' = IF r = "ok"
                            THEN [Closed EXCEPT !.slId = ps.slId, !.placed = ps.placed]
                            ELSE ps
      BY <1>3, <2>4 DEF SignalSell
    <3>2. CASE r = "ok"
      <4>1. SoldOff(Floor(ctx.tot)) BY <1>0, <2>1, <3>1, <3>2, QuietCalls
      <4>2. Live' = {} /\ hist'.side = "SELL" BY <2>0, <4>1 DEF SoldOff, Live
      <4>3. ps'.side # "BUY" /\ ps'.slId = ps.slId /\ ps'.placed = ps.placed
        BY <3>1, <3>2 DEF Closed
      <4> QED BY <2>0, <4>2, <4>3, CloseQuiet DEF NoCtx, QuietInv, FlagNamed
    <3>3. CASE r # "ok"
      <4>1. Untouched /\ ~(Floor(ctx.tot) >= MinQty /\ Floor(ctx.tot) <= free)
        BY <1>0, <2>1, <3>1, <3>3, QuietCalls
      <4> QED BY <2>2, <3>1, <3>3, <4>1
    <3> QED BY <3>2, <3>3
  <2> QED BY <2>3, <2>4
<1> QED BY <1>1, <1>2, <1>3

(* The buy, its first stop order, and its rollback.                        *)
LEMMA QuietBuys ==
    ASSUME Grounds, QuietInv, BigBuys, OneLive', faults' = 0, Buy \/ Protect \/ Rollback
    PROVE  QuietInv'
<1> USE DEF Goto
<1>0. /\ PairTypeOK /\ ExTypeOK /\ OneLive /\ free \in Nat /\ locked \in Int /\ Held = free + locked
      /\ MinQty \in Nat \ {0} /\ Step \in Nat \ {0} /\ ctx \in Snapshots /\ Held \in Int
      /\ (Live = {} => locked = 0) /\ ps \in PairStates /\ job.arg \in Int
      /\ ctx.free <= ctx.tot
  <2>1. PairTypeOK /\ ExTypeOK /\ OneLive BY DEF Grounds, OneStopInv, PairTypeOK
  <2> QED BY <2>1, Quantities DEF OneLive, QuietInv, SnapshotCovers
<1>1. CASE Buy
  <2>1. PICK q \in BuyQtys, r \in {"ok", "lost", "err", "unfilled"} :
          /\ MarketBuyCall(q, ctx.px, r)
          /\ r = "ok" => /\ ps' = Bought(ctx.px) /\ job' = [NoJob EXCEPT !.arg = Floor(q)]
                         /\ pc' = "protect" /\ UNCHANGED ctx
    BY <1>1 DEF Buy
  <2>2. r = "ok"
    BY <1>0, <2>1, SpotAssumption DEF MarketBuyCall, Answered, Faulty, ExTypeOK
  <2>3. /\ ps' = Bought(ctx.px) /\ job'.arg = Floor(q) /\ pc' = "protect" /\ ctx' = ctx
    BY <2>1, <2>2 DEF NoJob
  <2>4. Live' = {} BY <1>0, <1>1, <2>3, BuyIsAlone DEF Grounds
  <2>5. free' = free + q BY <2>1, <2>2 DEF MarketBuyCall, Effective
  <2>6. q \in Nat /\ Floor(q) <= q /\ Floor(q) \in Int
    <3>1. q \in Nat BY SpotAssumption
    <3> QED BY <3>1, FloorBounds, FloorType
  <2>7. /\ ps'.side = "BUY" /\ ps'.entry = ctx.px /\ ps'.stop = ps'.stopE
        /\ ps'.slId = ps.slId /\ ps'.placed = ps.placed
    BY <1>0, <2>3 DEF Bought, PairStates
  <2>8. ctx.px # 0 BY <1>1, CycleAssumption DEF Buy
  <2>9. job'.arg <= free' BY <1>0, <2>3, <2>5, <2>6
  <2> QED
    BY <1>0, <2>3, <2>4, <2>7, <2>8, <2>9
       DEF QuietInv, FlagNamed, EntrySet, WorksOnOpen, ClosedHasNone, Accounted, LateOrders,
           ProtectFits, SnapshotCovers, FreeKept, ToStop, HighEnough, OrderGone
<1>2. CASE Protect
  <2>1. PICK r : /\ Place(job.arg, ps.stopE, r)
                 /\ r = "ok" => EndCycle
    BY <1>2 DEF Protect
  <2>2. /\ pc = "protect" /\ Live = {} /\ job.arg <= free /\ ps.stop = ps.stopE
        /\ job.arg >= MinQty + Step /\ Held < job.arg + MinQty + Step
        /\ ps.side = "BUY" /\ ps.entry # 0 /\ ps.stopE \in Int
    BY <1>0, <1>2 DEF Protect, QuietInv, ProtectFits, Grounds, OneStopInv, ProtectsAll,
       WorksOnOpen, OpenLabels, EntrySet, PairStates
  <2>3. r = "ok"
    <3>1. job.arg >= MinQty BY <1>0, <2>2
    <3> QED BY <1>0, <2>1, <2>2, <3>1, QuietCalls DEF Place
  <2>4. PICK i \in StopIds :
          PlaceStopCall(i, job.arg, ps.stopE, "ok") /\ ps' = [ps EXCEPT !.slId = i, !.placed = TRUE]
    BY <2>1, <2>3 DEF Place
  <2>5. LockedAway(i, job.arg, ps.stopE) BY <1>0, <2>2, <2>4, QuietCalls
  <2>6. ps'.side = "BUY" /\ ps'.entry # 0 /\ ps'.slId = i /\ ps'.placed /\ SoftStop(ps') = ps.stopE
    BY <1>0, <2>2, <2>4 DEF PairStates, SoftStop
  <2>7. free' < MinQty + Step BY <1>0, <2>2, <2>5 DEF LockedAway
  <2>8. pc' = "idle" /\ ctx' = NoCtx BY <2>1, <2>3 DEF EndCycle
  <2>9. ord'[i].stop >= SoftStop(ps') BY <2>2, <2>5, <2>6 DEF LockedAway
  <2> QED
    BY <2>5, <2>6, <2>7, <2>8, <2>9, PlacedQuiet DEF LockedAway, NoCtx, Returns
<1>3. CASE Rollback BY <1>3 DEF Rollback, QuietInv, ProtectFits
<1> QED BY <1>1, <1>2, <1>3

(* Faults are only counted up. *)
LEMMA NoFaultBefore ==
    ASSUME PairTypeOK, PairNext, faults' = 0
    PROVE  faults = 0
<1>0. faults \in Nat BY SpotAssumption DEF PairTypeOK, ExTypeOK
<1>a. (\A r, can, replies : Answered(r, can, replies) => faults = 0) BY <1>0 DEF Answered
<1>b. faults' = faults => faults = 0 OBVIOUS
<1> USE DEF ReadCall, CancelCall, MarketSellCall, PlaceStopCall, MarketBuyCall, Place
<1>1. CASE \/ CycleStart \/ HaltedCycle \/ FullCycle \/ NoPoll \/ Poll
           \/ FetchBalances \/ FetchPrice \/ Sync
  BY <1>1, <1>a, <1>b
     DEF CycleStart, HaltedCycle, FullCycle, NoPoll, Poll, FetchBalances, FetchPrice, Sync,
         pairVars, exVars
<1>2. CASE NoTrailing \/ Trail \/ BreakEven \/ Trailed \/ PartialSync \/ PartialNext
           \/ StopCheck \/ DustReset \/ NoDust \/ NoSignal \/ CoolDownEnds
  BY <1>2, <1>b
     DEF NoTrailing, Trail, BreakEven, Trailed, PartialSync, PartialNext, StopCheck,
         DustReset, NoDust, NoSignal, CoolDownEnds, exVars
<1>3. CASE CanceledRead \/ SoldRead \/ DustRead \/ SignalRead
  BY <1>3, <1>a DEF CanceledRead, SoldRead, DustRead, SignalRead, Reread
<1>4. CASE MoveCancel \/ StaleCancel \/ GuardCancel \/ PartialCancel \/ SellSignal
  <2>1. (\E r : CancelCall(ps.slId, r)) \/ UNCHANGED faults
    BY <1>4 DEF MoveCancel, StaleCancel, GuardCancel, PartialCancel, SellSignal,
                CancelForSale, exVars
  <2> QED BY <2>1, <1>a, <1>b
<1>5. CASE MovePlace \/ Restore \/ PartialPlace \/ Protect
  <2>1. UNCHANGED faults \/ \E q, price, r : Place(q, price, r)
    BY <1>5 DEF MovePlace, Restore, PartialPlace, Protect, exVars
  <2> QED BY <2>1, <1>a, <1>b
<1>6. CASE PartialSell \/ ManualSell \/ DustSell \/ SignalSell \/ Rollback
  <2>1. UNCHANGED faults \/ \E q, r : MarketSellCall(q, r)
    BY <1>6 DEF PartialSell, ManualSell, DustSell, SignalSell, Rollback, exVars
  <2> QED BY <2>1, <1>a, <1>b
<1>7. CASE Buy BY <1>7, <1>a DEF Buy
<1>8. CASE ZeroBalance \/ FilledCheck
  BY <1>8, <1>a, <1>b DEF ZeroBalance, FilledCheck
<1>9. CASE Market BY <1>9, <1>b DEF Market, StopFills, FillAges
<1> QED
  <2> HIDE DEF ReadCall, CancelCall, MarketSellCall, PlaceStopCall, MarketBuyCall, Place
  <2> QED BY <1>1, <1>2, <1>3, <1>4, <1>5, <1>6, <1>7, <1>8, <1>9 DEF PairNext, Cycle

(* Every step keeps the invariant, and those it rests on, until a call     *)
(* fails.                                                                  *)
LEMMA NextQuiet ==
    ASSUME Grounds, QuietInv, BigBuys, PairNext, faults' = 0
    PROVE  QuietInv'
<1>1. OneLive' BY NextOneLive DEF Grounds
<1> QED
  BY <1>1, QuietGates, QuietSync, QuietTrailing, QuietMoves, QuietPartials, QuietPartialSale,
     QuietStops, QuietGuard, QuietDust, QuietSignal, QuietBuys, QuietMarket
     DEF PairNext, Cycle

LEMMA NextGrounds ==
    ASSUME Grounds, BigBuys, PairNext, faults' = 0
    PROVE  Grounds'
<1>1. PairTypeOK' /\ JobPos' /\ FlatInv' /\ BuyAboveStop' /\ StopsSet' /\ NamedLive'
  BY NextTypes, NextJobPos, NextFlat, NextBuyAboveStop, NextStops, NextNamedLive DEF Grounds
<1>2. OneStopInv'
  BY NextOneLive, NextSnapshotExact, NextMovesEnough, NextProtectsAll DEF Grounds, OneStopInv
<1> QED BY <1>1, <1>2 DEF Grounds

(* The invariant of a pair, as long as no call has failed. *)
Quiet == faults = 0 => Grounds /\ QuietInv

(* As long as no call has failed, the invariant holds.                     *)
LEMMA InvariantQuiet ==
    ASSUME BigBuys
    PROVE  Spec => [](PairTypeOK /\ JobPos /\ Quiet)
<1>1. Init => PairTypeOK /\ JobPos /\ Quiet
  <2> SUFFICES ASSUME Init PROVE PairTypeOK /\ JobPos /\ Quiet OBVIOUS
  <2>1. PairTypeOK /\ JobPos BY InitTypes
  <2>2. Live = {} /\ locked = 0 /\ hist.side = "SELL" BY DEF Init, ExInit, Live, NoStop
  <2>3. /\ pc = "idle" /\ ctx = NoCtx /\ ps = Closed BY DEF Init
  <2>4. OneStopInv
    BY <2>2, <2>3 DEF OneStopInv, OneLive, SnapshotExact, MovesEnough, ProtectsAll
  <2>5. FlatInv BY <2>3 DEF FlatInv, CoinsCovered, ResidueOnly
  <2>a. /\ ps.entry = 0 /\ ps.stopE = 0 /\ ~ps.placed /\ ps.slId = NoId /\ ps.side # "BUY"
        /\ ctx.free <= ctx.tot
    BY <2>3 DEF Closed, NoCtx
  <2>6. BuyAboveStop /\ StopsSet /\ NamedLive
    BY <2>2, <2>a DEF BuyAboveStop, StopsSet, NamedLive, Armed
  <2>7. QuietInv
    BY <2>2, <2>3, <2>a
       DEF QuietInv, FlagNamed, EntrySet, WorksOnOpen, OpenLabels, ClosedHasNone, Accounted,
       LateOrders, ProtectFits, SnapshotCovers, FreeKept, ToStop, HighEnough, OrderGone,
       SaleLabels
  <2> QED BY <2>1, <2>4, <2>5, <2>6, <2>7 DEF Quiet, Grounds
<1>2. PairTypeOK /\ JobPos /\ Quiet /\ [PairNext]_pairVars => (PairTypeOK /\ JobPos /\ Quiet)'
  <2>1. ASSUME PairTypeOK, JobPos, Quiet, PairNext PROVE (PairTypeOK /\ JobPos /\ Quiet)'
    <3>1. PairTypeOK' /\ JobPos' BY <2>1, NextTypes, NextJobPos
    <3>2. faults' = 0 => Grounds' /\ QuietInv'
      BY <2>1, NoFaultBefore, NextGrounds, NextQuiet DEF Quiet
    <3> QED BY <3>1, <3>2 DEF Quiet
  <2>2. ASSUME PairTypeOK, JobPos, Quiet, UNCHANGED pairVars PROVE (PairTypeOK /\ JobPos /\ Quiet)'
    <3>1. PairTypeOK' /\ JobPos' BY <2>2, StutterTypes
    <3>2. ASSUME faults' = 0 PROVE Grounds' /\ QuietInv'
      <4>0. UNCHANGED <<free, locked, ord, hist, faults, ps, cool, halt, ctx, pc, job>>
        BY <2>2 DEF pairVars, exVars, botVars
      <4>1. Grounds /\ QuietInv BY <2>2, <3>2, <4>0 DEF Quiet
      <4>a. Live' = Live /\ Held' = Held BY <4>0 DEF Live, Held
      <4>2. FlatInv' /\ OneStopInv'
        BY <4>0, <4>1, <4>a
           DEF Grounds, FlatInv, CoinsCovered, ResidueOnly, OneStopInv, OneLive, SnapshotExact,
               MovesEnough, ProtectsAll
      <4>3. BuyAboveStop' /\ StopsSet' /\ NamedLive'
        BY <4>0, <4>1, <4>a DEF Grounds, BuyAboveStop, StopsSet, NamedLive, Armed, HasFilled
      <4>4. QuietInv'
        BY <4>0, <4>1, <4>a
           DEF QuietInv, FlagNamed, EntrySet, WorksOnOpen, ClosedHasNone, Accounted, Settled,
               InHand, LateOrders, ProtectFits, SnapshotCovers, FreeKept, HighEnough, OrderGone
      <4> QED BY <3>1, <4>2, <4>3, <4>4 DEF Grounds
    <3> QED BY <3>1, <3>2 DEF Quiet
  <2> QED BY <2>1, <2>2
<1> QED BY <1>1, <1>2, PairSteps, PTL

(* When no call fails, an open position always has its stop order between  *)
(* two cycles, for all but a residue of the coins, or that order has just  *)
(* filled: no path of the trailing, break-even, partial and sale code ends *)
(* without it.                                                             *)
THEOREM NeverUnprotected ==
    ASSUME BigBuys
    PROVE  Spec => []Protected
<1>1. PairTypeOK /\ JobPos /\ Quiet => Protected
  <2> SUFFICES ASSUME PairTypeOK, Grounds, QuietInv, pc = "idle", ps.side = "BUY", Held > MinQty
               PROVE  Armed /\ (HasFilled(ps.slId) \/ (ps.slId \in Live /\ free < MinQty + Step))
    BY DEF Quiet, Protected, Resting, OpenAndHeld
  <2>1. Settled BY SettledElsewhere DEF AirLabels
  <2>2. ps.slId # NoId
    BY <2>1, Quantities, CycleAssumption DEF Settled, Live
  <2>3. Armed BY <2>2 DEF Armed, QuietInv, FlagNamed
  <2>4. ps.slId \in Live \/ HasFilled(ps.slId) BY <2>3 DEF Grounds, NamedLive
  <2> QED BY <2>1, <2>3, <2>4 DEF Settled
<1> QED BY <1>1, InvariantQuiet, PTL

(* When no call fails, the exchange holds no stop order that the bot does  *)
(* not name as the one of its open position.                               *)
THEOREM NoForgottenStop ==
    ASSUME BigBuys
    PROVE  Spec => []NoOrphanStop
<1>1. PairTypeOK /\ JobPos /\ Quiet => NoOrphanStop
  <2> SUFFICES ASSUME Grounds, QuietInv, pc = "idle", NEW i \in Live
               PROVE  ps.side = "BUY" /\ i = ps.slId
    BY DEF Quiet, NoOrphanStop, Resting
  <2>1. ps.side = "BUY" BY DEF QuietInv, ClosedHasNone
  <2>2. Settled BY <2>1, SettledElsewhere DEF AirLabels
  <2> QED BY <2>1, <2>2 DEF Settled, Grounds, OneStopInv, OneLive
<1> QED BY <1>1, InvariantQuiet, PTL

(* When no call fails, the order on the exchange is never below the stop   *)
(* of the entry or, once it is reached, the break-even stop.               *)
THEOREM OrderAtLeastSoft ==
    ASSUME BigBuys
    PROVE  Spec => []StopAtLeastSoft
<1>1. PairTypeOK /\ JobPos /\ Quiet => StopAtLeastSoft
  BY DEF Quiet, StopAtLeastSoft, Resting, QuietInv, HighEnough
<1> QED BY <1>1, InvariantQuiet, PTL

(* The steps that may close a position. *)
LEMMA ClosingSteps ==
    ASSUME PairTypeOK, PairNext, ps.side = "BUY", ps'.side # "BUY"
    PROVE  Poll \/ Sync \/ ZeroBalance \/ FilledCheck \/ ManualSell \/ DustReset \/ DustSell
             \/ SignalSell \/ Rollback
<1>0. ps \in PairStates BY DEF PairTypeOK
<1>a. ps' # ps OBVIOUS
<1>1. ~(HaltedCycle \/ FullCycle \/ NoPoll \/ FetchBalances \/ FetchPrice \/ NoTrailing
        \/ PartialNext \/ StopCheck \/ NoDust \/ NoSignal \/ CoolDownEnds \/ Market)
  BY <1>a DEF HaltedCycle, FullCycle, NoPoll, FetchBalances, FetchPrice, NoTrailing,
              PartialNext, StopCheck, NoDust, NoSignal, CoolDownEnds, Market, pairVars, botVars
<1>2. ~(CanceledRead \/ SoldRead \/ DustRead \/ SignalRead)
  BY <1>a DEF CanceledRead, SoldRead, DustRead, SignalRead, Reread
<1>3. ~(MoveCancel \/ StaleCancel \/ GuardCancel \/ PartialCancel \/ SellSignal)
  <2>1. [ps EXCEPT !.slId = NoId, !.placed = FALSE].side = ps.side BY <1>0 DEF PairStates
  <2> QED
    BY <1>a, <2>1 DEF MoveCancel, StaleCancel, GuardCancel, PartialCancel, SellSignal, CancelForSale
<1>4. ~(MovePlace \/ Restore \/ PartialPlace \/ Protect)
  <2>1. \A i : [ps EXCEPT !.slId = i, !.placed = TRUE].side = ps.side BY <1>0 DEF PairStates
  <2> QED BY <1>a, <2>1 DEF MovePlace, Restore, PartialPlace, Protect, Place
<1>5. ~(CycleStart \/ Trail \/ BreakEven \/ Trailed \/ PartialSync \/ PartialSell \/ Buy)
  <2>1. ~CycleStart BY <1>0, <1>a DEF CycleStart, PairStates
  <2>2. ~(Trail \/ BreakEven \/ Trailed) BY <1>0, <1>a DEF Trail, BreakEven, Trailed, PairStates
  <2>3. ~(PartialSync \/ PartialSell) BY <1>0, <1>a DEF PartialSync, PartialSell, PairStates
  <2>4. ~Buy BY DEF Buy, MayBuy
  <2> QED BY <2>1, <2>2, <2>3, <2>4
<1> QED BY <1>1, <1>2, <1>3, <1>4, <1>5 DEF PairNext, Cycle

(* Each of those steps closes on dust, the manual sale apart.              *)
LEMMA NextClosesFlat ==
    ASSUME Grounds, QuietInv, QuietInv', PairNext, faults' = 0,
           ps.side = "BUY", ps'.side # "BUY"
    PROVE  Held' < MinQty + Step + LeftBehind
<1>0. /\ PairTypeOK /\ ExTypeOK /\ OneLive /\ free \in Nat /\ locked \in Int /\ Held = free + locked
      /\ MinQty \in Nat \ {0} /\ Step \in Nat \ {0} /\ Step <= MinQty /\ ctx \in Snapshots
      /\ Held \in Int
      /\ ctx.tot \in Int /\ ctx.free \in Int /\ ps.entry # 0
  <2>1. PairTypeOK /\ ExTypeOK /\ OneLive BY DEF Grounds, OneStopInv, PairTypeOK
  <2> QED BY <2>1, Quantities DEF QuietInv, EntrySet
<1>a. UNCHANGED <<free, locked>> => Held' = Held BY DEF Held
<1>c. LeftBehind \in Int /\ LeftBehind >= 0
  BY <1>0 DEF LeftBehind, QuietInv, SnapshotCovers
<1>d. Held' \in Int
  <2>1. PairTypeOK' BY NextTypes DEF Grounds
  <2> QED BY <2>1 DEF PairTypeOK, ExTypeOK, Held
<1>e. Held' < MinQty + Step => Held' < MinQty + Step + LeftBehind BY <1>0, <1>c, <1>d
<1>b. Settled /\ ps.slId \notin Live => Held < MinQty + Step BY DEF Settled
<1>1. CASE Poll
  <2>1. HasFilled(ps.slId) /\ pc = "poll" /\ UNCHANGED <<free, locked>> BY <1>1 DEF Poll
  <2> QED
    BY <1>a, <1>b, <1>e, <2>1, SettledElsewhere DEF AirLabels, HasFilled, Live
<1>2. CASE Sync
  <2>1. ps' = ps \/ ps' = SyncedEntry(SyncedSide(ps)) BY <1>2 DEF Sync
  <2>2. hist.side \in {"BUY", "SELL"} BY <1>0 DEF ExTypeOK
  <2>3. hist.side = "SELL" => ps' = ps
    BY <1>0, <2>1 DEF SyncedEntry, SyncedSide
  <2>4. CASE hist.side = "BUY"
    <3>1. ps \in PairStates BY <1>0 DEF PairTypeOK
    <3>2. SyncedSide(ps) \in PairStates BY <2>4, <3>1 DEF SyncedSide, PairStates, Sides
    <3>3. ps'.side = "BUY" BY <2>1, <2>4, <3>2 DEF SyncedEntry, PairStates
    <3> QED BY <3>3
  <2> QED BY <2>2, <2>3, <2>4
<1>3. CASE ZeroBalance \/ DustReset
  <2>1. UNCHANGED <<free, locked>> /\ pc \in {"zero", "residue"} /\ Held <= ctx.tot
        /\ ps.side = "BUY" /\ (pc = "zero" => Live = {}) /\ (DustReset => ctx.tot <= MinQty)
    BY <1>3 DEF ZeroBalance, DustReset, Residue, exVars, Grounds, FlatInv, CoinsCovered,
       QuietInv, OrderGone, SaleLabels
  <2>2. CASE DustReset BY <1>0, <1>a, <1>e, <2>1, <2>2
  <2>3. CASE ZeroBalance
    <3>1. pc = "zero" BY <2>3 DEF ZeroBalance
    <3> QED BY <1>a, <1>b, <1>e, <2>1, <3>1, SettledElsewhere DEF AirLabels
  <2> QED BY <1>3, <2>2, <2>3
<1>4. CASE FilledCheck
  <2>1. pc = "filled" /\ UNCHANGED <<free, locked>> /\ (HasFilled(ps.slId) \/ ps.slId = NoId)
    BY <1>4 DEF FilledCheck
  <2> QED
    BY <1>a, <1>b, <1>e, <2>1, SettledElsewhere, CycleAssumption DEF AirLabels, HasFilled, Live
(* A sale of all but left of what the snapshot held leaves less than that  *)
(* and a step.                                                             *)
<1>5. ASSUME NEW q \in Int, NEW left \in Int, MarketSellCall(q, "ok"), Held <= ctx.tot,
             ctx.tot - left < q + Step
      PROVE  Held' < MinQty + Step + left
  <2>1. SoldOff(q) BY <1>0, <1>5, QuietCalls
  <2>2. Held' = Held - q BY <1>0, <2>1 DEF SoldOff, Held
  <2> QED BY <1>0, <1>5, <2>2
<1>6. CASE ManualSell
  <2>1. LeftBehind = ctx.tot - ctx.free /\ Held <= ctx.tot
    BY <1>6 DEF ManualSell, LeftBehind, Grounds, FlatInv, CoinsCovered
  <2>2. MarketSellCall(Floor(ctx.free), "ok") BY <1>6 DEF ManualSell
  <2>3. Floor(ctx.free) \in Int /\ ctx.free < Floor(ctx.free) + Step
    BY <1>0, FloorBounds, FloorType
  <2>4. ctx.tot - (ctx.tot - ctx.free) < Floor(ctx.free) + Step BY <1>0, <2>3
  <2>5. Held' < MinQty + Step + (ctx.tot - ctx.free)
    BY <1>0, <1>5, <2>1, <2>2, <2>3, <2>4
  <2> QED BY <2>1, <2>5
<1>7. CASE DustSell
  <2>1. MarketSellCall(ctx.tot, "ok") /\ Held <= ctx.tot
    BY <1>7 DEF DustSell, Grounds, FlatInv, CoinsCovered
  <2>2. Held' < MinQty + Step + 0 BY <1>0, <1>5, <2>1
  <2> QED BY <1>0, <1>d, <1>e, <2>2
<1>8. CASE SignalSell
  <2>1. MarketSellCall(Floor(ctx.tot), "ok") /\ Held <= ctx.tot
    BY <1>8 DEF SignalSell, Grounds, FlatInv, CoinsCovered
  <2>2. Floor(ctx.tot) \in Int /\ ctx.tot < Floor(ctx.tot) + Step
    BY <1>0, FloorBounds, FloorType
  <2>3. Held' < MinQty + Step + 0 BY <1>0, <1>5, <2>1, <2>2
  <2> QED BY <1>0, <1>d, <1>e, <2>3
<1>9. CASE Rollback BY <1>9 DEF Rollback, QuietInv, ProtectFits
<1> QED
  BY <1>0, <1>e, <1>1, <1>2, <1>3, <1>4, <1>6, <1>7, <1>8, <1>9, ClosingSteps

(* When no call fails, seven of the eight paths that close a position      *)
(* leave no more than dust.  The eighth, the manual sale on a snapshot,    *)
(* leaves besides the coins the snapshot counted as locked, and none that  *)
(* moved since: the code does leave these (order_manager.py:881), so the   *)
(* bound is the best there is.                                             *)
THEOREM ClosedIsFlat ==
    ASSUME BigBuys
    PROVE  Spec => ClosesFlat
<1>1. /\ PairTypeOK /\ JobPos /\ Quiet /\ (PairTypeOK /\ JobPos /\ Quiet)' /\ [PairNext]_pairVars
      => [ps.side = "BUY" /\ ps'.side # "BUY" /\ faults' = 0
          => Held' < MinQty + Step + LeftBehind]_pairVars
  <2> SUFFICES ASSUME PairTypeOK, Quiet, Quiet', PairNext, faults' = 0,
                      ps.side = "BUY", ps'.side # "BUY"
               PROVE  Held' < MinQty + Step + LeftBehind
    OBVIOUS
  <2>1. faults = 0 BY NoFaultBefore
  <2>2. Grounds /\ QuietInv /\ QuietInv' BY <2>1 DEF Quiet
  <2> QED BY <2>2, NextClosesFlat
<1> QED BY <1>1, InvariantQuiet, PairSteps, PTL DEF ClosesFlat

=============================================================================
