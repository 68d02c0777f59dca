-------------------------- MODULE ParamGate_proofs --------------------------
(***************************************************************************)
(* Theorems of ParamGate, for any number of pairs and thresholds and any   *)
(* number of crashes.                                                      *)
(***************************************************************************)
EXTENDS ParamGate, TLAPS

(* What a pair's job knows, step by step: between two jobs the parameters  *)
(* kept fit the block and the throttle; a job starts from them, holds a    *)
(* pool that fits the block once it has judged, and ends with parameters   *)
(* that fit again.                                                         *)
Kept(p) ==
    /\ pc[p] \in {"idle", "begin"} => blocked[p] \/ live[p].src # "all"
    /\ pc[p] \in {"idle", "begin"} \/ stage = "boot" => (fresh[p] => live[p].src # "none")
Started(p) == pc[p] = "begin" => work[p] = live[p]
PoolFits(p) == pc[p] \in {"search", "store", "walk"} => pool[p] = "valid" \/ blocked[p]
Ready(p) ==
    pc[p] = "trade" =>
        (blocked[p] \/ work[p].src # "all") /\ (fresh[p] \/ stage = "boot" => work[p].src # "none")
AtWork(p) ==
    /\ pc[p] # "idle" => p \in todo
    /\ pc[p] = "begin" => stage = "hourly"
Sound(p) == Kept(p) /\ Started(p) /\ PoolFits(p) /\ Ready(p) /\ AtWork(p)

GateInv ==
    /\ GateTypeOK
    /\ stage = "wait" => todo = {}
    /\ \A p \in Pairs : Sound(p)

LEMMA ParamTypes ==
    /\ NoParams \in ParamSet /\ NoParams.src = "none"
    /\ \A th \in AnyThresholds \cup {None} :
          /\ Params("wf", th) \in ParamSet /\ Params("wf", th).src = "wf"
          /\ Params("pool", th) \in ParamSet /\ Params("pool", th).src = "pool"
          /\ Params("all", th) \in ParamSet /\ Params("all", th).src = "all"
BY DEF NoParams, Params, ParamSet, Sources

(* Parameters chosen from a pool that fits the block fit it too. *)
LEMMA ChosenFits ==
    ASSUME GateTypeOK, NEW p \in Pairs, NEW th \in AnyThresholds, Chosen(p, th)
    PROVE  /\ work' \in [Pairs -> ParamSet]
           /\ work'[p].src # "none"
           /\ pool[p] = "valid" => work'[p].src # "all"
           /\ \A q \in Pairs \ {p} : work'[q] = work[q]
BY ParamTypes DEF Chosen, FromPool, GateTypeOK

LEMMA SaveTypes ==
    ASSUME GateTypeOK, MaybeSaved, blocked' \in [Pairs -> BOOLEAN],
           own' \in [Pairs -> Thresholds \cup {None}], stoch' \in Thresholds \cup {None}
    PROVE  disk' \in [blocked : [Pairs -> BOOLEAN], own : [Pairs -> Thresholds \cup {None}],
                      stoch : Thresholds \cup {None}]
BY DEF GateTypeOK, MaybeSaved, SavedNow

LEMMA GateSavedTypes ==
    ASSUME GateTypeOK, NEW p \in Pairs, NEW force \in BOOLEAN, GateSaved(p, force),
           blocked' \in [Pairs -> BOOLEAN]
    PROVE  /\ disk' \in [blocked : [Pairs -> BOOLEAN], own : [Pairs -> Thresholds \cup {None}],
                         stoch : Thresholds \cup {None}]
           /\ UNCHANGED <<own, stoch>>
<1>1. UNCHANGED <<own, stoch>> BY DEF GateSaved
<1>2. MaybeSaved BY DEF GateSaved, MaybeSaved
<1> QED BY <1>1, <1>2, SaveTypes DEF GateTypeOK

LEMMA JudgedTypes ==
    ASSUME GateTypeOK, NEW p \in Pairs, NEW valid \in BOOLEAN, Judged(p, valid)
    PROVE  /\ blocked' \in [Pairs -> BOOLEAN] /\ pool' \in [Pairs -> Pools]
           /\ pool'[p] = "valid" \/ blocked'[p]
           /\ \A q \in Pairs \ {p} : blocked'[q] = blocked[q] /\ pool'[q] = pool[q]
BY DEF GateTypeOK, Judged, Pools

LEMMA InitInv == ASSUME Init PROVE GateInv
<1> USE ParamAssumption, ParamTypes DEF Init, Blank, AnyThresholds
<1>1. GateTypeOK BY DEF GateTypeOK, Pools
<1>2. \A p \in Pairs : Sound(p)
  BY DEF Sound, Kept, Started, PoolFits, Ready, AtWork
<1> QED BY <1>1, <1>2 DEF GateInv

LEMMA BootKeeps == ASSUME GateInv, NEW p \in Pairs, Boot(p) PROVE GateInv'
<1> USE ParamTypes DEF GateInv, GateTypeOK, jobVars, stateVars, AnyThresholds
<1>1. CASE BootJudge(p)
  <2> PICK valid \in BOOLEAN : Judged(p, valid) BY <1>1 DEF BootJudge
  <2>0. GateSaved(p, TRUE) BY <1>1 DEF BootJudge
  <2>3. /\ disk' \in [blocked : [Pairs -> BOOLEAN], own : [Pairs -> Thresholds \cup {None}],
                      stoch : Thresholds \cup {None}]
        /\ UNCHANGED <<own, stoch>>
    <3>1. blocked' \in [Pairs -> BOOLEAN] BY ONLY GateTypeOK, Judged(p, valid), JudgedTypes
    <3> QED BY ONLY GateTypeOK, <2>0, <3>1, GateSavedTypes
  <2>1. GateTypeOK'
    BY <1>1, <2>3, JudgedTypes DEF BootJudge
  <2>2. ASSUME NEW q \in Pairs PROVE Sound(q)'
    BY <1>1, JudgedTypes DEF BootJudge, Sound, Kept, Started, PoolFits, Ready, AtWork
  <2> QED BY <1>1, <2>1, <2>2 DEF BootJudge
<1>2. CASE BootNothing(p)
  BY <1>2 DEF BootNothing, Sound, Kept, Started, PoolFits, Ready, AtWork
<1>3. CASE BootSearch(p)
  <2>1. Chosen(p, config') /\ config' \in AnyThresholds BY <1>3 DEF BootSearch
  <2>2. blocked' = blocked /\ own' \in [Pairs -> Thresholds \cup {None}]
        /\ stoch' \in Thresholds \cup {None} /\ MaybeSaved
    BY <1>3 DEF BootSearch, MaybeSaved
  <2>3. /\ work' \in [Pairs -> ParamSet] /\ work'[p].src # "none"
        /\ pool[p] = "valid" => work'[p].src # "all"
        /\ \A q \in Pairs \ {p} : work'[q] = work[q]
    BY <2>1, ChosenFits
  <2>4. disk' \in [blocked : [Pairs -> BOOLEAN], own : [Pairs -> Thresholds \cup {None}],
                   stoch : Thresholds \cup {None}]
    BY <2>2, SaveTypes
  <2>5. GateTypeOK'
    BY ONLY GateTypeOK, BootSearch(p), <1>3, <2>1, <2>2, <2>3, <2>4
       DEF BootSearch, GateTypeOK, AnyThresholds
  <2>6. ASSUME NEW q \in Pairs PROVE Sound(q)'
    <3>1. CASE q = p
      BY ONLY <1>3, <2>2, <2>3, <3>1, Sound(p), GateTypeOK, p \in Pairs
         DEF BootSearch, GateTypeOK, Sound, Kept, Started, PoolFits, Ready, AtWork
    <3>2. CASE q # p
      BY ONLY <1>3, <2>2, <2>3, <3>2, q \in Pairs, Sound(q), GateTypeOK, p \in Pairs
         DEF BootSearch, GateTypeOK, Sound, Kept, Started, PoolFits, Ready, AtWork
    <3> QED BY <3>1, <3>2
  <2> QED BY <1>3, <2>5, <2>6 DEF BootSearch
<1>4. CASE BootTrade(p)
  <2>1. GateTypeOK'
    <3>1. disk' \in [blocked : [Pairs -> BOOLEAN], own : [Pairs -> Thresholds \cup {None}],
                     stoch : Thresholds \cup {None}]
      BY <1>4, SaveTypes DEF BootTrade, MaybeSaved
    <3>2. work' \in [Pairs -> ParamSet] BY <1>4 DEF BootTrade
    <3>5. live' \in [Pairs -> ParamSet]
      BY ONLY <1>4, GateTypeOK, p \in Pairs DEF BootTrade, GateTypeOK
    <3>6. fresh' \in [Pairs -> BOOLEAN]
      BY ONLY <1>4, GateTypeOK, p \in Pairs DEF BootTrade, GateTypeOK
    <3>3. /\ pool' \in [Pairs -> Pools] /\ todo' \in SUBSET Pairs
          /\ pc' \in [Pairs -> {"idle", "begin", "search", "store", "walk", "trade"}]
      BY ONLY <1>4, GateTypeOK DEF BootTrade, GateTypeOK, Pools
    <3>4. ASSUME NEW q \in Pairs PROVE pc'[q] = "store" <=> found'[q] # None
      BY ONLY <1>4, GateTypeOK, q \in Pairs DEF BootTrade, GateTypeOK
    <3> QED BY <1>4, <3>1, <3>2, <3>3, <3>4, <3>5, <3>6 DEF BootTrade
  <2>2. ASSUME NEW q \in Pairs PROVE Sound(q)'
    <3>1. CASE q = p
      <4>1. Kept(p)'
        BY ONLY <1>4, Sound(p), GateTypeOK, p \in Pairs
           DEF BootTrade, GateTypeOK, stateVars, Sound, Kept, Ready
      <4>2. pc'[p] = "idle" BY ONLY <1>4, GateTypeOK, p \in Pairs DEF BootTrade, GateTypeOK
      <4> QED BY ONLY <3>1, <4>1, <4>2 DEF Sound, Started, PoolFits, Ready, AtWork
    <3>2. CASE q # p
      BY ONLY <1>4, <3>2, q \in Pairs, Sound(q), GateTypeOK, p \in Pairs
         DEF BootTrade, GateTypeOK, stateVars, Sound, Kept, Started, PoolFits, Ready, AtWork
    <3> QED BY <3>1, <3>2
  <2> QED BY <1>4, <2>1, <2>2 DEF BootTrade
<1> QED BY <1>1, <1>2, <1>3, <1>4 DEF Boot

LEMMA JobKeeps == ASSUME GateInv, NEW p \in Pairs, Job(p) PROVE GateInv'
<1> USE ParamTypes DEF GateInv, GateTypeOK, jobVars, stateVars, AnyThresholds
<1>1. CASE Reuse(p)
  <2>1. GateTypeOK' BY <1>1 DEF Reuse
  <2>2. ASSUME NEW q \in Pairs PROVE Sound(q)'
    <3>1. CASE q = p
      BY ONLY <1>1, <3>1, Sound(p), GateTypeOK, p \in Pairs
         DEF Reuse, GateTypeOK, stateVars, Sound, Kept, Started, PoolFits, Ready, AtWork
    <3>2. CASE q # p
      BY ONLY <1>1, <3>2, q \in Pairs, Sound(q), GateTypeOK, p \in Pairs
         DEF Reuse, GateTypeOK, stateVars, Sound, Kept, Started, PoolFits, Ready, AtWork
    <3> QED BY <3>1, <3>2
  <2> QED BY <1>1, <2>1, <2>2 DEF Reuse
<1>2. CASE Judge(p)
  <2> PICK valid \in BOOLEAN : Judged(p, valid) BY <1>2 DEF Judge
  <2>0. GateSaved(p, FALSE) BY <1>2 DEF Judge
  <2>3. /\ disk' \in [blocked : [Pairs -> BOOLEAN], own : [Pairs -> Thresholds \cup {None}],
                      stoch : Thresholds \cup {None}]
        /\ UNCHANGED <<own, stoch>>
    <3>1. blocked' \in [Pairs -> BOOLEAN] BY ONLY GateTypeOK, Judged(p, valid), JudgedTypes
    <3> QED BY ONLY GateTypeOK, <2>0, <3>1, GateSavedTypes
  <2>1. GateTypeOK' BY <1>2, <2>3, JudgedTypes DEF Judge
  <2>2. ASSUME NEW q \in Pairs PROVE Sound(q)'
    BY <1>2, JudgedTypes DEF Judge, Sound, Kept, Started, PoolFits, Ready, AtWork
  <2> QED BY <1>2, <2>1, <2>2 DEF Judge
<1>3. CASE Search(p)
  <2>1. GateTypeOK' BY <1>3, ParamAssumption DEF Search
  <2>2. ASSUME NEW q \in Pairs PROVE Sound(q)'
    BY <1>3 DEF Search, Sound, Kept, Started, PoolFits, Ready, AtWork
  <2> QED BY <1>3, <2>1, <2>2 DEF Search
<1>4. CASE Store(p)
  <2>1. GateTypeOK' BY <1>4, SaveTypes DEF Store
  <2>2. ASSUME NEW q \in Pairs PROVE Sound(q)'
    BY <1>4 DEF Store, Sound, Kept, Started, PoolFits, Ready, AtWork
  <2> QED BY <1>4, <2>1, <2>2 DEF Store
<1>5. CASE Walk(p)
  <2>1. Chosen(p, config) BY <1>5 DEF Walk
  <2>2. GateTypeOK' BY <1>5, <2>1, ChosenFits DEF Walk, Pools
  <2>3. ASSUME NEW q \in Pairs PROVE Sound(q)'
    BY <1>5, <2>1, ChosenFits DEF Walk, Sound, Kept, Started, PoolFits, Ready, AtWork
  <2> QED BY <1>5, <2>2, <2>3 DEF Walk
<1>6. CASE Trade(p)
  <2>1. GateTypeOK' BY <1>6, SaveTypes DEF Trade
  <2>2. ASSUME NEW q \in Pairs PROVE Sound(q)'
    BY <1>6 DEF Trade, Sound, Kept, Started, PoolFits, Ready, AtWork
  <2> QED BY <1>6, <2>1, <2>2 DEF Trade
<1> QED BY <1>1, <1>2, <1>3, <1>4, <1>5, <1>6 DEF Job

LEMMA RestKeeps ==
    ASSUME GateInv, Booted \/ Dispatch \/ Dispatched \/ Live \/ HourPasses \/ Restart
    PROVE  GateInv'
<1> USE ParamTypes, ParamAssumption DEF GateInv, GateTypeOK, jobVars, stateVars, AnyThresholds,
        Sound, Kept, Started, PoolFits, Ready, AtWork
<1>1. CASE Booted BY <1>1 DEF Booted
<1>2. CASE Dispatch BY <1>2 DEF Dispatch
<1>3. CASE Dispatched BY <1>3 DEF Dispatched
<1>4. CASE Live
  <2>1. disk' \in [blocked : [Pairs -> BOOLEAN], own : [Pairs -> Thresholds \cup {None}],
                   stoch : Thresholds \cup {None}]
    BY <1>4, SaveTypes DEF Live
  <2> QED BY <1>4, <2>1 DEF Live
<1>5. CASE HourPasses BY <1>5 DEF HourPasses
<1>6. CASE Restart
  <2>1. PICK read \in {disk, Blank} :
          /\ blocked' = read.blocked /\ own' = read.own /\ stoch' = read.stoch
          /\ config' = IF read.stoch = None THEN Preset ELSE read.stoch
    BY <1>6 DEF Restart
  <2>2. /\ read.blocked \in [Pairs -> BOOLEAN] /\ read.own \in [Pairs -> Thresholds \cup {None}]
        /\ read.stoch \in Thresholds \cup {None}
    <3>1. CASE read = disk BY <3>1
    <3>2. CASE read = Blank BY ONLY <3>2 DEF Blank
    <3> QED BY <2>1, <3>1, <3>2
  <2>3. GateTypeOK' BY <1>6, <2>1, <2>2 DEF Restart, Pools
  <2>4. ASSUME NEW q \in Pairs PROVE Sound(q)'
    BY ONLY <1>6, q \in Pairs DEF Restart, Sound, Kept, Started, PoolFits, Ready, AtWork, NoParams, Params
  <2> QED BY <1>6, <2>3, <2>4 DEF Restart
<1> QED BY <1>1, <1>2, <1>3, <1>4, <1>5, <1>6

LEMMA GateInvariant == Spec => []GateInv
<1>1. Init => GateInv BY InitInv
<1>2. GateInv /\ [Next]_vars => GateInv'
  <2>1. ASSUME GateInv, UNCHANGED vars PROVE GateInv'
    BY <2>1 DEF vars, GateInv, GateTypeOK, Sound, Kept, Started, PoolFits, Ready, AtWork
  <2> QED BY <2>1, BootKeeps, JobKeeps, RestKeeps DEF Next
<1> QED BY <1>1, <1>2, PTL DEF Spec

(* The variables stay in their ranges, and a job stores only what it found. *)
THEOREM GateTyping == Spec => []GateTypeOK
<1>1. GateInv => GateTypeOK BY DEF GateInv
<1> QED BY <1>1, GateInvariant, PTL

(* No pair is ever bought with parameters nothing has validated. *)
THEOREM GateHolds == Spec => []BuysPassedTheGate
<1>1. GateInv => BuysPassedTheGate
  BY DEF GateInv, GateTypeOK, BuysPassedTheGate, Sound, Kept, Ready, AtWork
<1> QED BY <1>1, GateInvariant, PTL

(* The throttle never keeps a pair from its first parameters. *)
THEOREM NoLockOut == Spec => []NeverLockedOut
<1>1. GateInv => NeverLockedOut
  BY ParamTypes DEF GateInv, NeverLockedOut, Sound, Kept
<1> QED BY <1>1, GateInvariant, PTL
=============================================================================
