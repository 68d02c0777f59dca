------------------------------ MODULE ParamGate ------------------------------
(***************************************************************************)
(* Which parameters a pair is traded with: backtest_orchestrator.py and    *)
(* the start-up and dispatch of MULTI_SYMBOLS.py.  At start-up, one pair   *)
(* after the other, and then every hour, all pairs in parallel, a pair is  *)
(* backtested, judged by the quality gate, given StochRSI thresholds and   *)
(* walk-forward validated, and traded with the outcome; every two minutes  *)
(* all pairs are traded with the parameters kept in memory, except those   *)
(* whose hourly cycle ended less than 90 seconds ago, left out here.       *)
(*                                                                         *)
(* Parameters are known by where they come from: a configuration that the  *)
(* walk-forward validated ("wf"), the best of the results that pass the    *)
(* gate ("pool"), the best of results of which none passes ("all").  For   *)
(* the first kind, under which thresholds they were validated.             *)
(*                                                                         *)
(* The pairs share the thresholds of the configuration, bot_state and its  *)
(* file.  A job is cut where another may come between.  Left out: alerts   *)
(* and panels, and backtest_and_display_results, which nothing calls: so   *)
(* the counter of failed cycles never blocks a pair.                       *)
(***************************************************************************)
EXTENDS Naturals, FiniteSets

CONSTANTS
    Pairs,
    Thresholds,  \* outcomes of the grid search
    Preset,      \* the thresholds of the configuration file
    None,
    MaxCrashes   \* bound of the model

ASSUME ParamAssumption ==
    /\ MaxCrashes \in Nat
    /\ None \notin Thresholds /\ None # Preset

AnyThresholds == Thresholds \cup {Preset}

VARIABLES
    stage,    \* start-up, waiting, or the hourly dispatch
    todo,     \* pairs the stage has yet to handle
    pc,       \* step of the job of each pair
    blocked,  \* oos_blocked
    own,      \* stoch_buy_min of the pair's state
    stoch,    \* stoch_params of bot_state
    config,   \* thresholds of the configuration object
    pool,     \* what the gate returned to the job
    found,    \* thresholds the grid search of the job has found
    work,     \* best_params of the job
    live,     \* live_best_params
    fresh,    \* last_backtest_time is within the throttle
    disk,     \* the state file
    crashes,
    skipped   \* history: pairs the last live dispatch left alone

jobVars == <<pc, pool, found, work>>
stateVars == <<blocked, own, stoch>>
vars == <<stage, todo, pc, blocked, own, stoch, config, pool, found, work, live, fresh, disk,
          crashes, skipped>>

Sources == {"none", "wf", "pool", "all"}
ParamSet == [src : Sources, th : AnyThresholds \cup {None}]
Params(src, th) == [src |-> src, th |-> th]
NoParams == Params("none", None)
Pools == {"none", "valid", "all"}

(* save_bot_state, which skips what comes too soon unless it is forced *)
SavedNow == disk' = [blocked |-> blocked', own |-> own', stoch |-> stoch']
MaybeSaved == SavedNow \/ disk' = disk

-----------------------------------------------------------------------------
(* _apply_oos_quality_gate *)

(* ... blocks only when it could judge the results *)
Judged__Lenient(p, valid) ==
    /\ pool' = [pool EXCEPT ![p] = IF valid THEN "valid" ELSE "all"]
    /\ blocked' = [blocked EXCEPT ![p] = ~valid /\ @]

(* Some result passes, or none does and the whole lot is returned *)
Judged(p, valid) ==
    /\ pool' = [pool EXCEPT ![p] = IF valid THEN "valid" ELSE "all"]
    /\ blocked' = [blocked EXCEPT ![p] = ~valid]

(* A block is saved, at start-up in any case; that a pair passes is saved  *)
(* only if it was blocked.                                                 *)
GateSaved(p, force) ==
    /\ UNCHANGED <<own, stoch>>
    /\ IF blocked'[p] THEN IF force THEN SavedNow ELSE MaybeSaved
       ELSE IF blocked[p] THEN MaybeSaved ELSE UNCHANGED disk

(* The choice of both jobs: walk-forward first, else the best of the pool *)
FromPool(p) == Params(IF pool[p] = "valid" THEN "pool" ELSE "all", None)
Chosen(p, th) ==
    \/ work' = [work EXCEPT ![p] = Params("wf", th)]
    \/ work' = [work EXCEPT ![p] = FromPool(p)]

-----------------------------------------------------------------------------
(* Start-up, one pair at a time *)

BootJudge(p) ==
    /\ stage = "boot" /\ p \in todo /\ pc = [q \in Pairs |-> "idle"]
    /\ \E valid \in BOOLEAN : Judged(p, valid)
    /\ GateSaved(p, TRUE)
    /\ pc' = [pc EXCEPT ![p] = "search"]
    /\ UNCHANGED <<stage, todo, config, found, work, live, fresh, crashes, skipped>>

(* No results: the pair is passed over, but it stays among the pairs of    *)
(* the dispatches                                                          *)
BootNothing(p) ==
    /\ stage = "boot" /\ p \in todo /\ pc = [q \in Pairs |-> "idle"]
    /\ todo' = todo \ {p}
    /\ UNCHANGED <<stage, jobVars, stateVars, config, live, fresh, disk, crashes, skipped>>

(* The grid search is run only while no thresholds are known, so for one   *)
(* pair at most; it may find nothing or fail                               *)
BootSearch(p) ==
    /\ stage = "boot" /\ pc[p] = "search"
    /\ \/ /\ stoch = None
          /\ \E t \in Thresholds :
                /\ config' = t /\ stoch' = t
                /\ own' = [own EXCEPT ![p] = t]
          /\ UNCHANGED blocked /\ MaybeSaved
       \/ UNCHANGED <<stateVars, config, disk>>
    /\ Chosen(p, config')
    /\ pc' = [pc EXCEPT ![p] = "trade"]
    /\ UNCHANGED <<stage, todo, pool, found, live, fresh, crashes, skipped>>

(* ... starts the throttle of a blocked pair too *)
BootTrade__Throttles(p) ==
    /\ stage = "boot" /\ pc[p] = "trade"
    /\ live' = [live EXCEPT ![p] = IF blocked[p] THEN @ ELSE work[p]]
    /\ fresh' = [fresh EXCEPT ![p] = TRUE]
    /\ pc' = [pc EXCEPT ![p] = "idle"]
    /\ work' = [work EXCEPT ![p] = NoParams] /\ pool' = [pool EXCEPT ![p] = "none"]
    /\ todo' = todo \ {p}
    /\ UNCHANGED stateVars /\ SavedNow
    /\ UNCHANGED <<stage, config, found, crashes, skipped>>

(* The pair is traded; the parameters of a blocked pair are not kept *)
BootTrade(p) ==
    /\ stage = "boot" /\ pc[p] = "trade"
    /\ IF blocked[p] THEN UNCHANGED <<live, fresh>>
       ELSE /\ live' = [live EXCEPT ![p] = work[p]]
            /\ fresh' = [fresh EXCEPT ![p] = TRUE]
    /\ pc' = [pc EXCEPT ![p] = "idle"]
    /\ work' = [work EXCEPT ![p] = NoParams] /\ pool' = [pool EXCEPT ![p] = "none"]
    /\ todo' = todo \ {p}
    /\ UNCHANGED stateVars /\ SavedNow
    /\ UNCHANGED <<stage, config, found, crashes, skipped>>

Booted ==
    /\ stage = "boot" /\ todo = {}
    /\ stage' = "wait"
    /\ UNCHANGED <<todo, jobVars, stateVars, config, live, fresh, disk, crashes, skipped>>

-----------------------------------------------------------------------------
(* The hourly dispatch: the jobs of all pairs, in threads of their own *)

Dispatch ==
    /\ stage = "wait"
    /\ stage' = "hourly" /\ todo' = Pairs
    /\ pc' = [p \in Pairs |-> "begin"] /\ work' = live
    /\ UNCHANGED <<stateVars, config, pool, found, live, fresh, disk, crashes, skipped>>

(* Throttled, or no results: the job goes on with the old parameters *)
Reuse(p) ==
    /\ pc[p] = "begin"
    /\ pc' = [pc EXCEPT ![p] = "trade"]
    /\ UNCHANGED <<stage, todo, stateVars, config, pool, found, work, live, fresh, disk, crashes,
                   skipped>>

(* The throttle starts before the results are judged *)
Judge(p) ==
    /\ pc[p] = "begin" /\ ~fresh[p]
    /\ fresh' = [fresh EXCEPT ![p] = TRUE]
    /\ \E valid \in BOOLEAN : Judged(p, valid)
    /\ GateSaved(p, FALSE)
    /\ pc' = [pc EXCEPT ![p] = "search"]
    /\ UNCHANGED <<stage, todo, config, found, work, live, crashes, skipped>>

(* ... goes on whatever the search returns *)
Search__Blind(p) ==
    /\ stage = "hourly" /\ pc[p] = "search"
    /\ \E t \in Thresholds \cup {None} :
          /\ config' = IF t = None THEN config ELSE t
          /\ found' = [found EXCEPT ![p] = t]
    /\ pc' = [pc EXCEPT ![p] = "store"]
    /\ UNCHANGED <<stage, todo, stateVars, pool, work, live, fresh, disk, crashes, skipped>>

(* The thresholds found go to the configuration, then to bot_state; those  *)
(* of the pair's own state stay.  A search that fails is passed over.      *)
Search(p) ==
    /\ stage = "hourly" /\ pc[p] = "search"
    /\ \/ \E t \in Thresholds :
             /\ config' = t /\ found' = [found EXCEPT ![p] = t]
             /\ pc' = [pc EXCEPT ![p] = "store"]
       \/ /\ pc' = [pc EXCEPT ![p] = "walk"]
          /\ UNCHANGED <<config, found>>
    /\ UNCHANGED <<stage, todo, stateVars, pool, work, live, fresh, disk, crashes, skipped>>

Store(p) ==
    /\ pc[p] = "store"
    /\ stoch' = found[p] /\ found' = [found EXCEPT ![p] = None]
    /\ UNCHANGED <<blocked, own>> /\ MaybeSaved
    /\ pc' = [pc EXCEPT ![p] = "walk"]
    /\ UNCHANGED <<stage, todo, config, pool, work, live, fresh, crashes, skipped>>

(* The walk-forward runs its backtests with the thresholds of the moment *)
Walk(p) ==
    /\ pc[p] = "walk"
    /\ Chosen(p, config)
    /\ pool' = [pool EXCEPT ![p] = "none"]
    /\ pc' = [pc EXCEPT ![p] = "trade"]
    /\ UNCHANGED <<stage, todo, stateVars, config, found, live, fresh, disk, crashes, skipped>>

(* The pair is traded, which an exception may cut short, and the           *)
(* parameters are kept, blocked or not                                     *)
Trade(p) ==
    /\ stage = "hourly" /\ pc[p] = "trade"
    /\ live' = [live EXCEPT ![p] = work[p]]
    /\ work' = [work EXCEPT ![p] = NoParams]
    /\ pc' = [pc EXCEPT ![p] = "idle"] /\ todo' = todo \ {p}
    /\ UNCHANGED stateVars /\ MaybeSaved
    /\ UNCHANGED <<stage, config, pool, found, fresh, crashes, skipped>>

Dispatched ==
    /\ stage = "hourly" /\ todo = {}
    /\ stage' = "wait"
    /\ UNCHANGED <<todo, jobVars, stateVars, config, live, fresh, disk, crashes, skipped>>

-----------------------------------------------------------------------------
(* Every two minutes: a pair without parameters is left alone *)
Live ==
    /\ stage = "wait"
    /\ skipped' = {p \in Pairs : live[p].src = "none"}
    /\ UNCHANGED stateVars /\ MaybeSaved
    /\ UNCHANGED <<stage, todo, jobVars, config, live, fresh, crashes>>

HourPasses ==
    /\ stage = "wait"
    /\ fresh' = [p \in Pairs |-> FALSE]
    /\ UNCHANGED <<stage, todo, jobVars, stateVars, config, live, disk, crashes, skipped>>

Blank == [blocked |-> [p \in Pairs |-> FALSE], own |-> [p \in Pairs |-> None], stoch |-> None]

(* A crash, and the start of a new process: load_bot_state, which takes    *)
(* an unreadable file for an empty one, and the saved thresholds           *)
Restart ==
    /\ crashes < MaxCrashes /\ crashes' = crashes + 1
    /\ \E read \in {disk, Blank} :
          /\ blocked' = read.blocked /\ own' = read.own /\ stoch' = read.stoch
          /\ config' = IF read.stoch = None THEN Preset ELSE read.stoch
    /\ stage' = "boot" /\ todo' = Pairs
    /\ pc' = [p \in Pairs |-> "idle"] /\ pool' = [p \in Pairs |-> "none"]
    /\ found' = [p \in Pairs |-> None] /\ work' = [p \in Pairs |-> NoParams]
    /\ live' = [p \in Pairs |-> NoParams] /\ fresh' = [p \in Pairs |-> FALSE]
    /\ skipped' = {} /\ disk' = disk

Init ==
    /\ stage = "boot" /\ todo = Pairs
    /\ pc = [p \in Pairs |-> "idle"] /\ pool = [p \in Pairs |-> "none"]
    /\ found = [p \in Pairs |-> None] /\ work = [p \in Pairs |-> NoParams]
    /\ disk = Blank
    /\ blocked = disk.blocked /\ own = disk.own /\ stoch = disk.stoch
    /\ config = Preset
    /\ live = [p \in Pairs |-> NoParams] /\ fresh = [p \in Pairs |-> FALSE]
    /\ skipped = {} /\ crashes = 0

Boot(p) == BootJudge(p) \/ BootNothing(p) \/ BootSearch(p) \/ BootTrade(p)
Job(p) == Reuse(p) \/ Judge(p) \/ Search(p) \/ Store(p) \/ Walk(p) \/ Trade(p)
Next ==
    \/ \E p \in Pairs : Boot(p) \/ Job(p)
    \/ Booted \/ Dispatch \/ Dispatched \/ Live \/ HourPasses \/ Restart

Spec == Init /\ [][Next]_vars

-----------------------------------------------------------------------------
(* What a buy may rest on.                                                 *)

(* The variables stay in their ranges, and a job stores only thresholds    *)
(* that were found.                                                        *)
GateTypeOK ==
    /\ stage \in {"boot", "wait", "hourly"}
    /\ todo \in SUBSET Pairs /\ skipped \in SUBSET Pairs
    /\ pc \in [Pairs -> {"idle", "begin", "search", "store", "walk", "trade"}]
    /\ blocked \in [Pairs -> BOOLEAN]
    /\ own \in [Pairs -> Thresholds \cup {None}]
    /\ stoch \in Thresholds \cup {None}
    /\ config \in AnyThresholds
    /\ pool \in [Pairs -> Pools]
    /\ found \in [Pairs -> Thresholds \cup {None}]
    /\ \A p \in Pairs : pc[p] = "store" <=> found[p] # None
    /\ work \in [Pairs -> ParamSet] /\ live \in [Pairs -> ParamSet]
    /\ fresh \in [Pairs -> BOOLEAN]
    /\ disk \in [blocked : [Pairs -> BOOLEAN], own : [Pairs -> Thresholds \cup {None}],
                 stoch : Thresholds \cup {None}]
    /\ crashes \in 0..MaxCrashes

(* Parameters nothing has validated are never those a pair may be bought   *)
(* with: neither in the job that chose them nor, as long as they are kept, *)
(* in the cycles after it, whatever is thrown away and loaded in between.  *)
BuysPassedTheGate ==
    \A p \in Pairs : ~blocked[p] =>
        /\ pc[p] = "trade" => work[p].src # "all"
        /\ stage = "wait" => live[p].src # "all"

(* The throttle never keeps a pair from the backtest that would give it    *)
(* its first parameters.                                                   *)
NeverLockedOut == \A p \in Pairs : fresh[p] /\ pc[p] = "idle" => live[p] # NoParams

(* Parameters of a walk-forward are traded under the thresholds they were  *)
(* validated with ("... avant le WF pour que la validation OOS porte sur   *)
(* les seuils optimisés").                                                 *)
Used(p) == IF own[p] # None THEN own[p] ELSE config
ValidatedAsTraded ==
    \A p \in Pairs : pc[p] = "trade" /\ work[p].src = "wf" => work[p].th = Used(p)

(* The parameters of a blocked pair are frozen ("NE PAS mettre à jour      *)
(* _live_best_params avec des params full-sample quand oos_blocked").      *)
FrozenWhenBlocked ==
    [][\A p \in Pairs : blocked[p] /\ live'[p].src = "all" => live'[p] = live[p]]_vars

(* A blocked pair is managed all the same ("La gestion des stops reste     *)
(* active").                                                               *)
BlockedIsManaged == \A p \in Pairs : blocked[p] => p \notin skipped

(* A block outlives a restart ("Un redémarrage ne réinitialise plus le     *)
(* blocage").                                                              *)
BlockSurvives ==
    [][\A p \in Pairs : blocked[p] /\ crashes' # crashes => blocked'[p]]_vars

(* What a restart would restore is what is in use. *)
SavedIsUsed == stage = "wait" /\ stoch # None => config = stoch
=============================================================================
