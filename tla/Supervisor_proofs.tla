-------------------------- MODULE Supervisor_proofs --------------------------
(***************************************************************************)
(* Theorems of Supervisor, for every value of the constants.               *)
(***************************************************************************)
EXTENDS Supervisor, TLAPS

(* A restart in progress is one that was allowed; a job runs only behind a *)
(* closed breaker.                                                         *)
Granted == wd = "backoff" => restarts < MaxRestarts
Behind == bot = "task" => ~open
TypeInv == SupTypeOK /\ Granted /\ Behind

(* How old the heartbeat of a silent bot is: it pauses after a heartbeat,  *)
(* then waits for the breaker to close, then runs a job that must beat,    *)
(* because one error more does not open a breaker that has just closed.    *)
Pausing == open \/ hb + wait <= LoopWait
Waiting ==
    open => /\ hb + wait <= LoopWait + Timeout + Short
            /\ since <= Timeout => hb <= LoopWait + since
Working == hb <= LoopWait \/ (fails = 0 /\ hb <= LoopWait + Timeout + Short)
QuietInv ==
    quiet /\ Alive =>
        /\ hb \in Int
        /\ bot = "run" => wait >= 0 /\ Pausing /\ Waiting
        /\ bot = "task" => Working
        /\ bot # "start"
SupInv == TypeInv /\ QuietInv

LEMMA InitInv == ASSUME Init PROVE SupInv
<1>1. open \in BOOLEAN /\ ~open /\ quiet \in BOOLEAN /\ ~quiet BY DEF Init
<1>2. bot = "start" /\ wd = "watch" BY DEF Init
<1>3. SupTypeOK BY <1>1, SupervisorAssumption DEF Init, SupTypeOK
<1> QED BY <1>1, <1>2, <1>3 DEF SupInv, TypeInv, Granted, Behind, QuietInv

(* The two flags stay flags. *)
LEMMA Flags ==
    ASSUME open \in BOOLEAN, quiet \in BOOLEAN, Next
    PROVE  open' \in BOOLEAN /\ quiet' \in BOOLEAN
<1> USE DEF breaker, loopVars
<1>1. CASE BootEnds \/ Ends \/ Crashes \/ HourPasses \/ Tick
  BY <1>1 DEF BootEnds, Ends, Crashes, Dies, HourPasses, Tick
<1>2. CASE Loop
  BY <1>2 DEF Loop, Iterate, Looked, TaskDone, TaskFails, LoopFails, Failed, Beat, NoNetwork
<1>3. CASE Watch
  BY <1>3 DEF Watch, SeesDead, SeesStale, StartAgain
<1> QED BY <1>1, <1>2, <1>3 DEF Next

(* The breaker stays open exactly as long as enough errors are counted. *)
LEMMA BreakerTypes ==
    ASSUME TypeInv, NEW c \in BOOLEAN, Looked \/ Failed(c)
    PROVE  /\ fails' \in Nat /\ since' \in Nat /\ (open' <=> fails' >= Threshold)
           /\ mode' \in {"RUNNING", "PAUSED", "ALERT"}
<1> USE SupervisorAssumption DEF TypeInv, SupTypeOK
<1>1. CASE Looked
  <2>1. CASE TimedOut
    <3>1. ~open' BY <1>1, <2>1 DEF Looked
    <3> QED BY <1>1, <2>1, <3>1 DEF Looked
  <2>2. CASE ~TimedOut
    <3>1. open' = open BY <1>1, <2>2 DEF Looked, breaker
    <3> QED BY <1>1, <2>2, <3>1 DEF Looked, breaker
  <2> QED BY <2>1, <2>2
<1>2. CASE Failed(c)
  <2>1. open' <=> open \/ fails' >= Threshold BY <1>2 DEF Failed
  <2> QED BY <1>2, <2>1 DEF Failed
<1> QED BY <1>1, <1>2

LEMMA LoopKeepsTypes == ASSUME TypeInv, Loop PROVE TypeInv'
<1> USE SupervisorAssumption DEF TypeInv, SupTypeOK, Granted, Behind, wdVars, CapAt, Paused
<1>0. open' \in BOOLEAN /\ quiet' \in BOOLEAN BY Flags DEF Next
<1>1. CASE Iterate
  <2>1. Looked /\ wd' = wd /\ restarts' = restarts BY <1>1 DEF Iterate
  <2>2. bot' = "task" => ~open' BY <1>1 DEF Iterate, Looked, Available, TimedOut, breaker
  <2> QED BY <1>0, <1>1, <2>1, <2>2, BreakerTypes DEF Iterate
<1>2. CASE TaskDone
  <2>1. open' = open /\ ~open BY <1>2 DEF TaskDone, breaker
  <2> QED BY <1>0, <1>2, <2>1 DEF TaskDone, Beat, NoNetwork, breaker
<1>3. CASE TaskFails
  <2>1. Failed(FALSE) BY <1>3 DEF TaskFails
  <2>2. /\ fails' \in Nat /\ since' \in Nat /\ (open' <=> fails' >= Threshold)
        /\ mode' \in {"RUNNING", "PAUSED", "ALERT"}
    BY <2>1, BreakerTypes
  <2>3. net' \in 0..NetEvery /\ hb' \in Int \cup {None} /\ wait' \in Int /\ bot' = "run"
    BY <1>3 DEF TaskFails, Beat, NoNetwork
  <2>4. streak' \in 0..Threshold BY <1>3 DEF TaskFails
  <2> QED BY <1>0, <1>3, <2>2, <2>3, <2>4 DEF TaskFails
<1>4. CASE LoopFails
  <2>1. Failed(TRUE) BY <1>4 DEF LoopFails
  <2>2. /\ fails' \in Nat /\ since' \in Nat /\ (open' <=> fails' >= Threshold)
        /\ mode' \in {"RUNNING", "PAUSED", "ALERT"}
    BY <2>1, BreakerTypes
  <2>3. net' \in 0..NetEvery /\ hb' \in Int \cup {None} /\ wait' \in Int /\ bot' = "run"
    BY <1>4 DEF LoopFails
  <2>4. streak' \in 0..Threshold BY <1>4 DEF LoopFails
  <2> QED BY <1>0, <1>4, <2>2, <2>3, <2>4 DEF LoopFails
<1> QED BY <1>1, <1>2, <1>3, <1>4 DEF Loop

LEMMA OthersKeepTypes ==
    ASSUME TypeInv, BootEnds \/ Ends \/ Crashes \/ Watch \/ HourPasses \/ Tick
    PROVE  TypeInv'
<1> USE SupervisorAssumption DEF TypeInv, SupTypeOK, Granted, Behind, breaker, wdVars,
        loopVars, CapAt
<1>0. open' \in BOOLEAN /\ quiet' \in BOOLEAN BY Flags DEF Next
<1>1. CASE BootEnds BY <1>0, <1>1 DEF BootEnds
<1>2. CASE Ends \/ Crashes BY <1>0, <1>2 DEF Ends, Crashes, Dies, Alive
<1>3. CASE SeesDead BY <1>0, <1>3 DEF SeesDead, StopAndWait, GiveUp
<1>4. CASE SeesStale BY <1>0, <1>4 DEF SeesStale, StopAndWait, GiveUp
<1>5. CASE StartAgain
  <2>1. (open' <=> fails' >= Threshold) /\ fails' \in Nat
    <3>1. CASE open' = FALSE /\ fails' = 0 BY <3>1
    <3>2. CASE UNCHANGED breaker BY <3>2
    <3>3. (open' = FALSE /\ fails' = 0) \/ UNCHANGED breaker BY ONLY <1>5 DEF StartAgain
    <3> QED BY <3>1, <3>2, <3>3
  <2> QED BY <1>0, <1>5, <2>1 DEF StartAgain
<1>6. CASE HourPasses BY <1>0, <1>6 DEF HourPasses
<1>7. CASE Tick BY <1>0, <1>7 DEF Tick
<1> QED BY <1>1, <1>2, <1>3, <1>4, <1>5, <1>6, <1>7 DEF Watch

LEMMA StutterKeeps == ASSUME SupInv, UNCHANGED vars PROVE SupInv'
BY DEF SupInv, TypeInv, SupTypeOK, Granted, Behind, QuietInv, Pausing, Waiting, Working,
       Alive, vars

LEMMA LoopKeepsQuiet == ASSUME SupInv, Loop PROVE QuietInv'
<1> USE SupervisorAssumption DEF SupInv, TypeInv, SupTypeOK, Behind, QuietInv, Alive, Paused
<1>1. CASE Iterate
  <2>1. CASE Available
    BY <1>1, <2>1 DEF Iterate, Looked, Available, TimedOut, breaker, Pausing, Waiting, Working
  <2>2. CASE ~Available
    <3>1. bot' = "run" /\ wait' = Short /\ hb' = hb /\ quiet' = quiet /\ UNCHANGED breaker
      BY <1>1, <2>2 DEF Iterate, Looked, Available
    <3>2. open /\ since <= Timeout BY <2>2 DEF Available, TimedOut
    <3> QED BY <1>1, <3>1, <3>2 DEF Iterate, breaker, Pausing, Waiting
  <2> QED BY <2>1, <2>2
<1>2. CASE TaskDone
  BY <1>2 DEF TaskDone, Beat, NoNetwork, breaker, Pausing, Waiting
<1>3. CASE TaskFails
  <2>1. CASE open'
    <3>1. bot' = "run" /\ wait' = Short /\ hb' = hb /\ quiet' = quiet /\ since' = 0
      BY <1>3, <2>1 DEF TaskFails, Failed
    <3>2. fails + 1 >= Threshold BY <1>3, <2>1 DEF TaskFails, Failed
    <3> QED BY <1>3, <2>1, <3>1, <3>2 DEF TaskFails, Pausing, Waiting, Working
  <2>2. CASE ~open'
    BY <1>3, <2>2 DEF TaskFails, Beat, NoNetwork, Pausing, Waiting
  <2> QED BY <2>1, <2>2
<1>4. CASE LoopFails BY <1>4 DEF LoopFails
<1> QED BY <1>1, <1>2, <1>3, <1>4 DEF Loop

LEMMA OlderSooner ==
    ASSUME NEW a \in Int, NEW w \in Int, NEW a2 \in Int, NEW w2 \in Int, NEW b \in Int,
           a2 <= a + 1, w2 <= w - 1, a + w <= b
    PROVE  a2 + w2 <= b
OBVIOUS

LEMMA OlderLater ==
    ASSUME NEW a \in Int, NEW s \in Int, NEW a2 \in Int, NEW s2 \in Int, NEW b \in Int,
           a2 <= a + 1, s2 = s + 1, a <= b + s
    PROVE  a2 <= b + s2
OBVIOUS

LEMMA TickKeepsQuiet == ASSUME SupInv, Tick PROVE QuietInv'
<1> USE SupervisorAssumption DEF SupInv, TypeInv, SupTypeOK, QuietInv, Alive
<1> SUFFICES ASSUME quiet', Alive' PROVE QuietInv' OBVIOUS
<1>0. quiet /\ bot = "run" /\ bot' = bot /\ open' = open BY DEF Tick
<1>1. wait > 0 /\ wait' \in Int /\ wait' <= wait - 1 BY <1>0 DEF Tick
<1>2. hb' \in Int /\ hb' <= hb + 1
  BY <1>0 DEF Tick, CapAt
<1>3. since' <= Timeout => since' = since + 1 /\ since <= Timeout
  BY DEF Tick, CapAt
<1>4. /\ hb \in Int /\ wait \in Int /\ wait' \in Int /\ since \in Nat /\ since' \in Nat
      /\ LoopWait \in Nat /\ Timeout \in Nat /\ Short \in Nat
  BY <1>0, <1>1 DEF Tick, CapAt
<1>5. Pausing'
  <2>1. CASE open BY <2>1, <1>0 DEF Pausing
  <2>2. CASE ~open
    <3>1. hb + wait <= LoopWait BY <2>2, <1>0 DEF Pausing
    <3>2. LoopWait \in Int BY ONLY <1>4
    <3>3. hb' + wait' <= LoopWait BY ONLY <3>1, <3>2, <1>1, <1>2, <1>4, OlderSooner
    <3> QED BY <3>3 DEF Pausing
  <2> QED BY <2>1, <2>2
<1>6. Waiting'
  <2> SUFFICES ASSUME open PROVE Waiting' BY <1>0 DEF Waiting
  <2>1. hb + wait <= LoopWait + Timeout + Short /\ (since <= Timeout => hb <= LoopWait + since)
    BY <1>0 DEF Waiting
  <2>2. hb' + wait' <= LoopWait + Timeout + Short
    <3> DEFINE Limit == LoopWait + Timeout + Short
    <3>1. Limit \in Int /\ hb + wait <= Limit BY ONLY <2>1, <1>4
    <3> HIDE DEF Limit
    <3>2. hb' + wait' <= Limit BY ONLY <3>1, <1>1, <1>2, <1>4, OlderSooner
    <3> QED BY <3>2 DEF Limit
  <2>3. since' <= Timeout => hb' <= LoopWait + since'
    BY ONLY <2>1, <1>2, <1>3, <1>4, OlderLater
  <2> QED BY <2>2, <2>3 DEF Waiting
<1>7. hb' \in Int /\ wait' >= 0 /\ bot' = "run" BY <1>0, <1>1, <1>2 DEF Tick
<1> QED BY <1>5, <1>6, <1>7

LEMMA OthersKeepQuiet ==
    ASSUME SupInv, BootEnds \/ Ends \/ Crashes \/ Watch \/ HourPasses PROVE QuietInv'
<1> USE DEF SupInv, QuietInv, Alive, breaker, loopVars
<1>1. CASE BootEnds BY <1>1 DEF BootEnds
<1>2. CASE Ends \/ Crashes BY <1>2 DEF Ends, Crashes, Dies
<1>3. CASE SeesDead
  BY <1>3 DEF SeesDead, StopAndWait, GiveUp
<1>4. CASE SeesStale
  BY <1>4 DEF SeesStale, StopAndWait, GiveUp, Pausing, Waiting, Working
<1>5. CASE StartAgain
  BY <1>5 DEF StartAgain, Pausing, Waiting, Working
<1>6. CASE HourPasses
  BY <1>6 DEF HourPasses, Pausing, Waiting, Working
<1> QED BY <1>1, <1>2, <1>3, <1>4, <1>5, <1>6 DEF Watch

LEMMA SupInvariant == Spec => []SupInv
<1>1. Init => SupInv BY InitInv
<1>2. SupInv /\ [Next]_vars => SupInv'
  BY LoopKeepsTypes, OthersKeepTypes, LoopKeepsQuiet, TickKeepsQuiet, OthersKeepQuiet,
     StutterKeeps DEF SupInv, Next
<1> QED BY <1>1, <1>2, PTL DEF Spec

(* The variables stay in their ranges, whatever the limits are: never more *)
(* restarts in an hour than allowed, and a breaker open exactly when       *)
(* enough errors were counted.                                             *)
THEOREM SupTyping == Spec => []SupTypeOK
<1>1. SupInv => SupTypeOK BY DEF SupInv, TypeInv
<1> QED BY <1>1, SupInvariant, PTL

(* A bot that is silent only because its breaker is open is never taken    *)
(* for hung, for every pause and time-out that fit in the stale limit and  *)
(* every threshold of two errors or more.                                  *)
THEOREM PausesAreSpared == Spec => []PauseIsNotHang
<1>1. SupInv => PauseIsNotHang
  <2> USE SupervisorAssumption
  <2> SUFFICES ASSUME SupInv, quiet, Alive PROVE ~StaleFile BY DEF PauseIsNotHang
  <2>1. bot \in {"run", "task"} /\ hb \in Int
    BY DEF SupInv, TypeInv, SupTypeOK, QuietInv, Alive
  <2>2. hb <= LoopWait + Timeout + Short
    BY <2>1 DEF SupInv, TypeInv, SupTypeOK, QuietInv, Pausing, Waiting, Working
  <2> QED BY <2>1, <2>2 DEF StaleFile
<1> QED BY <1>1, SupInvariant, PTL

(* The watchdog gives up on a bot that did not end by itself only after    *)
(* all the restarts it is allowed.                                         *)
THEOREM GivesUpOnlyLate == Spec => GivesUpLate
<1>1. SupInv /\ [Next]_vars =>
        [wd = "watch" /\ wd' = "stopped" => (~Alive /\ rc = 0) \/ restarts = MaxRestarts]_vars
  <2> SUFFICES ASSUME SupInv, Next, wd = "watch", wd' = "stopped"
               PROVE  (~Alive /\ rc = 0) \/ restarts = MaxRestarts
    OBVIOUS
  <2>1. SeesDead \/ SeesStale
    BY DEF Next, BootEnds, Ends, Crashes, Dies, Loop, Iterate, TaskDone, TaskFails, LoopFails,
           Watch, StartAgain, HourPasses, Tick, wdVars
  <2>2. restarts \in 0..MaxRestarts /\ rc \in {0, 1} BY DEF SupInv, TypeInv, SupTypeOK
  <2> QED BY <2>1, <2>2, SupervisorAssumption DEF SeesDead, SeesStale, StopAndWait, GiveUp
<1> QED BY <1>1, SupInvariant, PTL DEF Spec, GivesUpLate
=============================================================================
