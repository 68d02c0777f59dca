----------------------------- MODULE Supervisor -----------------------------
(***************************************************************************)
(* The two processes that keep the bot alive: the watchdog (watchdog.py)   *)
(* and the main loop of MULTI_SYMBOLS.py with its circuit breaker          *)
(* (error_handler.py).  They share one file, the heartbeat, and the exit   *)
(* code of the bot.                                                        *)
(*                                                                         *)
(* Time is counted in ticks.  A start-up and the jobs of run_pending last  *)
(* as long as they like, or for ever; everything else in an iteration of   *)
(* the loop takes no time.  The exact hour of the restart limit and the    *)
(* length of the back-off are left open.                                   *)
(*                                                                         *)
(* Left out: disk space, mails, the history of errors, and the fallbacks   *)
(* of handle_error and safe_execute, which no caller in the loop uses: so  *)
(* nothing here ever calls record_success.                                 *)
(***************************************************************************)
EXTENDS Integers

CONSTANTS
    MaxRestarts,  \* max_restarts_per_hour
    Stale,        \* HEARTBEAT_STALE_SECONDS
    LoopWait,     \* pause between two iterations (120 s)
    Short,        \* pause of an iteration cut short (10 s, 30 s)
    Timeout,      \* timeout_seconds of the circuit breaker
    Threshold,    \* failure_threshold of the circuit breaker
    NetEvery,     \* iterations between two checks of the network
    None          \* no heartbeat file yet

ASSUME SupervisorAssumption ==
    /\ MaxRestarts \in Nat
    /\ Stale \in Nat /\ LoopWait \in Nat \ {0} /\ Short \in Nat \ {0} /\ Timeout \in Nat
    /\ Threshold \in Nat /\ Threshold >= 2
    /\ NetEvery \in Nat \ {0}
    /\ LoopWait + Timeout + Short <= Stale
    /\ None \notin Int

VARIABLES
    wd,           \* the watchdog: watching, between two starts, or gone
    restarts,     \* restart_times: restarts within the last hour
    bot,          \* the bot process
    rc,           \* its exit code
    wait,         \* ticks left of the pause of the loop
    hb,           \* age of the heartbeat
    fails,        \* failure_count
    open,         \* is_open
    since,        \* age of last_failure_time
    mode,         \* SafeMode
    net,          \* network_check_counter
    streak,       \* history: iterations in a row that met an error
    quiet         \* history: since the last heartbeat, only pauses of the breaker

wdVars == <<wd, restarts>>
breaker == <<fails, open, since, mode>>
loopVars == <<wait, net, streak>>
vars == <<wd, restarts, bot, rc, wait, hb, fails, open, since, mode, net, streak, quiet>>

Alive == bot # "dead"
CapAt(n, max) == IF n < max THEN n ELSE max

-----------------------------------------------------------------------------
(* CircuitBreaker, and handle_error without a fallback *)

(* is_available, which closes a breaker whose timeout has gone by *)
TimedOut == open /\ since > Timeout
Available == ~open \/ TimedOut
Looked ==
    IF TimedOut THEN fails' = 0 /\ open' = FALSE /\ mode' = "RUNNING" /\ since' = since
    ELSE UNCHANGED breaker

(* ... trips on the first error *)
Failed__Eager(critical) ==
    /\ fails' = fails + 1 /\ since' = 0
    /\ open' = TRUE
    /\ mode' = IF critical THEN "ALERT" ELSE "PAUSED"

(* record_failure; a critical error then overwrites the mode *)
Failed(critical) ==
    /\ fails' = fails + 1 /\ since' = 0
    /\ open' = (open \/ fails' >= Threshold)
    /\ mode' = IF critical THEN "ALERT" ELSE IF fails' >= Threshold THEN "PAUSED" ELSE mode

-----------------------------------------------------------------------------
(* The bot.  SIGINT, SIGTERM and every exception that leaves the loop end  *)
(* main() normally: the exit code is 0.                                    *)

BootEnds ==
    /\ bot = "start" /\ bot' = "run" /\ wait' = 0
    /\ UNCHANGED <<wdVars, rc, hb, breaker, net, streak, quiet>>

Dies(code) ==
    /\ Alive /\ bot' = "dead" /\ rc' = code
    /\ UNCHANGED <<wdVars, loopVars, hb, breaker, quiet>>

Ends == Dies(0)      \* a signal, or an exception caught around the main loop
Crashes == Dies(1)   \* sys.exit(1) at start-up, or killed

(* An iteration begins: nothing is run while the breaker is open *)
Iterate ==
    /\ bot = "run" /\ wait = 0
    /\ Looked
    /\ IF Available THEN bot' = "task" /\ wait' = 0 ELSE bot' = "run" /\ wait' = Short
    /\ UNCHANGED <<wdVars, rc, hb, net, streak, quiet>>

Paused(n) == bot' = "run" /\ wait' = n

(* Network check, then the heartbeat, whose writing may fail *)
Beat ==
    /\ net' = IF net + 1 >= NetEvery THEN 0 ELSE net + 1
    /\ \/ hb' = 0 /\ quiet' = TRUE
       \/ hb' = hb /\ quiet' = FALSE
    /\ Paused(LoopWait)

(* ... waits for its own five minutes *)
NoNetwork__Reset ==
    /\ net + 1 >= NetEvery /\ net' = 0
    /\ quiet' = quiet /\ hb' = hb
    /\ Paused(Short)

(* No network: the counter stays, so that the next iteration checks again *)
NoNetwork ==
    /\ net + 1 >= NetEvery /\ net' = NetEvery
    /\ quiet' = FALSE /\ hb' = hb
    /\ Paused(Short)

TaskDone ==
    /\ bot = "task"
    /\ Beat \/ NoNetwork
    /\ streak' = 0
    /\ UNCHANGED <<wdVars, rc, breaker>>

(* run_pending raises: unless the breaker is now open the iteration goes on *)
TaskFails ==
    /\ bot = "task"
    /\ Failed(FALSE)
    /\ IF open' THEN Paused(Short) /\ UNCHANGED <<hb, net, quiet>>
       ELSE Beat \/ NoNetwork
    /\ streak' = CapAt(streak + 1, Threshold)
    /\ UNCHANGED <<wdVars, rc>>

(* Any other exception of the loop is critical, and skips the heartbeat *)
LoopFails ==
    /\ bot = "task"
    /\ Failed(TRUE)
    /\ Paused(IF open' THEN Timeout ELSE Short)
    /\ net' \in {net, CapAt(net + 1, NetEvery)} /\ quiet' = FALSE
    /\ streak' = CapAt(streak + 1, Threshold)
    /\ UNCHANGED <<wdVars, rc, hb>>

-----------------------------------------------------------------------------
(* The watchdog, every check_interval *)

(* restart_bot: should_restart comes first, so that a watchdog that gives  *)
(* up leaves the process as it is                                          *)
GiveUp == wd' = "stopped" /\ UNCHANGED <<bot, rc>>
StopAndWait == wd' = "backoff" /\ bot' = "dead" /\ rc' = IF Alive THEN 1 ELSE rc

(* ... judges the process by its file alone *)
SeesDead__ByFile ==
    /\ wd = "watch" /\ ~Alive /\ hb # None
    /\ IF rc # 0 /\ restarts < MaxRestarts THEN StopAndWait ELSE GiveUp
    /\ UNCHANGED <<restarts, loopVars, hb, breaker, quiet>>

(* ... allows one restart less *)
SeesDead__OneLess ==
    /\ wd = "watch" /\ ~Alive
    /\ IF rc # 0 /\ restarts + 1 < MaxRestarts THEN StopAndWait ELSE GiveUp
    /\ UNCHANGED <<restarts, loopVars, hb, breaker, quiet>>

SeesDead ==
    /\ wd = "watch" /\ ~Alive
    /\ IF rc # 0 /\ restarts < MaxRestarts THEN StopAndWait ELSE GiveUp
    /\ UNCHANGED <<restarts, loopVars, hb, breaker, quiet>>

(* ... is content with any heartbeat *)
SeesStale__Exists ==
    /\ wd = "watch" /\ Alive /\ hb = None
    /\ IF restarts < MaxRestarts THEN StopAndWait ELSE GiveUp
    /\ UNCHANGED <<restarts, loopVars, hb, breaker, quiet>>

(* is_heartbeat_fresh: no file is fresh, the file of an earlier process is *)
(* as old as it is                                                         *)
StaleFile == hb # None /\ hb > Stale
SeesStale ==
    /\ wd = "watch" /\ Alive /\ StaleFile
    /\ IF restarts < MaxRestarts THEN StopAndWait ELSE GiveUp
    /\ UNCHANGED <<restarts, loopVars, hb, breaker, quiet>>

(* The new process starts with a new breaker and the old heartbeat file *)
StartAgain ==
    /\ wd = "backoff"
    /\ \/ /\ wd' = "watch" /\ bot' = "start" /\ restarts' = restarts + 1
          /\ wait' = 0 /\ net' = 0 /\ streak' = 0 /\ quiet' = FALSE
          /\ fails' = 0 /\ open' = FALSE /\ since' = 0 /\ mode' = "RUNNING"
       \/ wd' = "stopped" /\ UNCHANGED <<bot, restarts, loopVars, breaker, quiet>>
    /\ UNCHANGED <<rc, hb>>

(* A restart drops out of the last hour *)
HourPasses ==
    /\ restarts > 0 /\ restarts' = restarts - 1
    /\ UNCHANGED <<wd, bot, rc, loopVars, hb, breaker, quiet>>

-----------------------------------------------------------------------------
(* A tick goes by, unless the loop has something to do at once *)
Tick ==
    /\ ~(bot = "run" /\ wait = 0)
    /\ hb' = IF hb = None THEN None ELSE CapAt(hb + 1, Stale + 1)
    /\ since' = CapAt(since + 1, Timeout + 1)
    /\ wait' = IF bot = "run" THEN wait - 1 ELSE wait
    /\ quiet' = (quiet /\ bot = "run")
    /\ UNCHANGED <<wdVars, bot, rc, fails, open, mode, net, streak>>

Init ==
    /\ wd = "watch" /\ restarts = 0
    /\ bot = "start" /\ rc = 0
    /\ wait = 0 /\ net = 0 /\ streak = 0
    /\ hb \in {None, Stale + 1}
    /\ fails = 0 /\ open = FALSE /\ since = 0 /\ mode = "RUNNING"
    /\ quiet = FALSE

Loop == Iterate \/ TaskDone \/ TaskFails \/ LoopFails
Watch == SeesDead \/ SeesStale \/ StartAgain
Next == BootEnds \/ Ends \/ Crashes \/ Loop \/ Watch \/ HourPasses \/ Tick

Spec == Init /\ [][Next]_vars

(* Time passes, the loop is not suspended and the watchdog checks again    *)
(* and again; a start-up or a job need not end.                            *)
Fairness == WF_vars(Tick) /\ WF_vars(Iterate) /\ WF_vars(Watch)
FairSpec == Spec /\ Fairness

-----------------------------------------------------------------------------
(* What keeps the bot alive, and what does not kill it.                    *)

(* The variables stay in their ranges: no more restarts in an hour than    *)
(* allowed, and a breaker that is open exactly when enough errors were     *)
(* counted since it last closed.                                           *)
SupTypeOK ==
    /\ wd \in {"watch", "backoff", "stopped"}
    /\ restarts \in 0..MaxRestarts
    /\ bot \in {"start", "run", "task", "dead"}
    /\ rc \in {0, 1}
    /\ wait \in Int
    /\ hb \in Int \cup {None}
    /\ fails \in Nat /\ open \in BOOLEAN /\ (open <=> fails >= Threshold)
    /\ since \in Nat
    /\ mode \in {"RUNNING", "PAUSED", "ALERT"}
    /\ net \in 0..NetEvery
    /\ streak \in 0..Threshold
    /\ quiet \in BOOLEAN

(* A bot that keeps silent only because its circuit breaker is open is     *)
(* never taken for hung: the breaker closes, and a heartbeat follows, in   *)
(* time.                                                                   *)
PauseIsNotHang == quiet /\ Alive => ~StaleFile

(* The watchdog leaves only a bot that ended by itself with code 0, or     *)
(* after all the restarts it is allowed, or when it cannot start it.       *)
GivesUpLate ==
    [][wd = "watch" /\ wd' = "stopped" =>
         \/ ~Alive /\ rc = 0
         \/ restarts = MaxRestarts]_vars

(* A bot that was killed is started again, or the watchdog says it gives up. *)
CrashIsNoticed == (bot = "dead" /\ rc # 0) ~> (Alive \/ wd = "stopped")

(* A job that never ends is noticed once there has been a heartbeat: the   *)
(* bot is stopped, or the watchdog gives up.                               *)
HangIsNoticed ==
    (bot = "task" /\ hb # None) ~> (bot # "task" \/ wd = "stopped")

(* A start-up is given the benefit of the doubt. *)
StartingIsSpared == [][bot = "start" /\ wd = "watch" => wd' # "backoff"]_vars

(* A watchdog that has given up leaves no bot running ("Le bot EST ARRÊTÉ"). *)
GivenUpMeansStopped == wd = "stopped" => ~Alive

(* The breaker opens after as many errors in a row ("erreurs consecutives"). *)
TripsOnStreak == [][open' /\ ~open => streak' >= Threshold]_vars
=============================================================================
