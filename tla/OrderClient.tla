----------------------------- MODULE OrderClient ------------------------------
(***************************************************************************)
(* How exchange_client.py sends one order: safe_market_buy and             *)
(* safe_market_sell with their retries under one client order id,          *)
(* place_exchange_stop_loss with its retries of one signed request, the    *)
(* reads they make through BinanceFinalClient._request, and the circuit    *)
(* breaker all reads share.  PairCycle sees only the outcome of a call;    *)
(* this module is the inside of it.                                        *)
(*                                                                         *)
(* Each member of Order is one call, in a thread of its own.  The network  *)
(* may lose a request, lose a reply, or deliver a request after its sender *)
(* gave up: the post waits 10 seconds and the exchange accepts a request   *)
(* for recvWindow, 60 seconds.  The exchange accepts a client order id     *)
(* again as soon as the order that had it is no longer open.               *)
(*                                                                         *)
(* Left out: the token bucket, whose verdict _request ignores, sleeps, the *)
(* time offset, mails, and DEMO mode.  A -1021 answer is one of the        *)
(* refusals of a read; its resynchronisations are not steps.               *)
(*                                                                         *)
(* X__Y is X with the mistake Y: with it in place of X, a property of this *)
(* module is checked to fail.                                              *)
(***************************************************************************)
EXTENDS Naturals, FiniteSets

CONSTANTS
    Order,          \* calls to place an order
    Kind,           \* Kind[o]: "buy", "sell" or "stop"
    MaxRetries,     \* max_retries of the market orders
    StopRetries,    \* tries of place_exchange_stop_loss
    RequestRetries, \* max_retries of _request
    Threshold,      \* circuit_breaker_threshold
    MaxFaults       \* bound: faults of the network

ASSUMPTION ClientAssumption ==
    /\ Kind \in [Order -> {"buy", "sell", "stop"}]
    /\ MaxRetries \in Nat \ {0} /\ StopRetries \in Nat \ {0}
    /\ RequestRetries \in Nat \ {0} /\ Threshold \in Nat \ {0}
    /\ MaxFaults \in Nat

VARIABLES
    pc,        \* pc[o]: where the call is
    try,       \* try[o]: attempt + 1 of the order
    asked,     \* asked[o]: attempt + 1 of the read under way, 0 before it
    waiting,   \* the calls that wait for the answer of a read
    wire,      \* wire[o]: attempts whose request is on its way
    reply,     \* reply[o]: what the exchange answered the request waited for
    book,      \* book[o]: status of the last order under the client order id
    ran,       \* ran[o]: the attempts the exchange executed
    verdict,   \* verdict[o]: what the call returned, or that it raised
    blind,     \* history: the call sent the order again without knowing
    failures,  \* _circuit_state['failure_count']
    quarantine,\* _circuit_state['open_until'] lies in the future
    faults     \* faults so far

vars == <<pc, try, asked, waiting, wire, reply, book, ran, verdict, blind,
          failures, quarantine, faults>>
callVars == <<pc, try, asked, waiting>>
exchangeVars == <<wire, reply, book, ran>>
circuitVars == <<failures, quarantine>>

Market(o) == Kind[o] # "stop"
Tries(o) == IF Market(o) THEN MaxRetries ELSE StopRetries
Attempt == 1 .. MaxRetries \cup 1 .. StopRetries
Executed == {"FILLED", "PARTIALLY_FILLED"}
Status == Executed \cup {"NEW", "EXPIRED"}

(* The reads of a call, in their order: check is the symbol information    *)
(* safe_market_buy cannot do without, lookup the get_order before a retry, *)
(* sync and resync the two synchronisations of a market order, or the      *)
(* synchronisation and the tick size of a stop order.                      *)
Reads == {"check", "lookup", "sync", "resync"}
NextStep == [check |-> "sync", lookup |-> "sync", sync |-> "resync",
             resync |-> "post"]

TypeOK ==
    /\ pc \in [Order -> Reads \cup {"idle", "post", "sent", "done"}]
    /\ try \in [Order -> Attempt] /\ \A o \in Order : try[o] <= Tries(o)
    /\ asked \in [Order -> 0 .. RequestRetries]
    /\ waiting \subseteq {o \in Order : pc[o] \in Reads /\ asked[o] > 0}
    /\ wire \in [Order -> SUBSET Attempt]
    /\ reply \in [Order -> Status \cup {"none", "refused"}]
    /\ book \in [Order -> Status \cup {"none"}]
    /\ ran \in [Order -> SUBSET Attempt]
    /\ verdict \in [Order -> Status \cup {"none", "raised"}]
    /\ blind \in [Order -> BOOLEAN]
    /\ failures \in 0 .. Threshold - 1
    /\ quarantine \in BOOLEAN
    /\ faults \in Nat

Init ==
    /\ pc = [o \in Order |-> "idle"]
    /\ try = [o \in Order |-> 1]
    /\ asked = [o \in Order |-> 0]
    /\ waiting = {}
    /\ wire = [o \in Order |-> {}]
    /\ reply = [o \in Order |-> "none"]
    /\ book = [o \in Order |-> "none"]
    /\ ran = [o \in Order |-> {}]
    /\ verdict = [o \in Order |-> "none"]
    /\ blind = [o \in Order |-> FALSE]
    /\ failures = 0
    /\ quarantine = FALSE
    /\ faults = 0

Fault == faults < MaxFaults /\ faults' = faults + 1

------------------------------------------------------------------------------
(* A call begins, goes on, ends.                                           *)

Begin(o) ==
    /\ pc[o] = "idle"
    /\ pc' = [pc EXCEPT ![o] = IF Kind[o] = "buy" THEN "check" ELSE "sync"]
    /\ UNCHANGED <<try, asked, waiting, exchangeVars, verdict, blind,
                   circuitVars, faults>>

Goto(o, step) ==
    /\ pc' = [pc EXCEPT ![o] = step]
    /\ asked' = [asked EXCEPT ![o] = 0]
    /\ waiting' = waiting \ {o}
    /\ UNCHANGED try

Finish(o, v) ==
    /\ Goto(o, "done")
    /\ verdict' = [verdict EXCEPT ![o] = v]
    /\ UNCHANGED blind

Proceed(o, step, unsure) ==
    /\ Goto(o, step)
    /\ blind' = [blind EXCEPT ![o] = @ \/ unsure]
    /\ UNCHANGED verdict

------------------------------------------------------------------------------
(* _request, called for each of the Reads.                                 *)

(* A read that raises: only the first one of a buy is not caught.  When it *)
(* was the lookup, the order is sent again all the same.                   *)
ReadRaises__Uncaught(o) ==
    IF pc[o] \in {"check", "lookup"} THEN Finish(o, "raised")
                                    ELSE Proceed(o, NextStep[pc[o]], FALSE)

ReadRaises(o) ==
    IF pc[o] = "check" THEN Finish(o, "raised")
                       ELSE Proceed(o, NextStep[pc[o]], pc[o] = "lookup")

Ask__Waits(o) ==
    /\ pc[o] \in Reads /\ o \notin waiting /\ ~quarantine
    /\ asked' = [asked EXCEPT ![o] = @ + 1]
    /\ waiting' = waiting \cup {o}
    /\ UNCHANGED <<pc, try, verdict, blind, exchangeVars, circuitVars, faults>>

Ask(o) ==
    /\ pc[o] \in Reads /\ o \notin waiting
    /\ IF quarantine
       THEN ReadRaises(o)
       ELSE /\ asked' = [asked EXCEPT ![o] = @ + 1]
            /\ waiting' = waiting \cup {o}
            /\ UNCHANGED <<pc, try, verdict, blind>>
    /\ UNCHANGED <<exchangeVars, circuitVars, faults>>

(* The exchange knows of no order under the client order id: an API error, *)
(* which leaves the counter of the breaker alone.                          *)
NotFound(o) ==
    /\ o \in waiting /\ pc[o] = "lookup" /\ book[o] = "none"
    /\ Proceed(o, "sync", wire[o] # {})
    /\ UNCHANGED <<exchangeVars, circuitVars, faults>>

Answered__FilledOnly(o) ==
    /\ o \in waiting
    /\ IF pc[o] = "lookup"
       THEN /\ book[o] # "none"
            /\ IF book[o] = "FILLED" THEN Finish(o, book[o])
                                     ELSE Proceed(o, "sync", wire[o] # {})
       ELSE Proceed(o, NextStep[pc[o]], FALSE)
    /\ failures' = 0
    /\ UNCHANGED <<exchangeVars, quarantine, faults>>

Answered(o) ==
    /\ o \in waiting
    /\ IF pc[o] = "lookup"
       THEN /\ book[o] # "none"
            /\ IF book[o] \in Executed THEN Finish(o, book[o])
                                       ELSE Proceed(o, "sync", wire[o] # {})
       ELSE Proceed(o, NextStep[pc[o]], FALSE)
    /\ failures' = 0
    /\ UNCHANGED <<exchangeVars, quarantine, faults>>

(* The symbol information says that the order is below min_notional.       *)
TooSmall(o) ==
    /\ o \in waiting /\ pc[o] = "check"
    /\ Finish(o, "raised")
    /\ failures' = 0
    /\ UNCHANGED <<exchangeVars, quarantine, faults>>

(* The exchange refuses to answer: rate limit, clock, maintenance.         *)
ReadRefused(o) ==
    /\ o \in waiting
    /\ ReadRaises(o)
    /\ Fault
    /\ UNCHANGED <<exchangeVars, circuitVars>>

(* The read fails on the network: another attempt, or the breaker counts.  *)
ReadFails(o) ==
    /\ o \in waiting
    /\ IF asked[o] < RequestRetries
       THEN /\ waiting' = waiting \ {o}
            /\ UNCHANGED <<pc, try, asked, verdict, blind, circuitVars>>
       ELSE /\ ReadRaises(o)
            /\ failures' = IF failures + 1 >= Threshold THEN 0 ELSE failures + 1
            /\ quarantine' = (quarantine \/ failures + 1 >= Threshold)
    /\ Fault
    /\ UNCHANGED exchangeVars

(* circuit_breaker_reset_seconds go by.                                    *)
QuarantineEnds ==
    /\ quarantine
    /\ quarantine' = FALSE
    /\ UNCHANGED <<callVars, exchangeVars, verdict, blind, failures, faults>>

------------------------------------------------------------------------------
(* The request of the order itself.  It does not go through _request.      *)

Post(o) ==
    /\ pc[o] = "post"
    /\ pc' = [pc EXCEPT ![o] = "sent"]
    /\ wire' = [wire EXCEPT ![o] = @ \cup {try[o]}]
    /\ reply' = [reply EXCEPT ![o] = "none"]
    /\ UNCHANGED <<try, asked, waiting, book, ran, verdict, blind, circuitVars,
                   faults>>

(* After an exception: a market order looks the order up before it sends   *)
(* it again, a stop order sends the same request at once.                  *)
TryAgain__NoLookup(o) ==
    IF try[o] < Tries(o)
    THEN /\ try' = [try EXCEPT ![o] = @ + 1]
         /\ pc' = [pc EXCEPT ![o] = "post"]
         /\ blind' = [blind EXCEPT ![o] = @ \/ ~Market(o)]
         /\ UNCHANGED <<asked, waiting, verdict>>
    ELSE Finish(o, "raised")

TryAgain__OnceMore(o) ==
    IF try[o] <= Tries(o)
    THEN /\ try' = [try EXCEPT ![o] = @ + 1]
         /\ pc' = [pc EXCEPT ![o] = IF Market(o) THEN "lookup" ELSE "post"]
         /\ blind' = [blind EXCEPT ![o] = @ \/ ~Market(o)]
         /\ UNCHANGED <<asked, waiting, verdict>>
    ELSE Finish(o, "raised")

TryAgain(o) ==
    IF try[o] < Tries(o)
    THEN /\ try' = [try EXCEPT ![o] = @ + 1]
         /\ pc' = [pc EXCEPT ![o] = IF Market(o) THEN "lookup" ELSE "post"]
         /\ blind' = [blind EXCEPT ![o] = @ \/ ~Market(o)]
         /\ UNCHANGED <<asked, waiting, verdict>>
    ELSE Finish(o, "raised")

(* requests.post returns.  A stop order is not retried when refused.       *)
Reply(o) ==
    /\ pc[o] = "sent" /\ reply[o] # "none"
    /\ IF reply[o] # "refused" THEN Finish(o, reply[o])
       ELSE IF Market(o) THEN TryAgain(o)
       ELSE Finish(o, "raised")
    /\ UNCHANGED <<exchangeVars, circuitVars, faults>>

(* requests.post raises: the request is lost, late, or its reply is lost.  *)
TimesOut(o) ==
    /\ pc[o] = "sent"
    /\ TryAgain(o)
    /\ wire' \in {wire, [wire EXCEPT ![o] = @ \ {try[o]}]}
    /\ Fault
    /\ UNCHANGED <<reply, book, ran, circuitVars>>

------------------------------------------------------------------------------
(* The exchange.                                                           *)

(* It processes a request: it executes the order, lets it expire, or       *)
(* refuses it, always when an order with this client order id is open.     *)
Arrives(o) == \E k \in wire[o], s \in Status \cup {"refused"} :
    /\ s \in IF Market(o) THEN {"FILLED", "PARTIALLY_FILLED", "EXPIRED", "refused"}
                          ELSE {"NEW", "refused"}
    /\ s # "refused" => book[o] \notin {"NEW", "PARTIALLY_FILLED"}
    /\ wire' = [wire EXCEPT ![o] = @ \ {k}]
    /\ book' = IF s = "refused" THEN book ELSE [book EXCEPT ![o] = s]
    /\ ran' = IF s \in Executed \cup {"NEW"} THEN [ran EXCEPT ![o] = @ \cup {k}] ELSE ran
    /\ reply' = IF pc[o] = "sent" /\ k = try[o] THEN [reply EXCEPT ![o] = s] ELSE reply
    /\ UNCHANGED <<callVars, verdict, blind, circuitVars, faults>>

(* A stop order triggers; a market order finds the rest of its coins.      *)
Completes(o) ==
    /\ book[o] \in {"NEW", "PARTIALLY_FILLED"}
    /\ book' = [book EXCEPT ![o] = "FILLED"]
    /\ UNCHANGED <<callVars, wire, reply, ran, verdict, blind, circuitVars, faults>>

------------------------------------------------------------------------------
Call(o) == \/ Begin(o) \/ Ask(o) \/ NotFound(o) \/ Answered(o) \/ TooSmall(o)
           \/ ReadRefused(o) \/ ReadFails(o) \/ Post(o) \/ Reply(o) \/ TimesOut(o)

Next == \/ \E o \in Order : Call(o) \/ Arrives(o) \/ Completes(o)
        \/ QuarantineEnds

Spec == Init /\ [][Next]_vars

(* The network answers a request that it does not lose.                    *)
Fairness == \A o \in Order : /\ WF_vars(Call(o))
                             /\ WF_vars(pc[o] = "sent" /\ Arrives(o))
FairSpec == Spec /\ Fairness

------------------------------------------------------------------------------
(* Two executions of one order: only when the client sent it again after a *)
(* lookup that gave no answer, or that could not see a request still on    *)
(* its way (exchange_client.py:465-480, 515-530).  When every lookup is    *)
(* answered and no request is late, no order is executed twice.            *)
TwiceOnlyBlind == \A o \in Order : blind[o] \/ \A j, k \in ran[o] : j = k

(* A call that raised may hide an execution (no lookup follows the last    *)
(* attempt, exchange_client.py:499), but only one of that last attempt:    *)
(* what an earlier attempt did has been found out by its lookup.           *)
RaisedHidesLast == \A o \in Order :
    verdict[o] = "raised" => blind[o] \/ ran[o] \subseteq {try[o]}

(* The promise of OrderPromise: at most one execution unless in doubt, and *)
(* no success reported of an order that was not executed.                  *)
Told(v) == IF v = "none" THEN "nothing"
           ELSE IF v \in Executed \cup {"NEW"} THEN "executed" ELSE "failed"
Promise == INSTANCE OrderPromise WITH doubt <- blind,
                                      told <- [o \in Order |-> Told(verdict[o])]
KeepsPromise == Promise!Spec

(* Every call returns or raises, also during an outage and while the       *)
(* breaker blocks all reads: nobody waits for the quarantine to end.       *)
EveryCallEnds == \A o \in Order : pc[o] # "idle" ~> pc[o] = "done"

(* 'Protection contre le double achat/vente en cas de timeout réseau'      *)
(* (knowledge/trading_constraints.md:43).                                  *)
NeverTwice == \A o \in Order : \A j, k \in ran[o] : j = k

(* A caller takes any status but FILLED for a failure (order_manager.py:   *)
(* 563, 894, 1437, 1800): it should see it for an executed order that was  *)
(* found by its lookup.                                                    *)
FoundIsFilled == \A o \in Order :
    verdict[o] \in Status => (verdict[o] = "FILLED" <=> ran[o] # {}) \/ ~Market(o)
===============================================================================
