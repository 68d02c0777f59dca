-------------------------- MODULE OrderClient_proofs --------------------------
(***************************************************************************)
(* Theorems about OrderClient: type correctness, when an order can be      *)
(* executed twice, what an exception can hide, and that the client keeps   *)
(* the promise of OrderPromise.  They hold for any number of orders, of    *)
(* attempts and of faults.                                                 *)
(***************************************************************************)
EXTENDS OrderClient, TLAPS

(* What TypeOK needs to be inductive: the attempts of a read are counted   *)
(* from 0 and a failed last one ends it.                                   *)
Asking == \A o \in Order :
    /\ pc[o] \notin Reads => asked[o] = 0
    /\ pc[o] \in Reads /\ o \notin waiting => asked[o] < RequestRetries

(* A market order is never left open, and the lookup is made for market    *)
(* orders only.                                                            *)
Kinds(o) == /\ pc[o] = "lookup" => Market(o)
            /\ Market(o) => book[o] # "NEW"

Live == Executed \cup {"NEW"}

(* Whatever says that an order was executed says the truth.                *)
Truthful(o) == /\ book[o] \in Live => ran[o] # {}
               /\ reply[o] \in Live => ran[o] # {}
               /\ verdict[o] \in Live => ran[o] # {}
               /\ verdict[o] = "none" <=> pc[o] # "done"

(* At most the request of one attempt is about, and not executed yet.      *)
OneRequest(o, k) == /\ wire[o] \subseteq {k} /\ ran[o] \subseteq {k}
                    /\ wire[o] = {} \/ ran[o] = {}

(* What the client knows of an order it never sent again blindly: before a *)
(* request nothing is on its way and nothing was executed.                 *)
Sure(o) ==
    /\ ran[o] # {} => book[o] \in Live
    /\ pc[o] \notin {"sent", "lookup", "done"} => wire[o] = {} /\ ran[o] = {}
    /\ pc[o] = "sent" => /\ OneRequest(o, try[o])
                         /\ reply[o] # "none" => wire[o] = {}
                         /\ reply[o] = "refused" => ran[o] = {}
    /\ pc[o] \in {"lookup", "done"} => \E k \in Attempt : OneRequest(o, k)
    /\ verdict[o] = "raised" => OneRequest(o, try[o])

RowInv(o) == Kinds(o) /\ Truthful(o) /\ (blind[o] \/ Sure(o))
Inv == \A o \in Order : RowInv(o)

------------------------------------------------------------------------------
LEMMA TriesInAttempt ==
    \A o \in Order : Tries(o) \in Nat \ {0} /\ \A k \in 1 .. Tries(o) : k \in Attempt
BY ClientAssumption DEF ClientAssumption, Tries, Attempt

(* Every variable stays in its range, and no read asks more often than     *)
(* max_retries of _request allows.                                         *)
LEMMA TypeInit == Init => TypeOK /\ Asking
<1> SUFFICES ASSUME Init PROVE TypeOK /\ Asking
  OBVIOUS
<1>1. RequestRetries \in Nat \ {0} /\ Threshold \in Nat \ {0}
  BY ClientAssumption DEF ClientAssumption
<1>2. try \in [Order -> Attempt] /\ \A o \in Order : try[o] <= Tries(o)
  BY TriesInAttempt DEF Init
<1>3. asked \in [Order -> 0 .. RequestRetries] /\ failures \in 0 .. Threshold - 1
  BY <1>1 DEF Init
<1>4. /\ wire \in [Order -> SUBSET Attempt] /\ ran \in [Order -> SUBSET Attempt]
      /\ pc \in [Order -> Reads \cup {"idle", "post", "sent", "done"}]
      /\ waiting \subseteq {o \in Order : pc[o] \in Reads /\ asked[o] > 0}
      /\ reply \in [Order -> Status \cup {"none", "refused"}]
      /\ book \in [Order -> Status \cup {"none"}]
      /\ verdict \in [Order -> Status \cup {"none", "raised"}]
      /\ blind \in [Order -> BOOLEAN] /\ quarantine \in BOOLEAN /\ faults \in Nat
  BY DEF Init
<1>5. Asking
  BY <1>1 DEF Init, Asking, Reads
<1> QED BY <1>2, <1>3, <1>4, <1>5 DEF TypeOK

LEMMA FaultType == ASSUME TypeOK, Fault PROVE faults' \in Nat
BY DEF TypeOK, Fault

LEMMA GotoType ==
    ASSUME TypeOK, Asking, NEW o \in Order,
           NEW s \in Reads \cup {"post", "sent", "done"}, Goto(o, s)
    PROVE  /\ pc' \in [Order -> Reads \cup {"idle", "post", "sent", "done"}]
           /\ asked' \in [Order -> 0 .. RequestRetries]
           /\ waiting' \subseteq {p \in Order : pc'[p] \in Reads /\ asked'[p] > 0}
           /\ try' = try
           /\ Asking'
BY ClientAssumption DEF ClientAssumption, TypeOK, Asking, Goto

LEMMA FinishType ==
    ASSUME TypeOK, Asking, NEW o \in Order, NEW v \in Status \cup {"raised"}, Finish(o, v)
    PROVE  /\ pc' \in [Order -> Reads \cup {"idle", "post", "sent", "done"}]
           /\ asked' \in [Order -> 0 .. RequestRetries]
           /\ waiting' \subseteq {p \in Order : pc'[p] \in Reads /\ asked'[p] > 0}
           /\ try' = try
           /\ verdict' \in [Order -> Status \cup {"none", "raised"}]
           /\ blind' \in [Order -> BOOLEAN]
           /\ Asking'
<1>1. Goto(o, "done")
  BY DEF Finish
<1>2. verdict' \in [Order -> Status \cup {"none", "raised"}] /\ blind' \in [Order -> BOOLEAN]
  BY DEF Finish, TypeOK
<1> QED BY <1>1, <1>2, GotoType

LEMMA ProceedType ==
    ASSUME TypeOK, Asking, NEW o \in Order, NEW s \in Reads \cup {"post"},
           NEW b \in BOOLEAN, Proceed(o, s, b)
    PROVE  /\ pc' \in [Order -> Reads \cup {"idle", "post", "sent", "done"}]
           /\ asked' \in [Order -> 0 .. RequestRetries]
           /\ waiting' \subseteq {p \in Order : pc'[p] \in Reads /\ asked'[p] > 0}
           /\ try' = try
           /\ verdict' \in [Order -> Status \cup {"none", "raised"}]
           /\ blind' \in [Order -> BOOLEAN]
           /\ Asking'
<1>1. Goto(o, s)
  BY DEF Proceed
<1>2. verdict' \in [Order -> Status \cup {"none", "raised"}] /\ blind' \in [Order -> BOOLEAN]
  BY DEF Proceed, TypeOK
<1> QED BY <1>1, <1>2, GotoType

LEMMA ReadRaisesType ==
    ASSUME TypeOK, Asking, NEW o \in Order, pc[o] \in Reads, ReadRaises(o)
    PROVE  /\ pc' \in [Order -> Reads \cup {"idle", "post", "sent", "done"}]
           /\ asked' \in [Order -> 0 .. RequestRetries]
           /\ waiting' \subseteq {p \in Order : pc'[p] \in Reads /\ asked'[p] > 0}
           /\ try' = try
           /\ verdict' \in [Order -> Status \cup {"none", "raised"}]
           /\ blind' \in [Order -> BOOLEAN]
           /\ Asking'
<1>1. CASE pc[o] = "check"
  BY <1>1, FinishType DEF ReadRaises
<1>2. CASE pc[o] # "check"
  <2>1. NextStep[pc[o]] \in Reads \cup {"post"}
    BY DEF NextStep, Reads
  <2>2. Proceed(o, NextStep[pc[o]], pc[o] = "lookup")
    BY <1>2 DEF ReadRaises
  <2> QED BY <2>1, <2>2, ProceedType
<1> QED BY <1>1, <1>2

LEMMA TryAgainType ==
    ASSUME TypeOK, Asking, NEW o \in Order, pc[o] = "sent", TryAgain(o)
    PROVE  /\ pc' \in [Order -> Reads \cup {"idle", "post", "sent", "done"}]
           /\ try' \in [Order -> Attempt] /\ \A p \in Order : try'[p] <= Tries(p)
           /\ asked' \in [Order -> 0 .. RequestRetries]
           /\ waiting' \subseteq {p \in Order : pc'[p] \in Reads /\ asked'[p] > 0}
           /\ verdict' \in [Order -> Status \cup {"none", "raised"}]
           /\ blind' \in [Order -> BOOLEAN]
           /\ Asking'
<1>1. CASE try[o] < Tries(o)
  <2>1. /\ try' = [try EXCEPT ![o] = @ + 1]
        /\ pc' = [pc EXCEPT ![o] = IF Market(o) THEN "lookup" ELSE "post"]
        /\ blind' = [blind EXCEPT ![o] = @ \/ ~Market(o)]
        /\ UNCHANGED <<asked, waiting, verdict>>
    BY <1>1 DEF TryAgain
  <2>2. try[o] \in Nat \ {0}
    BY ClientAssumption DEF ClientAssumption, TypeOK, Attempt
  <2>3. try[o] + 1 \in 1 .. Tries(o)
    BY <1>1, <2>2, TriesInAttempt
  <2>4. try' \in [Order -> Attempt] /\ \A p \in Order : try'[p] <= Tries(p)
    BY <2>1, <2>3, TriesInAttempt DEF TypeOK
  <2>5. asked[o] = 0
    BY DEF Asking, Reads
  <2>6. o \notin waiting
    BY DEF TypeOK, Reads
  <2>7. Asking'
    BY <2>1, <2>5, <2>6, ClientAssumption DEF Asking, TypeOK, ClientAssumption
  <2> QED BY <2>1, <2>4, <2>6, <2>7 DEF TypeOK, Reads
<1>2. CASE ~(try[o] < Tries(o))
  <2>1. Finish(o, "raised")
    BY <1>2 DEF TryAgain
  <2> QED BY <2>1, FinishType DEF TypeOK
<1> QED BY <1>1, <1>2

LEMMA CircuitType == ASSUME TypeOK PROVE 0 \in 0 .. Threshold - 1
BY ClientAssumption DEF ClientAssumption

LEMMA TypeStep == TypeOK /\ Asking /\ [Next]_vars => TypeOK' /\ Asking'
<1> SUFFICES ASSUME TypeOK, Asking, [Next]_vars PROVE TypeOK' /\ Asking'
  OBVIOUS
<1>1. ASSUME NEW o \in Order, Begin(o) PROVE TypeOK' /\ Asking'
  <2>1. asked[o] = 0 /\ o \notin waiting
    BY <1>1 DEF Begin, Asking, TypeOK, Reads
  <2>2. Asking'
    BY <1>1, <2>1, ClientAssumption DEF Begin, Asking, TypeOK, ClientAssumption
  <2>3. waiting' \subseteq {p \in Order : pc'[p] \in Reads /\ asked'[p] > 0}
    BY <1>1, <2>1 DEF Begin, TypeOK
  <2>4. pc' \in [Order -> Reads \cup {"idle", "post", "sent", "done"}]
    BY <1>1 DEF Begin, TypeOK, Reads
  <2> QED BY <1>1, <2>2, <2>3, <2>4 DEF Begin, TypeOK, exchangeVars, circuitVars
<1>2. ASSUME NEW o \in Order, Ask(o) PROVE TypeOK' /\ Asking'
  <2>1. CASE quarantine
    <3>1. ReadRaises(o) /\ pc[o] \in Reads
      BY <1>2, <2>1 DEF Ask
    <3> QED BY <1>2, <3>1, ReadRaisesType DEF Ask, TypeOK, exchangeVars, circuitVars
  <2>2. CASE ~quarantine
    <3>1. /\ asked' = [asked EXCEPT ![o] = @ + 1]
          /\ waiting' = waiting \cup {o}
          /\ UNCHANGED <<pc, try, verdict, blind>>
          /\ pc[o] \in Reads /\ o \notin waiting
      BY <1>2, <2>2 DEF Ask
    <3>2. asked[o] < RequestRetries /\ RequestRetries \in Nat
      BY <3>1, ClientAssumption DEF Asking, ClientAssumption
    <3>3. asked' \in [Order -> 0 .. RequestRetries]
      BY <3>1, <3>2 DEF TypeOK
    <3>4. waiting' \subseteq {p \in Order : pc'[p] \in Reads /\ asked'[p] > 0}
      BY <3>1 DEF TypeOK
    <3>5. Asking'
      BY <3>1 DEF Asking, TypeOK
    <3> QED BY <1>2, <3>1, <3>3, <3>4, <3>5 DEF Ask, TypeOK, exchangeVars, circuitVars
  <2> QED BY <2>1, <2>2
<1>3. ASSUME NEW o \in Order, NotFound(o) PROVE TypeOK' /\ Asking'
  <2>1. Proceed(o, "sync", wire[o] # {}) /\ "sync" \in Reads \cup {"post"}
    BY <1>3 DEF NotFound, Reads
  <2> QED BY <1>3, <2>1, ProceedType DEF NotFound, TypeOK, exchangeVars, circuitVars
<1>4. ASSUME NEW o \in Order, Answered(o) PROVE TypeOK' /\ Asking'
  <2> /\ failures' \in 0 .. Threshold - 1
      /\ UNCHANGED <<exchangeVars, quarantine, faults>>
    BY <1>4, CircuitType DEF Answered
  <2>1. CASE pc[o] = "lookup" /\ book[o] \in Executed
    <3>1. Finish(o, book[o]) /\ book[o] \in Status \cup {"raised"}
      BY <1>4, <2>1 DEF Answered, Status
    <3> QED BY <3>1, FinishType DEF TypeOK, exchangeVars
  <2>2. CASE pc[o] = "lookup" /\ book[o] \notin Executed
    <3>1. Proceed(o, "sync", wire[o] # {}) /\ "sync" \in Reads \cup {"post"}
      BY <1>4, <2>2 DEF Answered, Reads
    <3> QED BY <3>1, ProceedType DEF TypeOK, exchangeVars
  <2>3. CASE pc[o] # "lookup"
    <3>1. pc[o] \in Reads
      BY <1>4 DEF Answered, TypeOK
    <3>2. NextStep[pc[o]] \in Reads \cup {"post"}
      BY <3>1 DEF NextStep, Reads
    <3>3. Proceed(o, NextStep[pc[o]], FALSE)
      BY <1>4, <2>3 DEF Answered
    <3> QED BY <3>2, <3>3, ProceedType DEF TypeOK, exchangeVars
  <2> QED BY <2>1, <2>2, <2>3
<1>5. ASSUME NEW o \in Order, TooSmall(o) PROVE TypeOK' /\ Asking'
  <2>1. Finish(o, "raised")
    BY <1>5 DEF TooSmall
  <2> QED BY <1>5, <2>1, FinishType, CircuitType DEF TooSmall, TypeOK, exchangeVars
<1>6. ASSUME NEW o \in Order, ReadRefused(o) PROVE TypeOK' /\ Asking'
  <2>1. ReadRaises(o) /\ pc[o] \in Reads
    BY <1>6 DEF ReadRefused, TypeOK
  <2>2. faults' \in Nat
    BY <1>6, FaultType DEF ReadRefused
  <2> QED BY <1>6, <2>1, <2>2, ReadRaisesType DEF ReadRefused, TypeOK, exchangeVars, circuitVars
<1>7. ASSUME NEW o \in Order, ReadFails(o) PROVE TypeOK' /\ Asking'
  <2>1. faults' \in Nat /\ UNCHANGED exchangeVars /\ pc[o] \in Reads
    BY <1>7, FaultType DEF ReadFails, TypeOK
  <2>2. CASE asked[o] < RequestRetries
    <3>1. waiting' = waiting \ {o} /\ UNCHANGED <<pc, try, asked, verdict, blind, circuitVars>>
      BY <1>7, <2>2 DEF ReadFails
    <3>2. Asking'
      BY <2>2, <3>1 DEF Asking
    <3>3. waiting' \subseteq {p \in Order : pc'[p] \in Reads /\ asked'[p] > 0}
      BY <3>1 DEF TypeOK
    <3> QED BY <2>1, <3>1, <3>2, <3>3 DEF TypeOK, exchangeVars, circuitVars
  <2>3. CASE ~(asked[o] < RequestRetries)
    <3>1. /\ ReadRaises(o)
          /\ failures' = IF failures + 1 >= Threshold THEN 0 ELSE failures + 1
          /\ quarantine' = (quarantine \/ failures + 1 >= Threshold)
      BY <1>7, <2>3 DEF ReadFails
    <3>2. failures' \in 0 .. Threshold - 1 /\ quarantine' \in BOOLEAN
      BY <3>1, ClientAssumption DEF TypeOK, ClientAssumption
    <3> QED BY <2>1, <3>1, <3>2, ReadRaisesType DEF TypeOK, exchangeVars
  <2> QED BY <2>2, <2>3
<1>8. ASSUME NEW o \in Order, Post(o) PROVE TypeOK' /\ Asking'
  <2>1. asked[o] = 0 /\ o \notin waiting
    BY <1>8 DEF Post, Asking, TypeOK, Reads
  <2>2. Asking'
    BY <1>8, <2>1 DEF Post, Asking, TypeOK, Reads
  <2>3. waiting' \subseteq {p \in Order : pc'[p] \in Reads /\ asked'[p] > 0}
    BY <1>8, <2>1 DEF Post, TypeOK
  <2>4. /\ pc' \in [Order -> Reads \cup {"idle", "post", "sent", "done"}]
        /\ wire' \in [Order -> SUBSET Attempt]
        /\ reply' \in [Order -> Status \cup {"none", "refused"}]
    BY <1>8 DEF Post, TypeOK
  <2> QED BY <1>8, <2>2, <2>3, <2>4 DEF Post, TypeOK, circuitVars
<1>9. ASSUME NEW o \in Order, Reply(o) PROVE TypeOK' /\ Asking'
  <2>1. CASE reply[o] # "refused"
    <3>1. Finish(o, reply[o]) /\ reply[o] \in Status \cup {"raised"}
      BY <1>9, <2>1 DEF Reply, TypeOK
    <3> QED BY <1>9, <3>1, FinishType DEF Reply, TypeOK, exchangeVars, circuitVars
  <2>2. CASE reply[o] = "refused" /\ Market(o)
    <3>1. TryAgain(o) /\ pc[o] = "sent"
      BY <1>9, <2>2 DEF Reply
    <3> QED BY <1>9, <3>1, TryAgainType DEF Reply, TypeOK, exchangeVars, circuitVars
  <2>3. CASE reply[o] = "refused" /\ ~Market(o)
    <3>1. Finish(o, "raised")
      BY <1>9, <2>3 DEF Reply
    <3> QED BY <1>9, <3>1, FinishType DEF Reply, TypeOK, exchangeVars, circuitVars
  <2> QED BY <2>1, <2>2, <2>3
<1>10. ASSUME NEW o \in Order, TimesOut(o) PROVE TypeOK' /\ Asking'
  <2>1. TryAgain(o) /\ pc[o] = "sent" /\ faults' \in Nat
    BY <1>10, FaultType DEF TimesOut
  <2>2. wire' \in [Order -> SUBSET Attempt]
    BY <1>10 DEF TimesOut, TypeOK
  <2> QED BY <1>10, <2>1, <2>2, TryAgainType DEF TimesOut, TypeOK, circuitVars
<1>11. ASSUME NEW o \in Order, Arrives(o) PROVE TypeOK' /\ Asking'
  <2> PICK k \in wire[o], s \in Status \cup {"refused"} :
        /\ wire' = [wire EXCEPT ![o] = @ \ {k}]
        /\ book' = IF s = "refused" THEN book ELSE [book EXCEPT ![o] = s]
        /\ ran' = IF s \in Executed \cup {"NEW"} THEN [ran EXCEPT ![o] = @ \cup {k}] ELSE ran
        /\ reply' = IF pc[o] = "sent" /\ k = try[o] THEN [reply EXCEPT ![o] = s] ELSE reply
        /\ UNCHANGED <<callVars, verdict, blind, circuitVars, faults>>
    BY <1>11 DEF Arrives
  <2>1. k \in Attempt
    BY DEF TypeOK
  <2>2. /\ wire' \in [Order -> SUBSET Attempt] /\ ran' \in [Order -> SUBSET Attempt]
    BY <2>1 DEF TypeOK
  <2>3. /\ book' \in [Order -> Status \cup {"none"}]
        /\ reply' \in [Order -> Status \cup {"none", "refused"}]
    BY DEF TypeOK
  <2> QED BY <2>2, <2>3 DEF TypeOK, Asking, callVars, circuitVars
<1>12. ASSUME NEW o \in Order, Completes(o) PROVE TypeOK' /\ Asking'
  BY <1>12 DEF Completes, TypeOK, Asking, callVars, circuitVars, Status, Executed
<1>13. CASE QuarantineEnds
  BY <1>13 DEF QuarantineEnds, TypeOK, Asking, callVars, exchangeVars
<1>14. CASE UNCHANGED vars
  BY <1>14 DEF vars, TypeOK, Asking
<1> QED
  BY <1>1, <1>2, <1>3, <1>4, <1>5, <1>6, <1>7, <1>8, <1>9, <1>10, <1>11, <1>12, <1>13, <1>14
  DEF Next, Call

(* TypeOK holds in every run of the client: the attempts stay within the   *)
(* retry limits and the counter of the breaker below its threshold.        *)
THEOREM Typing == Spec => []TypeOK
<1>1. Spec => [](TypeOK /\ Asking)
  BY TypeInit, TypeStep, PTL DEF Spec
<1> QED BY <1>1, PTL

------------------------------------------------------------------------------
LEMMA InvInit == Init => Inv
BY DEF Init, Inv, RowInv, Kinds, Truthful, Sure, OneRequest, Live, Executed

(* Each call ends well: what it reports is true, and it has at most one    *)
(* request about unless it is blind.                                       *)
LEMMA FinishRow ==
    ASSUME TypeOK, NEW o \in Order, RowInv(o), NEW v \in Status \cup {"raised"},
           pc[o] # "done", Finish(o, v), UNCHANGED exchangeVars,
           v \in Live => ran[o] # {},
           blind[o] \/ OneRequest(o, try[o]) \/ (v # "raised" /\ pc[o] = "lookup")
    PROVE  RowInv(o)'
<1>1. /\ pc'[o] = "done" /\ verdict'[o] = v /\ try' = try /\ blind' = blind
      /\ UNCHANGED <<wire, reply, book, ran>>
  BY DEF Finish, Goto, TypeOK, exchangeVars
<1>2. Kinds(o)' /\ Truthful(o)'
  BY <1>1 DEF RowInv, Kinds, Truthful, Live, Executed, Status
<1>3. blind[o] \/ Sure(o)'
  BY <1>1 DEF RowInv, Sure, OneRequest, TypeOK
<1> QED BY <1>1, <1>2, <1>3 DEF RowInv

LEMMA ProceedRow ==
    ASSUME TypeOK, NEW o \in Order, RowInv(o), NEW s \in {"sync", "resync", "post"},
           NEW b \in BOOLEAN, pc[o] # "done", Proceed(o, s, b), UNCHANGED exchangeVars,
           blind[o] \/ b \/ (wire[o] = {} /\ ran[o] = {})
    PROVE  RowInv(o)'
<1>1. /\ pc'[o] = s /\ verdict' = verdict /\ try' = try /\ blind'[o] = (blind[o] \/ b)
      /\ UNCHANGED <<wire, reply, book, ran>>
  BY DEF Proceed, Goto, TypeOK, exchangeVars
<1>2. Kinds(o)' /\ Truthful(o)'
  BY <1>1 DEF RowInv, Kinds, Truthful
<1>3. blind'[o] \/ Sure(o)'
  BY <1>1 DEF RowInv, Truthful, Sure, OneRequest
<1> QED BY <1>2, <1>3 DEF RowInv

LEMMA ReadRaisesRow ==
    ASSUME TypeOK, NEW o \in Order, RowInv(o), pc[o] \in Reads, ReadRaises(o),
           UNCHANGED exchangeVars
    PROVE  RowInv(o)'
<1>1. CASE pc[o] = "check"
  <2>1. Finish(o, "raised")
    BY <1>1 DEF ReadRaises
  <2>2. blind[o] \/ OneRequest(o, try[o])
    BY <1>1 DEF RowInv, Sure, OneRequest
  <2> QED BY <1>1, <2>1, <2>2, FinishRow DEF Live, Executed
<1>2. CASE pc[o] # "check"
  <2>1. NextStep[pc[o]] \in {"sync", "resync", "post"}
    BY <1>2 DEF NextStep, Reads
  <2>2. Proceed(o, NextStep[pc[o]], pc[o] = "lookup")
    BY <1>2 DEF ReadRaises
  <2>3. blind[o] \/ pc[o] = "lookup" \/ (wire[o] = {} /\ ran[o] = {})
    BY DEF RowInv, Sure, Reads
  <2> QED BY <2>1, <2>2, <2>3, ProceedRow DEF Reads
<1> QED BY <1>1, <1>2

(* The exception of an attempt, whose request may still be on its way.     *)
LEMMA TryAgainRow ==
    ASSUME TypeOK, NEW o \in Order, RowInv(o), pc[o] = "sent", TryAgain(o),
           UNCHANGED <<reply, book, ran>>,
           wire'[o] \in {wire[o], wire[o] \ {try[o]}}
    PROVE  RowInv(o)'
<1>1. blind[o] \/ OneRequest(o, try[o])
  BY DEF RowInv, Sure
<1>2. CASE try[o] < Tries(o)
  <2>1. /\ pc'[o] = IF Market(o) THEN "lookup" ELSE "post"
        /\ blind'[o] = (blind[o] \/ ~Market(o)) /\ verdict' = verdict
    BY <1>2 DEF TryAgain, TypeOK
  <2>2. Kinds(o)' /\ Truthful(o)'
    BY <2>1 DEF RowInv, Kinds, Truthful, Market
  <2>3. blind'[o] \/ Sure(o)'
    <3> SUFFICES ASSUME ~blind[o], Market(o) PROVE Sure(o)'
      BY <2>1
    <3>1. try[o] \in Attempt /\ wire'[o] \subseteq {try[o]} /\ ran'[o] \subseteq {try[o]}
          /\ (wire'[o] = {} \/ ran'[o] = {})
      BY <1>1 DEF OneRequest, TypeOK
    <3>2. pc'[o] = "lookup" /\ verdict'[o] = "none"
      BY <2>1 DEF RowInv, Truthful
    <3>3. \E k \in Attempt : OneRequest(o, k)'
      BY <3>1 DEF OneRequest
    <3> QED BY <3>2, <3>3 DEF Sure, RowInv
  <2> QED BY <2>2, <2>3 DEF RowInv
<1>3. CASE ~(try[o] < Tries(o))
  <2>1. /\ pc'[o] = "done" /\ verdict'[o] = "raised" /\ try' = try /\ blind' = blind
    BY <1>3 DEF TryAgain, Finish, Goto, TypeOK
  <2>2. Kinds(o)' /\ Truthful(o)'
    BY <2>1 DEF RowInv, Kinds, Truthful, Live, Executed
  <2>3. blind[o] \/ Sure(o)'
    <3> SUFFICES ASSUME ~blind[o] PROVE Sure(o)'
      OBVIOUS
    <3>1. try[o] \in Attempt /\ OneRequest(o, try[o])'
      BY <1>1, <2>1 DEF OneRequest, TypeOK
    <3> QED BY <2>1, <3>1 DEF Sure, RowInv
  <2> QED BY <2>1, <2>2, <2>3 DEF RowInv
<1> QED BY <1>2, <1>3

LEMMA ArrivesRow == ASSUME TypeOK, NEW o \in Order, RowInv(o), Arrives(o) PROVE RowInv(o)'
<1> PICK k \in wire[o], s \in Status \cup {"refused"} :
      /\ s \in IF Market(o) THEN {"FILLED", "PARTIALLY_FILLED", "EXPIRED", "refused"}
                            ELSE {"NEW", "refused"}
      /\ s # "refused" => book[o] \notin {"NEW", "PARTIALLY_FILLED"}
      /\ wire' = [wire EXCEPT ![o] = @ \ {k}]
      /\ book' = IF s = "refused" THEN book ELSE [book EXCEPT ![o] = s]
      /\ ran' = IF s \in Executed \cup {"NEW"} THEN [ran EXCEPT ![o] = @ \cup {k}] ELSE ran
      /\ reply' = IF pc[o] = "sent" /\ k = try[o] THEN [reply EXCEPT ![o] = s] ELSE reply
      /\ UNCHANGED <<callVars, verdict, blind, circuitVars, faults>>
  BY DEF Arrives
<1>1. /\ wire'[o] = wire[o] \ {k}
      /\ book'[o] = IF s = "refused" THEN book[o] ELSE s
      /\ ran'[o] = IF s \in Live THEN ran[o] \cup {k} ELSE ran[o]
      /\ reply'[o] = IF pc[o] = "sent" /\ k = try[o] THEN s ELSE reply[o]
      /\ UNCHANGED <<pc, try, verdict, blind>>
  BY DEF TypeOK, callVars, Live
<1>2. Kinds(o)'
  BY <1>1 DEF RowInv, Kinds, Market
<1>3. Truthful(o)'
  BY <1>1 DEF RowInv, Truthful, Live, Executed
<1>4. blind[o] \/ Sure(o)'
  <2> SUFFICES ASSUME ~blind[o], Sure(o) PROVE Sure(o)'
    BY DEF RowInv
  <2>1. ran[o] = {} /\ pc[o] \in {"sent", "lookup", "done"}
    BY DEF Sure, OneRequest
  <2>2. ran'[o] # {} => book'[o] \in Live
    BY <1>1, <2>1 DEF Live, Executed
  <2>3. \A j : OneRequest(o, j) => OneRequest(o, j)'
    BY <1>1, <2>1 DEF OneRequest
  <2>4. pc[o] = "sent" => /\ reply'[o] # "none" => wire'[o] = {}
                          /\ reply'[o] = "refused" => ran'[o] = {}
    BY <1>1, <2>1 DEF Sure, OneRequest, Live, Executed
  <2> QED BY <1>1, <2>1, <2>2, <2>3, <2>4 DEF Sure
<1> QED BY <1>1, <1>2, <1>3, <1>4 DEF RowInv

(* A step of one order leaves the rows of the others alone.                *)
Row(o) == <<pc[o], try[o], wire[o], reply[o], book[o], ran[o], verdict[o], blind[o]>>

LEMMA OtherRows ==
    ASSUME TypeOK, NEW o \in Order, Call(o) \/ Arrives(o) \/ Completes(o),
           NEW p \in Order, p # o
    PROVE  Row(p)' = Row(p)
<1>1. ASSUME NEW s, Goto(o, s) PROVE pc'[p] = pc[p] /\ try' = try
  BY <1>1 DEF Goto, TypeOK
<1>2. ASSUME NEW v, Finish(o, v)
      PROVE  pc'[p] = pc[p] /\ try'[p] = try[p] /\ verdict'[p] = verdict[p] /\ blind'[p] = blind[p]
  BY <1>2, <1>1 DEF Finish, TypeOK
<1>3. ASSUME NEW s, NEW b, Proceed(o, s, b)
      PROVE  pc'[p] = pc[p] /\ try'[p] = try[p] /\ verdict'[p] = verdict[p] /\ blind'[p] = blind[p]
  BY <1>3, <1>1 DEF Proceed, TypeOK
<1>4. ASSUME ReadRaises(o)
      PROVE  pc'[p] = pc[p] /\ try'[p] = try[p] /\ verdict'[p] = verdict[p] /\ blind'[p] = blind[p]
  BY <1>4, <1>2, <1>3 DEF ReadRaises
<1>5. ASSUME TryAgain(o)
      PROVE  pc'[p] = pc[p] /\ try'[p] = try[p] /\ verdict'[p] = verdict[p] /\ blind'[p] = blind[p]
  <2>1. CASE try[o] < Tries(o)
    BY <1>5, <2>1 DEF TryAgain, TypeOK
  <2>2. CASE ~(try[o] < Tries(o))
    BY <1>5, <2>2, <1>2 DEF TryAgain
  <2> QED BY <2>1, <2>2
<1>6. CASE Begin(o)
  BY <1>6 DEF Begin, Row, TypeOK, exchangeVars
<1>7. CASE Ask(o)
  BY <1>7, <1>4 DEF Ask, Row, exchangeVars
<1>8. CASE NotFound(o)
  BY <1>8, <1>3 DEF NotFound, Row, exchangeVars
<1>9. CASE Answered(o)
  BY <1>9, <1>2, <1>3 DEF Answered, Row, exchangeVars
<1>10. CASE TooSmall(o)
  BY <1>10, <1>2 DEF TooSmall, Row, exchangeVars
<1>11. CASE ReadRefused(o)
  BY <1>11, <1>4 DEF ReadRefused, Row, exchangeVars
<1>12. CASE ReadFails(o)
  BY <1>12, <1>4 DEF ReadFails, Row, exchangeVars
<1>13. CASE Post(o)
  BY <1>13 DEF Post, Row, TypeOK
<1>14. CASE Reply(o)
  BY <1>14, <1>2, <1>5 DEF Reply, Row, exchangeVars
<1>15. CASE TimesOut(o)
  <2>1. wire'[p] = wire[p] /\ UNCHANGED <<reply, book, ran>>
    BY <1>15 DEF TimesOut, TypeOK
  <2> QED BY <1>15, <1>5, <2>1 DEF TimesOut, Row
<1>16. CASE Arrives(o)
  BY <1>16 DEF Arrives, Row, TypeOK, callVars
<1>17. CASE Completes(o)
  BY <1>17 DEF Completes, Row, TypeOK, callVars
<1> QED BY <1>6, <1>7, <1>8, <1>9, <1>10, <1>11, <1>12, <1>13, <1>14, <1>15, <1>16, <1>17 DEF Call

LEMMA OwnRow ==
    ASSUME TypeOK, NEW o \in Order, RowInv(o), Call(o) \/ Arrives(o) \/ Completes(o)
    PROVE  RowInv(o)'
<1>1. CASE Begin(o)
  <2>1. /\ pc'[o] \in {"check", "sync"} /\ UNCHANGED <<try, verdict, blind, exchangeVars>>
    BY <1>1 DEF Begin, TypeOK
  <2> QED BY <1>1, <2>1 DEF Begin, RowInv, Kinds, Truthful, Sure, exchangeVars
<1>2. CASE Ask(o)
  <2>1. CASE quarantine
    BY <1>2, <2>1, ReadRaisesRow DEF Ask
  <2>2. CASE ~quarantine
    <3>1. UNCHANGED <<pc, try, verdict, blind, exchangeVars>>
      BY <1>2, <2>2 DEF Ask
    <3> QED BY <3>1 DEF RowInv, Kinds, Truthful, Sure, OneRequest, exchangeVars
  <2> QED BY <2>1, <2>2
<1>3. CASE NotFound(o)
  <2>1. blind[o] \/ wire[o] # {} \/ (wire[o] = {} /\ ran[o] = {})
    BY <1>3 DEF NotFound, RowInv, Sure, Live, Executed
  <2> QED BY <1>3, <2>1, ProceedRow DEF NotFound
<1>4. CASE Answered(o)
  <2>1. CASE pc[o] = "lookup" /\ book[o] \in Executed
    <3>1. Finish(o, book[o]) /\ UNCHANGED exchangeVars
      BY <1>4, <2>1 DEF Answered
    <3>2. ran[o] # {} /\ book[o] \in Status \cup {"raised"} /\ book[o] # "raised"
      BY <2>1 DEF RowInv, Truthful, Live, Status, Executed
    <3> QED BY <2>1, <3>1, <3>2, FinishRow
  <2>2. CASE pc[o] = "lookup" /\ book[o] \notin Executed
    <3>1. Proceed(o, "sync", wire[o] # {}) /\ UNCHANGED exchangeVars
      BY <1>4, <2>2 DEF Answered
    <3>2. blind[o] \/ ran[o] = {}
      BY <2>2 DEF RowInv, Kinds, Sure, Live
    <3> QED BY <2>2, <3>1, <3>2, ProceedRow
  <2>3. CASE pc[o] # "lookup"
    <3>1. pc[o] \in Reads
      BY <1>4 DEF Answered, TypeOK
    <3>2. NextStep[pc[o]] \in {"sync", "resync", "post"}
      BY <2>3, <3>1 DEF NextStep, Reads
    <3>3. Proceed(o, NextStep[pc[o]], FALSE) /\ UNCHANGED exchangeVars
      BY <1>4, <2>3 DEF Answered
    <3>4. blind[o] \/ (wire[o] = {} /\ ran[o] = {})
      BY <2>3, <3>1 DEF RowInv, Sure, Reads
    <3>5. pc[o] # "done"
      BY <3>1 DEF Reads
    <3> QED BY <3>2, <3>3, <3>4, <3>5, ProceedRow
  <2> QED BY <2>1, <2>2, <2>3
<1>5. CASE TooSmall(o)
  <2>1. blind[o] \/ OneRequest(o, try[o])
    BY <1>5 DEF TooSmall, RowInv, Sure, OneRequest
  <2> QED BY <1>5, <2>1, FinishRow DEF TooSmall, Live, Executed
<1>6. CASE ReadRefused(o)
  BY <1>6, ReadRaisesRow DEF ReadRefused, TypeOK
<1>7. CASE ReadFails(o)
  <2>1. CASE asked[o] < RequestRetries
    <3>1. UNCHANGED <<pc, try, verdict, blind, exchangeVars>>
      BY <1>7, <2>1 DEF ReadFails
    <3> QED BY <3>1 DEF RowInv, Kinds, Truthful, Sure, OneRequest, exchangeVars
  <2>2. CASE ~(asked[o] < RequestRetries)
    BY <1>7, <2>2, ReadRaisesRow DEF ReadFails, TypeOK
  <2> QED BY <2>1, <2>2
<1>8. CASE Post(o)
  <2>1. /\ pc'[o] = "sent" /\ wire'[o] = wire[o] \cup {try[o]} /\ reply'[o] = "none"
        /\ UNCHANGED <<try, book, ran, verdict, blind>>
    BY <1>8 DEF Post, TypeOK
  <2> QED BY <1>8, <2>1 DEF Post, RowInv, Kinds, Truthful, Sure, OneRequest, Live, Executed
<1>9. CASE Reply(o)
  <2>1. blind[o] \/ OneRequest(o, try[o])
    BY <1>9 DEF Reply, RowInv, Sure
  <2>2. CASE reply[o] # "refused"
    <3>1. Finish(o, reply[o]) /\ UNCHANGED exchangeVars /\ reply[o] \in Status \cup {"raised"}
      BY <1>9, <2>2 DEF Reply, TypeOK
    <3>2. reply[o] \in Live => ran[o] # {}
      BY DEF RowInv, Truthful
    <3> QED BY <1>9, <2>1, <3>1, <3>2, FinishRow DEF Reply
  <2>3. CASE reply[o] = "refused" /\ Market(o)
    <3>1. TryAgain(o) /\ UNCHANGED exchangeVars /\ pc[o] = "sent"
      BY <1>9, <2>3 DEF Reply
    <3> QED BY <3>1, TryAgainRow DEF exchangeVars
  <2>4. CASE reply[o] = "refused" /\ ~Market(o)
    <3>1. Finish(o, "raised") /\ UNCHANGED exchangeVars
      BY <1>9, <2>4 DEF Reply
    <3> QED BY <1>9, <2>1, <3>1, FinishRow DEF Reply, Live, Executed
  <2> QED BY <2>2, <2>3, <2>4
<1>10. CASE TimesOut(o)
  <2>1. wire'[o] \in {wire[o], wire[o] \ {try[o]}}
    BY <1>10 DEF TimesOut, TypeOK
  <2> QED BY <1>10, <2>1, TryAgainRow DEF TimesOut
<1>11. CASE Arrives(o)
  BY <1>11, ArrivesRow
<1>12. CASE Completes(o)
  <2>1. /\ book[o] \in Live /\ book'[o] = "FILLED"
        /\ UNCHANGED <<pc, try, wire, reply, ran, verdict, blind>>
    BY <1>12 DEF Completes, TypeOK, callVars, Live, Executed
  <2> QED BY <2>1 DEF RowInv, Kinds, Truthful, Sure, OneRequest, Live, Executed, Market
<1> QED BY <1>1, <1>2, <1>3, <1>4, <1>5, <1>6, <1>7, <1>8, <1>9, <1>10, <1>11, <1>12 DEF Call

LEMMA SameRow ==
    ASSUME NEW p \in Order, RowInv(p), Row(p)' = Row(p)
    PROVE  RowInv(p)'
BY DEF Row, RowInv, Kinds, Truthful, Sure, OneRequest, Market

LEMMA InvStep == TypeOK /\ Inv /\ [Next]_vars => Inv'
<1> SUFFICES ASSUME TypeOK, Inv, [Next]_vars, NEW p \in Order PROVE RowInv(p)'
  BY DEF Inv
<1>1. RowInv(p)
  BY DEF Inv
<1>2. ASSUME NEW o \in Order, Call(o) \/ Arrives(o) \/ Completes(o) PROVE RowInv(p)'
  BY <1>1, <1>2, OwnRow, OtherRows, SameRow
<1>3. CASE QuarantineEnds \/ UNCHANGED vars
  <2>1. Row(p)' = Row(p)
    BY <1>3 DEF QuarantineEnds, vars, callVars, exchangeVars, Row
  <2> QED BY <1>1, <2>1, SameRow
<1> QED BY <1>2, <1>3 DEF Next

LEMMA Invariance == Spec => [](TypeOK /\ Inv)
<1>1. Spec => [](TypeOK /\ Asking)
  BY TypeInit, TypeStep, PTL DEF Spec
<1> QED BY <1>1, InvInit, InvStep, PTL DEF Spec

(* No order is executed twice unless the client sent it again without an   *)
(* answer of its lookup: safe_market_buy and safe_market_sell never cause  *)
(* a double execution of their own, whatever requests and replies the      *)
(* network loses.                                                          *)
THEOREM OnceUnlessBlind == Spec => []TwiceOnlyBlind
<1>1. TypeOK /\ Inv => TwiceOnlyBlind
  <2> SUFFICES ASSUME TypeOK, Inv, NEW o \in Order, ~blind[o], NEW j \in ran[o], NEW k \in ran[o]
               PROVE  j = k
    BY DEF TwiceOnlyBlind
  <2>1. Sure(o) /\ pc[o] \in Reads \cup {"idle", "post", "sent", "done"}
    BY DEF Inv, RowInv, TypeOK
  <2>2. \E n : ran[o] \subseteq {n}
    BY <2>1 DEF Sure, OneRequest, Reads
  <2> QED BY <2>2
<1> QED BY <1>1, Invariance, PTL

(* When a call raises, only what its last attempt did is unknown.          *)
THEOREM OnlyLastIsHidden == Spec => []RaisedHidesLast
<1>1. Inv => RaisedHidesLast
  BY DEF Inv, RowInv, Sure, OneRequest, RaisedHidesLast
<1> QED BY <1>1, Invariance, PTL

------------------------------------------------------------------------------
(* The refinement: what each part of a step is in OrderPromise.            *)
ToldNow == [o \in Order |-> Told(verdict[o])]

LEMMA FinishReports ==
    ASSUME TypeOK, Inv, NEW o \in Order, NEW v \in Status \cup {"raised"},
           pc[o] # "done", Finish(o, v), ran' = ran, v \in Live => ran[o] # {}
    PROVE  Promise!Report(o)
<1>1. ToldNow[o] = "nothing"
  BY DEF Inv, RowInv, Truthful, ToldNow, Told
<1>2. ToldNow' = [ToldNow EXCEPT ![o] = Told(v)]
  BY DEF Finish, ToldNow, TypeOK
<1>3. (Told(v) = "executed" /\ ran[o] # {}) \/ Told(v) = "failed"
  BY DEF Told, Live, Executed, Status
<1>4. blind' = blind
  BY DEF Finish
<1> QED BY <1>1, <1>2, <1>3, <1>4 DEF Promise!Report, ToldNow

LEMMA DoubtGoesAhead ==
    ASSUME TypeOK, Inv, NEW o \in Order, pc[o] # "done", NEW b \in BOOLEAN,
           blind' = [blind EXCEPT ![o] = @ \/ b], UNCHANGED <<ran, verdict>>
    PROVE  Promise!GoAhead(o) \/ UNCHANGED <<ran, blind, ToldNow>>
<1>1. ToldNow[o] = "nothing" /\ ToldNow' = ToldNow
  BY DEF Inv, RowInv, Truthful, ToldNow, Told
<1>2. CASE b
  <2>1. blind' = [blind EXCEPT ![o] = TRUE]
    BY <1>2 DEF TypeOK
  <2> QED BY <1>1, <2>1 DEF Promise!GoAhead, ToldNow
<1>3. CASE ~b
  <2>1. blind' = blind
    BY <1>3 DEF TypeOK
  <2> QED BY <1>1, <2>1
<1> QED BY <1>2, <1>3

Maps(o) == \/ Promise!Report(o) \/ Promise!GoAhead(o) \/ Promise!Execute(o)
           \/ UNCHANGED <<ran, blind, ToldNow>>

LEMMA ReadRaisesMaps ==
    ASSUME TypeOK, Inv, NEW o \in Order, pc[o] \in Reads, ReadRaises(o), ran' = ran
    PROVE  Maps(o)
<1>1. CASE pc[o] = "check"
  <2>1. Finish(o, "raised")
    BY <1>1 DEF ReadRaises
  <2> QED BY <1>1, <2>1, FinishReports DEF Maps, Live, Executed
<1>2. CASE pc[o] # "check"
  <2>1. pc[o] # "done" /\ verdict' = verdict
        /\ blind' = [blind EXCEPT ![o] = @ \/ pc[o] = "lookup"]
    BY <1>2 DEF ReadRaises, Proceed, Reads
  <2> QED BY <2>1, DoubtGoesAhead DEF Maps
<1> QED BY <1>1, <1>2

LEMMA TryAgainMaps ==
    ASSUME TypeOK, Inv, NEW o \in Order, pc[o] = "sent", TryAgain(o), ran' = ran
    PROVE  Maps(o)
<1>1. CASE try[o] < Tries(o)
  <2>1. verdict' = verdict /\ blind' = [blind EXCEPT ![o] = @ \/ ~Market(o)]
    BY <1>1 DEF TryAgain
  <2>2. (~Market(o)) \in BOOLEAN
    BY DEF Market
  <2> QED BY <2>1, <2>2, DoubtGoesAhead DEF Maps
<1>2. CASE ~(try[o] < Tries(o))
  <2>1. Finish(o, "raised")
    BY <1>2 DEF TryAgain
  <2> QED BY <2>1, FinishReports DEF Maps, Live, Executed
<1> QED BY <1>1, <1>2

LEMMA ArrivesMaps ==
    ASSUME TypeOK, Inv, NEW o \in Order, Arrives(o) PROVE Maps(o)
<1> PICK k \in wire[o], s \in Status \cup {"refused"} :
      /\ ran' = IF s \in Executed \cup {"NEW"} THEN [ran EXCEPT ![o] = @ \cup {k}] ELSE ran
      /\ UNCHANGED <<callVars, verdict, blind, circuitVars, faults>>
  BY DEF Arrives
<1>1. blind' = blind /\ ToldNow' = ToldNow
  BY DEF ToldNow
<1>2. CASE ran' = ran
  BY <1>1, <1>2 DEF Maps
<1>3. CASE ran' # ran
  <2>1. ran' = [ran EXCEPT ![o] = @ \cup {k}]
    BY <1>3
  <2>2. k \in Attempt \ ran[o]
    BY <1>3, <2>1 DEF TypeOK
  <2>3. ran[o] = {} \/ blind[o]
    <3> SUFFICES ASSUME ~blind[o] PROVE ran[o] = {}
      OBVIOUS
    <3>1. Sure(o) /\ wire[o] # {} /\ pc[o] \in Reads \cup {"idle", "post", "sent", "done"}
      BY DEF Inv, RowInv, TypeOK
    <3> QED BY <3>1 DEF Sure, OneRequest, Reads
  <2>4. Promise!Execute(o)
    BY <1>1, <2>1, <2>2, <2>3 DEF Promise!Execute, ToldNow
  <2> QED BY <2>4 DEF Maps
<1> QED BY <1>2, <1>3

LEMMA CallMaps ==
    ASSUME TypeOK, Inv, NEW o \in Order, Call(o) \/ Arrives(o) \/ Completes(o)
    PROVE  Maps(o)
<1>1. ASSUME UNCHANGED <<ran, verdict, blind>> PROVE Maps(o)
  BY <1>1 DEF Maps, ToldNow
<1>2. CASE Begin(o) \/ Post(o) \/ Completes(o)
  BY <1>1, <1>2 DEF Begin, Post, Completes, exchangeVars
<1>3. CASE Ask(o)
  <2>1. CASE quarantine
    BY <1>3, <2>1, ReadRaisesMaps DEF Ask, exchangeVars
  <2>2. CASE ~quarantine
    BY <1>1, <1>3, <2>2 DEF Ask, exchangeVars
  <2> QED BY <2>1, <2>2
<1>4. CASE NotFound(o)
  BY <1>4, DoubtGoesAhead DEF NotFound, Proceed, Maps, exchangeVars
<1>5. CASE Answered(o)
  <2>1. ran' = ran
    BY <1>5 DEF Answered, exchangeVars
  <2>2. CASE pc[o] = "lookup" /\ book[o] \in Executed
    <3>1. Finish(o, book[o])
      BY <1>5, <2>2 DEF Answered
    <3>2. ran[o] # {} /\ book[o] \in Status \cup {"raised"}
      BY <2>2 DEF Inv, RowInv, Truthful, Live, Status
    <3> QED BY <2>1, <2>2, <3>1, <3>2, FinishReports DEF Maps
  <2>3. CASE pc[o] = "lookup" /\ book[o] \notin Executed
    <3>1. Proceed(o, "sync", wire[o] # {})
      BY <1>5, <2>3 DEF Answered
    <3> QED BY <2>1, <2>3, <3>1, DoubtGoesAhead DEF Maps, Proceed
  <2>4. CASE pc[o] # "lookup"
    <3>1. Proceed(o, NextStep[pc[o]], FALSE)
      BY <1>5, <2>4 DEF Answered
    <3>2. verdict' = verdict /\ blind' = blind
      BY <3>1 DEF Proceed, TypeOK
    <3> QED BY <1>1, <2>1, <3>2
  <2> QED BY <2>2, <2>3, <2>4
<1>6. CASE TooSmall(o)
  BY <1>6, FinishReports DEF TooSmall, Maps, exchangeVars, Live, Executed
<1>7. CASE ReadRefused(o)
  BY <1>7, ReadRaisesMaps DEF ReadRefused, TypeOK, exchangeVars
<1>8. CASE ReadFails(o)
  <2>1. CASE asked[o] < RequestRetries
    BY <1>1, <1>8, <2>1 DEF ReadFails, exchangeVars
  <2>2. CASE ~(asked[o] < RequestRetries)
    BY <1>8, <2>2, ReadRaisesMaps DEF ReadFails, TypeOK, exchangeVars
  <2> QED BY <2>1, <2>2
<1>9. CASE Reply(o)
  <2>1. ran' = ran /\ pc[o] = "sent"
    BY <1>9 DEF Reply, exchangeVars
  <2>2. CASE reply[o] # "refused"
    <3>1. Finish(o, reply[o]) /\ reply[o] \in Status \cup {"raised"}
      BY <1>9, <2>2 DEF Reply, TypeOK
    <3>2. reply[o] \in Live => ran[o] # {}
      BY DEF Inv, RowInv, Truthful
    <3> QED BY <2>1, <3>1, <3>2, FinishReports DEF Maps
  <2>3. CASE reply[o] = "refused" /\ Market(o)
    BY <1>9, <2>1, <2>3, TryAgainMaps DEF Reply
  <2>4. CASE reply[o] = "refused" /\ ~Market(o)
    <3>1. Finish(o, "raised")
      BY <1>9, <2>4 DEF Reply
    <3> QED BY <2>1, <3>1, FinishReports DEF Maps, Live, Executed
  <2> QED BY <2>2, <2>3, <2>4
<1>10. CASE TimesOut(o)
  BY <1>10, TryAgainMaps DEF TimesOut
<1>11. CASE Arrives(o)
  BY <1>11, ArrivesMaps
<1> QED BY <1>2, <1>3, <1>4, <1>5, <1>6, <1>7, <1>8, <1>9, <1>10, <1>11 DEF Call

(* The client implements OrderPromise: at most one execution unless in     *)
(* doubt, and no success reported of an order that was not executed.       *)
THEOREM Refinement == Spec => KeepsPromise
<1>1. Init => Promise!Init
  BY DEF Init, Promise!Init, Told
<1>2. TypeOK /\ Inv /\ [Next]_vars => [Promise!Next]_(Promise!vars)
  <2> SUFFICES ASSUME TypeOK, Inv, [Next]_vars PROVE [Promise!Next]_(Promise!vars)
    OBVIOUS
  <2>1. ASSUME NEW o \in Order, Call(o) \/ Arrives(o) \/ Completes(o)
        PROVE  [Promise!Next]_(Promise!vars)
    <3>1. Maps(o)
      BY <2>1, CallMaps
    <3> QED BY <3>1 DEF Maps, Promise!Next, Promise!vars, ToldNow
  <2>2. CASE QuarantineEnds \/ UNCHANGED vars
    BY <2>2 DEF QuarantineEnds, vars, exchangeVars, Promise!vars
  <2> QED BY <2>1, <2>2 DEF Next
<1> QED BY <1>1, <1>2, Invariance, PTL DEF Spec, KeepsPromise, Promise!Spec
===============================================================================
