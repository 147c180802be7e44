--------------------------- MODULE LifecycleProofs ---------------------------
(***************************************************************************)
(* Who has which store while a process starts, serves and ends, for every  *)
(* number of requests.                                                     *)
(***************************************************************************)
EXTENDS Lifecycle, TLAPS

LEMMA OrderIs ==
    /\ Len(Order) = 9
    /\ Order[1] = "mysql" /\ Order[2] = "redis" /\ Order[3] = "mq" /\ Order[4] = "consumer"
    /\ Order[5] = "pendingChecker" /\ Order[6] = "timeoutCompensator"
    /\ Order[7] = "deadReplayer" /\ Order[8] = "txDispatcher" /\ Order[9] = "txReplayer"
BY DEF Order

LEMMA Positions ==
    ASSUME NEW i \in 1 .. 9
    PROVE  /\ Order[i] = "mysql" <=> i = 1
           /\ Order[i] = "redis" <=> i = 2
           /\ Order[i] = "mq" <=> i = 3
           /\ Order[i] = "consumer" <=> i = 4
           /\ Order[i] \in Workers <=> i >= 5
<1>1. i \in {1, 2, 3, 4, 5, 6, 7, 8, 9}
  OBVIOUS
<1>2. QED
  BY <1>1, OrderIs DEF Workers

LEMMA NoneTwice == \A i, j \in 1 .. 9 : Order[i] = Order[j] => i = j
<1>1. \A i, j \in {1, 2, 3, 4, 5, 6, 7, 8, 9} : Order[i] = Order[j] => i = j
  BY OrderIs
<1>2. \A i \in 1 .. 9 : i \in {1, 2, 3, 4, 5, 6, 7, 8, 9}
  OBVIOUS
<1>3. QED
  BY <1>1, <1>2

LEMMA WorkersAreInOrder == \A w \in Workers : \E i \in 5 .. 9 : Order[i] = w
BY OrderIs DEF Workers

-----------------------------------------------------------------------------
(* What main has opened and started is the beginning of Order.             *)
Phases ==
    /\ "mysql" \in open <=> deferred >= 1
    /\ "redis" \in open <=> deferred >= 2
    /\ "mq" \in open <=> deferred >= 3
    /\ main \in {"serving", "draining"} => deferred = 9
    /\ serving # {} => main \in {"serving", "draining", "exited"}
    /\ exit # "none" => main = "exited"
    /\ exit = "clean" => deferred = 0 /\ serving = {}

(* A worker that main has ended has been told so, once; one that it has    *)
(* not ended has not, and one it has not started does nothing.             *)
Told ==
    /\ main = "starting" =>
          \A i \in 5 .. 9 : i > deferred => scan[Order[i]] = "none" /\ stopCh[Order[i]] = 0
    /\ main = "unwinding" => \A i \in 5 .. 9 : i > deferred => stopCh[Order[i]] = 1
    /\ \A i \in 5 .. 9 : i <= deferred => stopCh[Order[i]] = 0

(* What Close has done with a link.                                        *)
Closed(l) ==
    /\ main = "unwinding" \/ exit = "clean"
    /\ deferred < 4 \/ (deferred = 4 /\ closing = "timeout" /\ l = "tx")

(* A link is kept after it has started, and shut only when it is kept; one *)
(* that Close has dealt with has no handler, or Close has missed it.       *)
LinksKept ==
    /\ main = "starting" /\ deferred < 4 => starter = "none"
    /\ starter \in {"none", "startTx"} => link["tx"] = "none"
    /\ starter \in {"none", "startTx", "setTx", "startTimeout"} => link["timeout"] = "none"
    /\ starter = "setTx" => link["tx"] # "none"
    /\ starter = "setTimeout" => link["timeout"] # "none"
    /\ \A l \in Links : /\ link[l] = "none" => l \notin handling
                        /\ link[l] = "shut" => l \in field
                        /\ l \in field => link[l] # "none"
                        /\ Closed(l) => l \in missed \/ (link[l] = "shut" /\ l \notin handling)
    /\ closing = "timeout" => main \in {"unwinding", "exited"} /\ deferred <= 4
    /\ closing = "tx" /\ (main = "unwinding" \/ exit = "clean") => deferred >= 4

IInv == TypeOK /\ Phases /\ Told /\ LinksKept

LEMMA InitIInv == Init => IInv
<1> SUFFICES ASSUME Init PROVE IInv
  OBVIOUS
<1>1. TypeOK
  BY OrderIs DEF Init, TypeOK, Starter, Stores, Links
<1>2. Told
  BY WorkersAreInOrder, OrderIs DEF Init, Told, Workers
<1>3. Phases /\ LinksKept
  BY DEF Init, Phases, LinksKept, Closed, Links
<1>4. QED
  BY <1>1, <1>2, <1>3 DEF IInv

-----------------------------------------------------------------------------
(* The steps main takes through Order.                                     *)
LEMMA StartingAt ==
    ASSUME TypeOK, NEW x, Starting(x)
    PROVE  /\ main = "starting" /\ UNCHANGED <<main, exit>>
           /\ deferred \in 0 .. 8 /\ deferred' = deferred + 1
           /\ Order[deferred + 1] = x
           /\ x = "mysql" <=> deferred = 0
           /\ x = "redis" <=> deferred = 1
           /\ x = "mq" <=> deferred = 2
           /\ x = "consumer" <=> deferred = 3
           /\ x \in Workers <=> deferred >= 4
<1>1. main = "starting" /\ deferred \in 0 .. 8 /\ Order[deferred + 1] = x
        /\ deferred' = deferred + 1 /\ UNCHANGED <<main, exit>>
  BY OrderIs DEF Starting, TypeOK
<1>2. deferred + 1 \in 1 .. 9
  BY <1>1
<1>3. QED
  BY <1>1, <1>2, Positions

LEMMA EndingAt ==
    ASSUME TypeOK, NEW x, Ending(x)
    PROVE  /\ main = "unwinding" /\ deferred \in 1 .. 9 /\ Order[deferred] = x
           /\ x = "mysql" <=> deferred = 1
           /\ x = "redis" <=> deferred = 2
           /\ x = "mq" <=> deferred = 3
           /\ x = "consumer" <=> deferred = 4
           /\ x \in Workers <=> deferred >= 5
<1>1. main = "unwinding" /\ deferred \in 1 .. 9 /\ Order[deferred] = x
  BY OrderIs DEF Ending, TypeOK
<1>2. QED
  BY <1>1, Positions

LEMMA StoreNames == Stores = {"mysql", "redis", "mq"} /\ Stores \cap Workers = {}
BY DEF Stores, Workers

-----------------------------------------------------------------------------
(* The types, action by action.                                            *)
LEMMA NextTypes == TypeOK /\ Told /\ [Next]_vars => TypeOK'
<1> SUFFICES ASSUME TypeOK, Told, [Next]_vars PROVE TypeOK'
  OBVIOUS
<1> USE OrderIs DEF TypeOK, process, workers, consumers, Rest, Exit
<1>1. ASSUME MainStep PROVE TypeOK'
  <2>1. ASSUME NEW s \in Stores, OpenStore(s) PROVE TypeOK'
    BY <2>1 DEF OpenStore, Starting
  <2>2. ASSUME NEW s \in Stores, CloseStore(s) PROVE TypeOK'
    <3>1. deferred' \in 0 .. Len(Order) /\ open' \subseteq Stores
      BY <2>2 DEF CloseStore, Ending, Ended
    <3>2. UNCHANGED <<main, exit, workers, consumers, serving>>
      BY <2>2 DEF CloseStore, Ended
    <3>3. QED
      BY <3>1, <3>2
  <2>3. ASSUME NEW w \in Workers, StartWorker(w) PROVE TypeOK'
    BY <2>3 DEF StartWorker, Starting
  <2>4. ASSUME NEW w \in Workers, StopWorker(w) PROVE TypeOK'
    <3>1. deferred \in 5 .. 9 /\ Order[deferred] = w
      BY <2>4, EndingAt DEF StopWorker
    <3>2. stopCh[w] = 0
      BY <3>1 DEF Told
    <3>3. stopCh' \in [Workers -> 0 .. 1]
      BY <2>4, <3>2 DEF StopWorker
    <3>4. deferred' \in 0 .. Len(Order)
      BY <2>4, <3>1 DEF StopWorker, Ended
    <3>5. UNCHANGED <<main, exit, open, scan, consumers, serving>>
      BY <2>4 DEF StopWorker, Ended
    <3>6. QED
      BY <3>3, <3>4, <3>5
  <2>5. ASSUME NEW l \in Links, Close(l) PROVE TypeOK'
    <3>1. /\ link' = link \/ link' = [link EXCEPT ![l] = "shut"]
          /\ missed' = missed \/ missed' = missed \cup {l}
          /\ closing' \in {"timeout", closing}
      BY <2>5 DEF Close, CloseLink
    <3>2. deferred' \in 0 .. Len(Order) /\ UNCHANGED <<main, exit>>
      BY <2>5 DEF Close, CloseLink, Ending, Ended
    <3>3. UNCHANGED <<open, workers, starter, field, handling, serving>>
      BY <2>5 DEF Close, CloseLink
    <3>4. "timeout" \in Links
      BY DEF Links
    <3>5. QED
      BY <3>1, <3>2, <3>3, <3>4
  <2>6. CASE LaunchConsumer
    BY <2>6 DEF LaunchConsumer, Starting, Starter
  <2>7. CASE Listen \/ ShutdownReturns \/ Return
    BY <2>7 DEF Listen, ShutdownReturns, Return
  <2>8. QED
    BY <1>1, <2>1, <2>2, <2>3, <2>4, <2>5, <2>6, <2>7 DEF MainStep
<1>2. CASE StartFails \/ ListenFails \/ Terminate \/ ShutdownTimesOut
  BY <1>2 DEF StartFails, ListenFails, Terminate, ShutdownTimesOut
<1>3. CASE StartLinks \/ LinkStartFails
  <2>1. ASSUME NEW l \in Links, NEW next \in Starter, LinkStarts(l, next) PROVE TypeOK'
    BY <2>1 DEF LinkStarts
  <2>2. ASSUME NEW l \in Links, NEW next \in Starter, LinkSet(l, next) PROVE TypeOK'
    BY <2>2 DEF LinkSet
  <2>3. CASE LinkStartFails
    BY <2>3 DEF LinkStartFails, Starter
  <2>4. /\ {"tx", "timeout"} \subseteq Links
        /\ {"setTx", "startTimeout", "setTimeout", "done"} \subseteq Starter
    BY DEF Links, Starter
  <2>5. CASE StartLinks
    <3>1. \E l \in Links, next \in Starter : LinkStarts(l, next) \/ LinkSet(l, next)
      BY <2>4, <2>5 DEF StartLinks, StartTxLink, SetTxLink, StartTimeoutLink, SetTimeoutLink
    <3>2. QED
      BY <2>1, <2>2, <3>1
  <2>6. QED
    BY <1>3, <2>3, <2>5
<1>4. ASSUME NEW l \in Links, ReceiveMessage(l) \/ FinishMessage(l) PROVE TypeOK'
  BY <1>4 DEF ReceiveMessage, FinishMessage
<1>5. ASSUME NEW w \in Workers, BeginScan(w) \/ EndScan(w) \/ Quit(w) PROVE TypeOK'
  BY <1>5 DEF BeginScan, EndScan, Quit
<1>6. ASSUME NEW r \in Requests, Accept(r) \/ Answer(r) PROVE TypeOK'
  BY <1>6 DEF Accept, Answer
<1>7. CASE UNCHANGED vars
  BY <1>7 DEF vars
<1>8. QED
  BY <1>1, <1>2, <1>3, <1>4, <1>5, <1>6, <1>7 DEF Next

-----------------------------------------------------------------------------
LEMMA NextPhases == IInv /\ [Next]_vars => Phases'
<1> SUFFICES ASSUME IInv, [Next]_vars PROVE Phases'
  OBVIOUS
<1> USE DEF Phases, process, workers, consumers, Rest, Exit
<1>1. TypeOK /\ Phases /\ deferred \in 0 .. 9
  BY OrderIs DEF IInv, TypeOK
<1>2. ASSUME NEW s \in Stores, OpenStore(s) PROVE Phases'
  <2>1. Starting(s) /\ open' = open \cup {s} /\ UNCHANGED serving
    BY <1>2 DEF OpenStore
  <2>2. QED
    BY <1>1, <2>1, StartingAt, StoreNames
<1>3. ASSUME NEW s \in Stores, CloseStore(s) PROVE Phases'
  <2>1. Ending(s) /\ Ended /\ open' = open \ {s} /\ UNCHANGED serving
    BY <1>3 DEF CloseStore
  <2>2. QED
    BY <1>1, <2>1, EndingAt, StoreNames DEF Ended
<1>4. ASSUME NEW x, Starting(x), x = "consumer" \/ x \in Workers, UNCHANGED <<open, serving>>
      PROVE  Phases'
  BY <1>1, <1>4, StartingAt
<1>5. ASSUME NEW x, Ending(x), x = "consumer" \/ x \in Workers,
             Ended \/ UNCHANGED process, UNCHANGED <<open, serving>>
      PROVE  Phases'
  BY <1>1, <1>5, EndingAt DEF Ended
<1>6. CASE MainStep
  <2>1. CASE LaunchConsumer
    BY <1>4, <2>1 DEF LaunchConsumer
  <2>2. ASSUME NEW w \in Workers, StartWorker(w) PROVE Phases'
    BY <1>4, <2>2 DEF StartWorker
  <2>3. ASSUME NEW w \in Workers, StopWorker(w) PROVE Phases'
    BY <1>5, <2>3 DEF StopWorker
  <2>4. ASSUME NEW l \in Links, Close(l) PROVE Phases'
    BY <1>5, <2>4 DEF Close, CloseLink
  <2>5. CASE Listen \/ ShutdownReturns \/ Return
    BY <1>1, <2>5, OrderIs DEF Listen, ShutdownReturns, Return
  <2>6. QED
    BY <1>2, <1>3, <1>6, <2>1, <2>2, <2>3, <2>4, <2>5 DEF MainStep
<1>7. CASE StartFails \/ ListenFails \/ Terminate \/ ShutdownTimesOut
  BY <1>1, <1>7 DEF StartFails, ListenFails, Terminate, ShutdownTimesOut
<1>8. ASSUME NEW r \in Requests, Accept(r) \/ Answer(r), main # "exited" PROVE Phases'
  BY <1>1, <1>8 DEF Accept, Answer
<1>9. CASE UNCHANGED <<process, open, serving>>
  BY <1>1, <1>9
<1>10. QED
  BY <1>6, <1>7, <1>8, <1>9
     DEF Next, StartLinks, StartTxLink, SetTxLink, StartTimeoutLink, SetTimeoutLink, LinkStarts,
         LinkSet, LinkStartFails, ReceiveMessage, FinishMessage, BeginScan, EndScan, Quit, vars

LEMMA NextTold == IInv /\ [Next]_vars => Told'
<1> SUFFICES ASSUME IInv, [Next]_vars PROVE Told'
  OBVIOUS
<1> USE DEF Told, process, workers, Rest, Exit
<1>1. TypeOK /\ Told /\ Phases /\ deferred \in 0 .. 9
  BY OrderIs DEF IInv, TypeOK
<1>2. ASSUME NEW x, Starting(x), UNCHANGED workers PROVE Told'
  BY <1>1, <1>2, StartingAt
<1>3. ASSUME NEW x, Ending(x), x \notin Workers, Ended \/ UNCHANGED process, UNCHANGED workers
      PROVE  Told'
  BY <1>1, <1>3, EndingAt DEF Ended
<1>4. ASSUME NEW w \in Workers, StartWorker(w) PROVE Told'
  <2>1. /\ main' = "starting" /\ deferred \in 0 .. 8 /\ deferred' = deferred + 1
        /\ Order[deferred + 1] = w /\ main = "starting"
    BY <1>1, <1>4, StartingAt DEF StartWorker
  <2>2. scan' = [scan EXCEPT ![w] = "waiting"]
    BY <1>4 DEF StartWorker
  <2>3. \A i \in 5 .. 9 : i > deferred + 1 => Order[i] # w
    <3>1. deferred + 1 \in 1 .. 9
      BY <2>1
    <3>2. QED
      BY <2>1, <3>1, NoneTwice
  <2>4. /\ scan \in [Workers -> {"none", "waiting", "scanning", "ended"}]
        /\ UNCHANGED stopCh
        /\ \A i \in 5 .. 9 : Order[i] \in Workers
    BY <1>1, <1>4, Positions DEF StartWorker, TypeOK
  <2>5. \A i \in 5 .. 9 : i > deferred + 1 => scan'[Order[i]] = scan[Order[i]]
    BY <2>2, <2>3, <2>4
  <2>6. \A i \in 5 .. 9 : stopCh[Order[i]] = 0
    BY <1>1, <2>1
  <2>7. QED
    BY <1>1, <2>1, <2>4, <2>5, <2>6
<1>5. ASSUME NEW w \in Workers, StopWorker(w) PROVE Told'
  <2>1. main = "unwinding" /\ deferred \in 1 .. 9 /\ Order[deferred] = w /\ Ended
    BY <1>1, <1>5, EndingAt DEF StopWorker
  <2>2. deferred \in 5 .. 9 /\ stopCh[w] = 0
    BY <1>1, <1>5, <2>1, EndingAt DEF StopWorker
  <2>3. stopCh' = [stopCh EXCEPT ![w] = @ + 1] /\ stopCh \in [Workers -> 0 .. 1]
    BY <1>1, <1>5 DEF StopWorker, TypeOK
  <2>4. \A i \in 5 .. 9 : Order[i] \in Workers /\ (Order[i] = w <=> i = deferred)
    BY <2>1, <2>2, NoneTwice, Positions
  <2>5. \A i \in 5 .. 9 : stopCh'[Order[i]] = IF i = deferred THEN 1 ELSE stopCh[Order[i]]
    BY <2>2, <2>3, <2>4
  <2>6. main' = "unwinding" /\ deferred' = deferred - 1
    BY <2>1 DEF Ended
  <2>7. QED
    BY <1>1, <2>1, <2>2, <2>5, <2>6
<1>6. ASSUME NEW w \in Workers, BeginScan(w) \/ EndScan(w) \/ Quit(w) PROVE Told'
  <2>1. UNCHANGED <<process, stopCh>> /\ scan[w] # "none"
    BY <1>6 DEF BeginScan, EndScan, Quit
  <2>2. \E x : scan' = [scan EXCEPT ![w] = x]
    BY <1>6 DEF BeginScan, EndScan, Quit
  <2>3. \A v \in Workers : scan[v] = "none" => scan'[v] = "none"
    BY <1>1, <2>1, <2>2 DEF TypeOK
  <2>4. deferred \in 0 .. 9 /\ \A i \in 5 .. 9 : Order[i] \in Workers
    BY <1>1, Positions
  <2>5. QED
    BY <1>1, <2>1, <2>3, <2>4
<1>7. CASE Listen \/ ShutdownReturns \/ Return
  BY <1>1, <1>7, OrderIs DEF Listen, ShutdownReturns, Return, Phases
<1>8. CASE StartFails \/ ListenFails \/ Terminate \/ ShutdownTimesOut
  BY <1>1, <1>8 DEF StartFails, ListenFails, Terminate, ShutdownTimesOut
<1>9. CASE MainStep
  <2>1. ASSUME NEW s \in Stores, OpenStore(s) PROVE Told'
    BY <1>2, <2>1 DEF OpenStore
  <2>2. ASSUME NEW s \in Stores, CloseStore(s) PROVE Told'
    BY <1>3, <2>2, StoreNames DEF CloseStore
  <2>3. CASE LaunchConsumer
    BY <1>2, <2>3 DEF LaunchConsumer
  <2>4. ASSUME NEW l \in Links, Close(l) PROVE Told'
    <3>1. "consumer" \notin Workers
      BY DEF Workers
    <3>2. QED
      BY <1>3, <2>4, <3>1 DEF Close, CloseLink
  <2>5. QED
    BY <1>4, <1>5, <1>7, <1>9, <2>1, <2>2, <2>3, <2>4 DEF MainStep
<1>10. CASE UNCHANGED <<process, workers>>
  BY <1>1, <1>10
<1>11. QED
  BY <1>6, <1>8, <1>9, <1>10
     DEF Next, StartLinks, StartTxLink, SetTxLink, StartTimeoutLink, SetTimeoutLink, LinkStarts,
         LinkSet, LinkStartFails, ReceiveMessage, FinishMessage, Accept, Answer, vars

-----------------------------------------------------------------------------
LEMMA NextLinksKept == IInv /\ [Next]_vars => LinksKept'
<1> SUFFICES ASSUME IInv, [Next]_vars PROVE LinksKept'
  OBVIOUS
<1> USE DEF process, workers, consumers, Rest, Exit
<1>1. TypeOK /\ LinksKept /\ Phases /\ deferred \in 0 .. 9
  BY OrderIs DEF IInv, TypeOK
<1>2. Links = {"tx", "timeout"}
  BY DEF Links
<1>3. ASSUME NEW x, Starting(x), x # "consumer", UNCHANGED consumers PROVE LinksKept'
  BY <1>1, <1>3, StartingAt DEF LinksKept, Closed, Phases
<1>4. CASE LaunchConsumer
  BY <1>1, <1>2, <1>4, StartingAt DEF LinksKept, Closed, Phases, LaunchConsumer
<1>5. ASSUME NEW x, Ending(x), x # "consumer", Ended, UNCHANGED consumers PROVE LinksKept'
  <2>1. /\ main = "unwinding" /\ main' = main /\ exit' = exit
        /\ deferred \in 1 .. 9 /\ deferred # 4 /\ deferred' = deferred - 1
    BY <1>1, <1>5, EndingAt DEF Ended
  <2>2. \A l \in Links : Closed(l)' => Closed(l)
    BY <1>1, <1>5, <2>1 DEF Closed, LinksKept
  <2>3. closing = "tx" => deferred >= 4
    BY <1>1, <2>1 DEF LinksKept
  <2>4. QED
    BY <1>1, <1>5, <2>1, <2>2, <2>3 DEF LinksKept
<1>6. ASSUME NEW l \in Links, Close(l) PROVE LinksKept'
  <2>1. /\ main = "unwinding" /\ deferred = 4 /\ closing = l
        /\ main' = main /\ exit' = exit
        /\ IF l = "tx" THEN closing' = "timeout" /\ deferred' = deferred
                       ELSE closing' = closing /\ deferred' = 3
        /\ UNCHANGED <<starter, field, handling>>
    BY <1>1, <1>6, EndingAt DEF Close, CloseLink, Ended
  <2>2. \/ /\ l \in field /\ l \notin handling
           /\ link' = [link EXCEPT ![l] = "shut"] /\ UNCHANGED missed
        \/ l \notin field /\ missed' = missed \cup {l} /\ UNCHANGED link
    BY <1>6 DEF Close, CloseLink, Shutting
  <2>3. \A k \in Links : Closed(k)' => k = l \/ Closed(k)
    BY <1>2, <2>1 DEF Closed
  <2>4. CASE l \in field
    BY <1>1, <1>2, <2>1, <2>2, <2>3, <2>4 DEF LinksKept, TypeOK
  <2>5. CASE l \notin field
    BY <1>1, <1>2, <2>1, <2>2, <2>3, <2>5 DEF LinksKept, TypeOK
  <2>6. QED
    BY <2>4, <2>5
<1>7. CASE Listen \/ ShutdownReturns \/ Return
  BY <1>1, <1>7, OrderIs DEF Listen, ShutdownReturns, Return, Phases, LinksKept, Closed
<1>8. CASE StartFails \/ ListenFails \/ Terminate \/ ShutdownTimesOut
  BY <1>1, <1>8 DEF StartFails, ListenFails, Terminate, ShutdownTimesOut, Phases, LinksKept, Closed
<1>9. CASE MainStep
  <2>1. \A s \in Stores \cup Workers : s # "consumer"
    BY DEF Stores, Workers
  <2>2. ASSUME NEW s \in Stores, OpenStore(s) \/ CloseStore(s) PROVE LinksKept'
    BY <1>3, <1>5, <2>1, <2>2 DEF OpenStore, CloseStore
  <2>3. ASSUME NEW w \in Workers, StartWorker(w) \/ StopWorker(w) PROVE LinksKept'
    BY <1>3, <1>5, <2>1, <2>3 DEF StartWorker, StopWorker
  <2>4. QED
    BY <1>4, <1>6, <1>7, <1>9, <2>2, <2>3 DEF MainStep
<1>10. ASSUME StartLinks \/ LinkStartFails, main # "exited" PROVE LinksKept'
  <2>1. UNCHANGED <<process, handling, closing, missed>>
    BY <1>10
       DEF StartLinks, StartTxLink, SetTxLink, StartTimeoutLink, SetTimeoutLink, LinkStarts, LinkSet,
           LinkStartFails
  <2>2. \A l \in Links : Closed(l)' = Closed(l)
    BY <2>1 DEF Closed
  <2>3. CASE StartTxLink
    BY <1>1, <1>2, <2>1, <2>2, <2>3 DEF StartTxLink, LinkStarts, LinksKept, TypeOK
  <2>4. CASE SetTxLink
    BY <1>1, <1>2, <2>1, <2>2, <2>4 DEF SetTxLink, LinkSet, LinksKept, TypeOK
  <2>5. CASE StartTimeoutLink
    BY <1>1, <1>2, <2>1, <2>2, <2>5 DEF StartTimeoutLink, LinkStarts, LinksKept, TypeOK
  <2>6. CASE SetTimeoutLink
    BY <1>1, <1>2, <2>1, <2>2, <2>6 DEF SetTimeoutLink, LinkSet, LinksKept, TypeOK
  <2>7. CASE LinkStartFails
    BY <1>1, <1>2, <2>1, <2>2, <2>7 DEF LinkStartFails, LinksKept, TypeOK
  <2>8. QED
    BY <1>10, <2>3, <2>4, <2>5, <2>6, <2>7 DEF StartLinks
<1>11. ASSUME NEW l \in Links, ReceiveMessage(l) \/ FinishMessage(l) PROVE LinksKept'
  <2>1. UNCHANGED <<process, starter, link, field, closing, missed>>
    BY <1>11 DEF ReceiveMessage, FinishMessage
  <2>2. \A k \in Links : Closed(k)' = Closed(k)
    BY <2>1 DEF Closed
  <2>3. \A k \in Links : k \in handling' => k \in handling \/ link[k] = "running"
    BY <1>11 DEF ReceiveMessage, FinishMessage
  <2>4. QED
    BY <1>1, <2>1, <2>2, <2>3 DEF LinksKept
<1>12. CASE UNCHANGED <<process, consumers>>
  <2>1. \A l \in Links : Closed(l)' = Closed(l)
    BY <1>12 DEF Closed
  <2>2. QED
    BY <1>1, <1>12, <2>1 DEF LinksKept
<1>13. QED
  BY <1>8, <1>9, <1>10, <1>11, <1>12
     DEF Next, BeginScan, EndScan, Quit, Accept, Answer, vars

-----------------------------------------------------------------------------
(* All of it is inductive.                                                 *)
LEMMA Inductive == Spec => []IInv
<1>1. IInv /\ [Next]_vars => IInv'
  BY NextTypes, NextPhases, NextTold, NextLinksKept DEF IInv
<1>2. QED
  BY <1>1, InitIInv, PTL DEF Spec

(* The types hold in every reachable state; none of the channels that tell *)
(* the workers to stop is closed twice.                                    *)
THEOREM LifecycleTypes == Spec => []TypeOK
<1>1. IInv => TypeOK
  BY DEF IInv
<1>2. QED
  BY <1>1, Inductive, PTL

(* Whoever is at work has the stores the work needs.                       *)
THEOREM StoresAreThere == Spec => []StoresOutliveUse
<1>1. ASSUME IInv, main # "exited" PROVE StoresOutliveUse
  <2>1. TypeOK /\ Phases /\ Told /\ LinksKept /\ deferred \in 0 .. 9
    BY <1>1, OrderIs DEF IInv, TypeOK
  <2>2. deferred >= 3 => open = Stores
    <3> SUFFICES ASSUME deferred >= 3 PROVE open = Stores
      OBVIOUS
    <3>1. {"mysql", "redis", "mq"} \subseteq open /\ open \subseteq Stores
      BY <2>1 DEF TypeOK, Phases
    <3>2. QED
      BY <3>1, StoreNames
  <2>3. ASSUME serving # {} PROVE {"mysql", "redis"} \subseteq open
    BY <1>1, <2>1, <2>3 DEF Phases
  <2>4. ASSUME NEW l \in handling \ missed PROVE open = Stores
    <3>1. deferred >= 3
      BY <1>1, <2>1, <2>4 DEF TypeOK, Phases, LinksKept, Closed, Links
    <3>2. QED
      BY <2>1, <2>2, <3>1
  <2>5. ASSUME NEW w \in Workers, stopCh[w] = 0, scan[w] = "scanning" PROVE Uses(w) \subseteq open
    <3>1. PICK i \in 5 .. 9 : Order[i] = w
      BY WorkersAreInOrder
    <3>2. deferred >= 5
      BY <1>1, <2>1, <2>5, <3>1 DEF TypeOK, Phases, Told
    <3>3. open = Stores
      BY <2>1, <2>2, <3>2
    <3>4. Uses(w) \subseteq Stores
      BY DEF Uses, Workers, Stores
    <3>5. QED
      BY <3>3, <3>4
  <2>6. QED
    BY <2>3, <2>4, <2>5 DEF StoresOutliveUse
<1>2. IInv => StoresOutliveUse
  BY <1>1 DEF StoresOutliveUse
<1>3. QED
  BY <1>2, Inductive, PTL

(* An orderly end cuts off no request, and no message of a link that had   *)
(* been started.                                                           *)
THEOREM NothingIsCutOff == Spec => []CleanExitCutsNothing
<1>1. IInv => CleanExitCutsNothing
  BY DEF IInv, TypeOK, Phases, LinksKept, Closed, CleanExitCutsNothing
<1>2. QED
  BY <1>1, Inductive, PTL
=============================================================================
