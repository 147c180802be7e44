----------------------------- MODULE Lifecycle -----------------------------
(***************************************************************************)
(* One process of the service, from start to end (cmd/api/main.go): the    *)
(* stores it opens, the goroutines it starts, what main defers, and the    *)
(* shutdown on SIGTERM.  main takes Order from left to right when it       *)
(* starts and from right to left when it returns.                          *)
(*                                                                         *)
(* rocketmq.PushConsumer is external: its Shutdown is taken to accept no   *)
(* message more and to return when the handlers have, as main.go:159       *)
(* expects of it.  What is shown of messages at shutdown rests on that.    *)
(***************************************************************************)
EXTENDS Integers, Sequences

CONSTANT Requests       \* goroutines of the HTTP server

Stores  == {"mysql", "redis", "mq"}
Workers == {"pendingChecker", "timeoutCompensator", "deadReplayer",
            "txDispatcher", "txReplayer"}
Links   == {"tx", "timeout"}

(* Mistake: the consumer is started before the producer it sends with.     *)
OrderConsumerEarly ==
    <<"mysql", "redis", "consumer", "mq", "pendingChecker", "timeoutCompensator",
      "deadReplayer", "txDispatcher", "txReplayer">>

(* What main opens and starts, and defers the end of.                      *)
Order ==
    <<"mysql", "redis", "mq", "consumer", "pendingChecker", "timeoutCompensator",
      "deadReplayer", "txDispatcher", "txReplayer">>

(* The stores a scan of a worker uses.                                     *)
Uses(w) == CASE w = "pendingChecker" -> {"mysql", "redis"}
             [] w \in {"timeoutCompensator", "txDispatcher"} -> {"mysql", "mq"}
             [] w \in {"deadReplayer", "txReplayer"} -> {"mysql"}

VARIABLES
    main,      \* "starting", "serving", "draining", "unwinding", "exited"
    deferred,  \* how much of Order is opened, started and not ended by main
    exit,      \* how the process ended: "none", "clean", "forced"
    open,      \* stores that are open
    scan,      \* by worker: "none", "waiting", "scanning", "ended"
    stopCh,    \* by worker: how often stopCh has been closed; the second time panics
    starter,   \* what the goroutine that starts the consumers does next
    link,      \* by link: "none", "running", "shut"
    field,     \* links whose consumer is in its field of SeckillConsumer
    handling,  \* links with a message in a handler
    closing,   \* the link Close looks at next
    missed,    \* links whose field Close found nil
    serving    \* requests that are being served

process   == <<main, deferred, exit>>
workers   == <<scan, stopCh>>
consumers == <<starter, link, field, handling, closing, missed>>
vars      == <<process, open, workers, consumers, serving>>

Starter == {"none", "startTx", "setTx", "startTimeout", "setTimeout", "done", "failed"}

TypeOK ==
    /\ main \in {"starting", "serving", "draining", "unwinding", "exited"}
    /\ deferred \in 0 .. Len(Order)
    /\ exit \in {"none", "clean", "forced"}
    /\ open \subseteq Stores
    /\ scan \in [Workers -> {"none", "waiting", "scanning", "ended"}]
    /\ stopCh \in [Workers -> 0 .. 1]
    /\ starter \in Starter
    /\ link \in [Links -> {"none", "running", "shut"}]
    /\ field \subseteq Links
    /\ handling \subseteq Links
    /\ closing \in Links
    /\ missed \subseteq Links
    /\ serving \subseteq Requests

Init ==
    /\ main = "starting" /\ deferred = 0 /\ exit = "none"
    /\ open = {}
    /\ scan = [w \in Workers |-> "none"] /\ stopCh = [w \in Workers |-> 0]
    /\ starter = "none"
    /\ link = [l \in Links |-> "none"]
    /\ field = {} /\ handling = {} /\ closing = "tx" /\ missed = {}
    /\ serving = {}

Exit(how) == main' = "exited" /\ exit' = how /\ UNCHANGED deferred
Rest      == UNCHANGED <<open, workers, consumers, serving>>

(* What main ends next when it returns.                                    *)
Ending(x) == main = "unwinding" /\ deferred > 0 /\ Order[deferred] = x

Ended == deferred' = deferred - 1 /\ UNCHANGED <<main, exit>>

(* Close is inside Shutdown of link l.                                     *)
Shutting(l) == Ending("consumer") /\ closing = l /\ l \in field

-----------------------------------------------------------------------------
(* Start.                                                                  *)
Starting(x) ==
    /\ main = "starting"
    /\ deferred < Len(Order) /\ Order[deferred + 1] = x
    /\ deferred' = deferred + 1
    /\ UNCHANGED <<main, exit>>

(* initMySQL, initRedis, initMQ.                                           *)
OpenStore(s) ==
    /\ Starting(s)
    /\ open' = open \cup {s}
    /\ UNCHANGED <<workers, consumers, serving>>

(* A wrong configuration, or a store that does not answer: logger.Fatal.   *)
StartFails ==
    /\ main = "starting"
    /\ deferred < 3
    /\ Exit("forced")
    /\ Rest

(* NewSeckillConsumer, and the goroutine that calls Start.                 *)
LaunchConsumer ==
    /\ Starting("consumer")
    /\ starter' = "startTx"
    /\ UNCHANGED <<open, workers, link, field, handling, closing, missed, serving>>

(* Start of a cron worker: go run().                                       *)
StartWorker(w) ==
    /\ Starting(w)
    /\ scan' = [scan EXCEPT ![w] = "waiting"]
    /\ UNCHANGED <<open, stopCh, consumers, serving>>

(* Mistake: main waits until the consumers have been started.              *)
ListenAfterConsumer ==
    /\ main = "starting" /\ deferred = Len(Order)
    /\ starter \in {"done", "failed"}
    /\ main' = "serving"
    /\ UNCHANGED <<deferred, exit>>
    /\ Rest

(* SetupRouter, the goroutine that listens, and signal.Notify.             *)
Listen ==
    /\ main = "starting" /\ deferred = Len(Order)
    /\ main' = "serving"
    /\ UNCHANGED <<deferred, exit>>
    /\ Rest

(* ListenAndServe fails: logger.Fatal in its goroutine.                    *)
ListenFails ==
    /\ main = "serving"
    /\ Exit("forced")
    /\ Rest

-----------------------------------------------------------------------------
(* SeckillConsumer.Start, in its own goroutine: each link is started and   *)
(* then kept in its field.                                                 *)
LinkStarts(l, next) ==
    /\ link' = [link EXCEPT ![l] = "running"]
    /\ starter' = next
    /\ UNCHANGED <<process, open, workers, field, handling, closing, missed, serving>>

LinkSet(l, next) ==
    /\ field' = field \cup {l}
    /\ starter' = next
    /\ UNCHANGED <<process, open, workers, link, handling, closing, missed, serving>>

StartTxLink      == starter = "startTx" /\ LinkStarts("tx", "setTx")
SetTxLink        == starter = "setTx" /\ LinkSet("tx", "startTimeout")
StartTimeoutLink == starter = "startTimeout" /\ LinkStarts("timeout", "setTimeout")
SetTimeoutLink   == starter = "setTimeout" /\ LinkSet("timeout", "done")

(* Start returns an error, which is logged; nobody tries again.            *)
LinkStartFails ==
    /\ starter \in {"startTx", "startTimeout"}
    /\ starter' = "failed"
    /\ UNCHANGED <<process, open, workers, link, field, handling, closing, missed, serving>>

StartLinks == StartTxLink \/ SetTxLink \/ StartTimeoutLink \/ SetTimeoutLink

(* A message in its handler.                                               *)
ReceiveMessage(l) ==
    /\ link[l] = "running" /\ l \notin handling /\ ~Shutting(l)
    /\ handling' = handling \cup {l}
    /\ UNCHANGED <<process, open, workers, starter, link, field, closing, missed, serving>>

FinishMessage(l) ==
    /\ l \in handling
    /\ handling' = handling \ {l}
    /\ UNCHANGED <<process, open, workers, starter, link, field, closing, missed, serving>>

-----------------------------------------------------------------------------
(* run: the select takes a tick also when stopCh is closed.                *)
BeginScan(w) ==
    /\ scan[w] = "waiting"
    /\ scan' = [scan EXCEPT ![w] = "scanning"]
    /\ UNCHANGED <<process, open, stopCh, consumers, serving>>

EndScan(w) ==
    /\ scan[w] = "scanning"
    /\ scan' = [scan EXCEPT ![w] = "waiting"]
    /\ UNCHANGED <<process, open, stopCh, consumers, serving>>

Quit(w) ==
    /\ scan[w] = "waiting" /\ stopCh[w] > 0
    /\ scan' = [scan EXCEPT ![w] = "ended"]
    /\ UNCHANGED <<process, open, stopCh, consumers, serving>>

(* HTTP requests; one may hang in a call.                                  *)
Accept(r) ==
    /\ main = "serving" /\ r \notin serving
    /\ serving' = serving \cup {r}
    /\ UNCHANGED <<process, open, workers, consumers>>

Answer(r) ==
    /\ r \in serving
    /\ serving' = serving \ {r}
    /\ UNCHANGED <<process, open, workers, consumers>>

-----------------------------------------------------------------------------
(* SIGTERM.  Before signal.Notify it kills the process.                    *)
Terminate ==
    /\ \/ main = "starting" /\ Exit("forced")
       \/ main = "serving" /\ main' = "draining" /\ UNCHANGED <<deferred, exit>>
    /\ Rest

(* srv.Shutdown returns when the last request is answered.                 *)
ShutdownReturns ==
    /\ main = "draining" /\ serving = {}
    /\ main' = "unwinding"
    /\ UNCHANGED <<deferred, exit>>
    /\ Rest

(* Mistake: Shutdown without a deadline.                                   *)
ShutdownWaitsForEver ==
    /\ main = "draining" /\ serving = {}
    /\ Exit("forced")
    /\ Rest

(* Its five seconds are over: logger.Fatal, and no deferred call runs.     *)
ShutdownTimesOut ==
    /\ main = "draining" /\ serving # {}
    /\ Exit("forced")
    /\ Rest

(* Mistake: the deferred Stop of one worker is copied to the next one, and *)
(* still names the first.                                                  *)
StopWorkerCopied(w) ==
    /\ Ending(w) /\ Ended
    /\ stopCh' = [stopCh EXCEPT ![IF w = "txReplayer" THEN "txDispatcher" ELSE w] = @ + 1]
    /\ UNCHANGED <<open, scan, consumers, serving>>

(* Stop closes stopCh, without asking whether it is closed, and does not   *)
(* wait for the goroutine.                                                 *)
StopWorker(w) ==
    /\ Ending(w) /\ Ended
    /\ stopCh' = [stopCh EXCEPT ![w] = @ + 1]
    /\ UNCHANGED <<open, scan, consumers, serving>>

(* SeckillConsumer.Close: Shutdown of a link waits for its handler; a link *)
(* whose field is nil is passed over.                                      *)
CloseLink(l) ==
    /\ Ending("consumer") /\ closing = l
    /\ \/ Shutting(l) /\ l \notin handling
          /\ link' = [link EXCEPT ![l] = "shut"] /\ UNCHANGED missed
       \/ l \notin field
          /\ missed' = missed \cup {l} /\ UNCHANGED link
    /\ IF l = "tx" THEN closing' = "timeout" /\ UNCHANGED process
                   ELSE UNCHANGED closing /\ Ended
    /\ UNCHANGED <<open, workers, starter, field, handling, serving>>

(* Mistake: Close shuts the first link only.                               *)
CloseFirstLink(l) ==
    IF l = "tx" THEN CloseLink("tx")
    ELSE /\ Ending("consumer") /\ closing = l /\ Ended
         /\ UNCHANGED <<open, workers, consumers, serving>>

Close(l) == CloseLink(l)

(* mq.Close, redis.Close, CloseMySQL.                                      *)
CloseStore(s) ==
    /\ Ending(s) /\ Ended
    /\ open' = open \ {s}
    /\ UNCHANGED <<workers, consumers, serving>>

(* main returns: the goroutines that are left end with the process.        *)
Return ==
    /\ main = "unwinding" /\ deferred = 0
    /\ Exit("clean")
    /\ Rest

-----------------------------------------------------------------------------
MainStep ==
    \/ \E s \in Stores : OpenStore(s) \/ CloseStore(s)
    \/ \E w \in Workers : StartWorker(w) \/ StopWorker(w)
    \/ \E l \in Links : Close(l)
    \/ LaunchConsumer \/ Listen \/ ShutdownReturns \/ Return

Next ==
    /\ main # "exited"
    /\ \/ MainStep \/ StartFails \/ ListenFails \/ Terminate \/ ShutdownTimesOut
       \/ StartLinks \/ LinkStartFails
       \/ \E l \in Links : ReceiveMessage(l) \/ FinishMessage(l)
       \/ \E w \in Workers : BeginScan(w) \/ EndScan(w) \/ Quit(w)
       \/ \E r \in Requests : Accept(r) \/ Answer(r)

Spec == Init /\ [][Next]_vars

(* main goes on, the deadline of Shutdown comes, a message handler ends.   *)
(* Nothing is assumed of requests, scans and the start of the consumers.   *)
Fairness ==
    /\ WF_vars(MainStep)
    /\ WF_vars(ShutdownTimesOut)
    /\ \A l \in Links : WF_vars(main # "exited" /\ FinishMessage(l))

FairSpec == Spec /\ Fairness

-----------------------------------------------------------------------------
(* Whoever is at work has the stores the work needs, unless the process is *)
(* forced to end: a request MySQL and Redis, a message handler all of      *)
(* them, a scan those it uses until its worker is told to stop.  Not so    *)
(* the links that Close did not find, because they were being started.     *)
StoresOutliveUse ==
    main # "exited" =>
        /\ serving # {} => {"mysql", "redis"} \subseteq open
        /\ handling \ missed # {} => open = Stores
        /\ \A w \in Workers : stopCh[w] = 0 /\ scan[w] = "scanning" => Uses(w) \subseteq open

(* "消费者在优雅停机时需显式 Shutdown，确保正在处理的消息完成消费"             *)
(* (main.go:159): an orderly end cuts off no request, and no message of a  *)
(* link that had been started.                                             *)
CleanExitCutsNothing == exit = "clean" => serving = {} /\ handling \subseteq missed

(* Requests that hang do not keep the process from ending.                 *)
ShutdownEnds == main = "draining" ~> main = "exited"

(* "避免连接 NameServer 时阻塞主流程，导致 Web 服务无法启动" (main.go:163):      *)
(* the server listens however the start of the consumers goes.             *)
ServesWithoutConsumer == <>(main \in {"serving", "exited"})
=============================================================================
