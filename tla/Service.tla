------------------------------- MODULE Service -------------------------------
(***************************************************************************)
(* The life of the process around the goroutines of RunLoop: main.go's run *)
(* after the configuration (start, select, shutdown, wg.Wait, exit code),  *)
(* the Kafka consumers with the way a lost one ends the process            *)
(* (pkg/events/events.go, libraryOnError), and the HTTP server whose       *)
(* closing is what lets the loop come to rest.  Every step of RunLoop is a *)
(* step here, as long as the process is there; what RunLoop leaves open,   *)
(* when the context is cancelled and who may still ask, is decided here.   *)
(***************************************************************************)
EXTENDS RunLoop, Integers

VARIABLES
    main,          \* where run() is
    code,          \* its exit code
    server,        \* the HTTP server; its failure waits in serverError for main
    consumer,      \* [Handler -> state of the consuming goroutine]
    alarm,         \* Consumers.lost
    consumerLost,  \* the channel consumerLost (capacity 1) holds a token
    sigterm,       \* history: the orchestrator has asked for the end
    broken         \* history: a consumer failed that nobody had cancelled

consumerVars == <<consumer, alarm, consumerLost>>
serviceVars  == <<main, code, server, consumerVars, sigterm, broken>>
allVars      == <<vars, serviceVars>>

MainState     == {"start", "select", "shutdown", "join", "exited"}
ConsumerState == {"run", "losing", "ended"}

\* run() and the consumers are where they can be; the rest are flags.
ServiceTypeOK ==
    /\ main \in MainState /\ code \in {0, 1}
    /\ server \in {"up", "failed"}
    /\ consumer \in [Handler -> ConsumerState]
    /\ alarm \in BOOLEAN /\ consumerLost \in BOOLEAN
    /\ sigterm \in BOOLEAN /\ broken \in BOOLEAN

\* The consumers run before the loop is started and before main listens.
ServiceInit ==
    /\ Init
    /\ main = "start" /\ code = 0 /\ server = "up"
    /\ consumer = [h \in Handler |-> "run"]
    /\ alarm = FALSE /\ consumerLost = FALSE
    /\ sigterm = FALSE /\ broken = FALSE

Running == main # "exited"

\* A step of the loop, the pump or a handler that run() has no part in.
Inner(A) == Running /\ A /\ UNCHANGED serviceVars

-----------------------------------------------------------------------------
(* The consumers *)

Consume(h, t) == consumer[h] = "run" /\ Inner(Record(h, t))

\* Mutant of ConsumerFails: the error is believed whatever the context says.
ConsumerFailsAlways(h) ==
    /\ Running /\ consumer[h] = "run" /\ ~adding[h]
    /\ consumer' = [consumer EXCEPT ![h] = "losing"]
    /\ broken' = (broken \/ ~done)
    /\ UNCHANGED <<vars, main, code, server, alarm, consumerLost, sigterm>>

\* A fetch or a commit fails: the library calls OnError and returns for good.
\* libraryOnError: after a cancellation the error means nothing.
ConsumerFails(h) ==
    /\ Running /\ consumer[h] = "run" /\ ~adding[h]
    /\ consumer' = [consumer EXCEPT ![h] = IF done THEN "ended" ELSE "losing"]
    /\ broken' = (broken \/ ~done)
    /\ UNCHANGED <<vars, main, code, server, alarm, consumerLost, sigterm>>

\* Mutant of ReportLoss: an unbuffered channel, and main not in its select yet.
ReportUnbuffered(h) ==
    /\ Running /\ consumer[h] = "losing"
    /\ consumer' = [consumer EXCEPT ![h] = "ended"]
    /\ alarm' = TRUE
    /\ consumerLost' = (consumerLost \/ main = "select")
    /\ UNCHANGED <<vars, main, code, server, sigterm, broken>>

\* The flag the status shows, the send that drops on a full slot, the end.
ReportLoss(h) ==
    /\ Running /\ consumer[h] = "losing"
    /\ consumer' = [consumer EXCEPT ![h] = "ended"]
    /\ alarm' = TRUE
    /\ consumerLost' = TRUE
    /\ UNCHANGED <<vars, main, code, server, sigterm, broken>>

\* The fetch returns with the context's error.
ConsumerStops(h) ==
    /\ Running /\ done /\ consumer[h] = "run" /\ ~adding[h]
    /\ consumer' = [consumer EXCEPT ![h] = "ended"]
    /\ UNCHANGED <<vars, main, code, server, alarm, consumerLost, sigterm, broken>>

ConsumerEnds(h) == ReportLoss(h) \/ ConsumerStops(h)

-----------------------------------------------------------------------------
(* The HTTP server and its requests *)

\* Requests are accepted from Listen to the beginning of Shutdown, and those
\* under way ask as long as Shutdown waits for them.
Serving == main \in {"select", "shutdown"}

PostGroup(c, p) == Serving /\ Inner(RequestGroup(c, p))

PostAll(c) == Serving /\ Inner(RequestAll(c))

\* ListenAndServe returns with an error that is not ErrServerClosed.
ServerFails ==
    /\ main = "select" /\ server = "up"
    /\ server' = "failed"
    /\ UNCHANGED <<vars, main, code, consumerVars, sigterm, broken>>

-----------------------------------------------------------------------------
(* run() *)

\* The context of signal.NotifyContext.
Sigterm ==
    /\ Running /\ Cancel
    /\ sigterm' = TRUE
    /\ UNCHANGED <<main, code, server, consumerVars, broken>>

\* The error branch after api.New is left out: that function has no way to fail.
Listen ==
    /\ main = "start"
    /\ main' = "select"
    /\ UNCHANGED <<vars, code, server, consumerVars, sigterm, broken>>

\* The select: told to stop, or one of the two failures, which cancel.
ToldToStop ==
    /\ main = "select" /\ done
    /\ main' = "shutdown"
    /\ UNCHANGED <<vars, code, server, consumerVars, sigterm, broken>>

\* Mutant of FailureStops: the failure is logged and the context left alone.
FailureOnlyLogged ==
    /\ main = "select"
    /\ \/ server = "failed" /\ UNCHANGED consumerLost
       \/ consumerLost /\ consumerLost' = FALSE
    /\ main' = "shutdown" /\ code' = 1
    /\ UNCHANGED <<vars, server, consumer, alarm, sigterm, broken>>

FailureStops ==
    /\ main = "select"
    /\ \/ server = "failed" /\ UNCHANGED consumerLost
       \/ consumerLost /\ consumerLost' = FALSE
    /\ main' = "shutdown" /\ code' = 1 /\ done' = TRUE
    /\ UNCHANGED <<triggerVars, wishVars, pumpVars, loopVars,
                   server, consumer, alarm, sigterm, broken>>

\* The listener is closed and no request left, or the ten seconds are over.
ShutdownReturns ==
    /\ main = "shutdown"
    /\ main' = "join"
    /\ UNCHANGED <<vars, code, server, consumerVars, sigterm, broken>>

\* Mutant of Exit: the loop is not counted by the wait group.
ExitUnjoined ==
    /\ main = "join"
    /\ \A h \in Handler : consumer[h] = "ended"
    /\ main' = "exited"
    /\ UNCHANGED <<vars, code, server, consumerVars, sigterm, broken>>

\* wg.Wait: the loop and the consumers are counted, the pump is not.
Exit ==
    /\ main = "join"
    /\ loop = "stopped"
    /\ \A h \in Handler : consumer[h] = "ended"
    /\ main' = "exited"
    /\ UNCHANGED <<vars, code, server, consumerVars, sigterm, broken>>

Main == Listen \/ ToldToStop \/ FailureStops \/ ShutdownReturns \/ Exit

-----------------------------------------------------------------------------

ServiceNext ==
    \/ \E h \in Handler :
          \/ Inner(Wake(h)) \/ \E t \in Trigger : Consume(h, t)
          \/ ConsumerFails(h) \/ ConsumerEnds(h)
    \/ \E c \in Client :
          Inner(Signal(c)) \/ PostAll(c) \/ \E p \in Path : PostGroup(c, p)
    \/ ServerFails \/ Sigterm
    \/ Main
    \/ Inner(Pump) \/ Inner(Loop)

ServiceSpec == ServiceInit /\ [][ServiceNext]_allVars

(***************************************************************************)
(* RunLoop's fairness, for as long as the process is there; run() itself   *)
(* is never held up for good (Shutdown has its ten seconds), and a         *)
(* consumer that has failed returns.  Every fetch looks at the context, so *)
(* a cancelled consumer stops in the end, however busy its topic is.       *)
(***************************************************************************)
ServiceFairness ==
    /\ \A h \in Handler : WF_allVars(Inner(Wake(h))) /\ SF_allVars(ConsumerEnds(h))
    /\ \A c \in Client : WF_allVars(Inner(Signal(c)))
    /\ WF_allVars(Inner(Pump)) /\ WF_allVars(Inner(Carry)) /\ WF_allVars(Main)
    /\ SF_allVars(Inner(PumpStop))
    /\ SF_allVars(Inner(Stop)) /\ SF_allVars(Inner(Receive)) /\ SF_allVars(Inner(Woken))

FairServiceSpec == ServiceSpec /\ ServiceFairness

-----------------------------------------------------------------------------
(* Properties *)

\* A consumer that has gone while the service is meant to run shows in the
\* status (Alive) and is on its way to main: "a dead consumer cannot hide
\* behind a service that reports itself healthy" (Consumers, libraryOnError).
LossReachesMain ==
    \A h \in Handler : consumer[h] = "ended" /\ ~done => alarm /\ consumerLost

\* The exit code tells the orchestrator what happened: zero only when told to
\* stop, non-zero only after the server failed, or a consumer that nobody had
\* cancelled.  An ordinary SIGTERM pages nobody, whatever the consumers report
\* on their way out (run, libraryOnError).
ExitCodeIsTrue ==
    /\ code = 1 => server = "failed" \/ broken
    /\ main = "exited" /\ code = 0 => sigterm

\* The process never leaves in the middle of anything: no graph is written and no
\* offset committed after run() has returned, because the loop has stopped with
\* nothing in hand and every consumer has ended (wg.Wait at the end of run).
NothingCutOff ==
    main = "exited" =>
        /\ loop = "stopped" /\ paths = {} /\ batch = {}
        /\ \A h \in Handler : consumer[h] = "ended" /\ ~adding[h]

\* Whatever ends the service, a signal, a dead server or a lost consumer, it
\* ends, even with callers who never pause: the closed listener is what lets
\* drain find nothing more to do (run, drain).
EndIsReached ==
    sigterm \/ alarm \/ server = "failed" \/ main = "shutdown" ~> main = "exited"

=============================================================================
