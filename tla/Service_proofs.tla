---------------------------- MODULE Service_proofs ----------------------------
(***************************************************************************)
(* Proofs about the loop and the process around it, for any number of      *)
(* handlers, clients, triggers and groups.  Of RunLoop: no wakeup is lost, *)
(* and both queues implement WorkQueue.  Of Service: the process does      *)
(* nothing to the loop that RunLoop does not allow, so what is proved of   *)
(* RunLoop holds of the whole service; and what the exit code and the end  *)
(* of the process promise.                                                 *)
(***************************************************************************)
EXTENDS Service, TLAPS

-----------------------------------------------------------------------------
(* The loop                                                                 *)


(* Every variable has its type: the state of pkg/events/dirty.go and of    *)
(* the fields and goroutines of reconcile.Reconciler.                      *)
THEOREM TypeCorrect == Spec => []TypeOK
<1>1. Init => TypeOK
  BY DEF Init, TypeOK, PumpState, LoopState
<1>2. TypeOK /\ [Next]_vars => TypeOK'
  <2> SUFFICES ASSUME TypeOK, [Next]_vars PROVE TypeOK'
    OBVIOUS
  <2> USE DEF TypeOK, PumpState, LoopState, triggerVars, wishVars, pumpVars, loopVars
  <2>1. ASSUME NEW h \in Handler, Wake(h) PROVE TypeOK'
    BY <2>1 DEF Wake
  <2>2. ASSUME NEW h \in Handler, NEW t \in Trigger, Record(h, t) PROVE TypeOK'
    BY <2>2 DEF Record
  <2>3. ASSUME NEW c \in Client, Signal(c) \/ RequestAll(c) PROVE TypeOK'
    BY <2>3 DEF Signal, RequestAll
  <2>4. ASSUME NEW c \in Client, NEW p \in Path, RequestGroup(c, p) PROVE TypeOK'
    BY <2>4 DEF RequestGroup
  <2>5. CASE Cancel
    BY <2>5 DEF Cancel
  <2>6. CASE Pump
    BY <2>6 DEF Pump, PumpTake, PumpEmpty, PumpPark, PumpWoken, PumpStop
  <2>7. ASSUME NEW t \in Trigger, Resolve(t) PROVE TypeOK'
    BY <2>7 DEF Resolve, Ask
  <2>8. ASSUME NEW p \in Path, Pass(p) PROVE TypeOK'
    BY <2>8 DEF Pass
  <2>9. CASE BootDone \/ SafetyNetDone \/ Resolved \/ DrainTake
    BY <2>9 DEF BootDone, SafetyNetDone, Resolved, DrainTake
  <2>10. CASE PollDone
    BY <2>10 DEF PollDone, Ask
  <2>11. CASE FullDone \/ ListDone \/ ListFailed \/ PassDone
    BY <2>11 DEF FullDone, ListDone, ListFailed, PassDone
  <2>12. CASE Stop \/ SafetyNet \/ GroupPoll \/ Receive \/ Woken
    BY <2>12 DEF Stop, SafetyNet, GroupPoll, Receive, Woken
  <2>13. CASE UNCHANGED vars
    BY <2>13 DEF vars
  <2> QED
    BY <2>1, <2>2, <2>3, <2>4, <2>5, <2>6, <2>7, <2>8, <2>9, <2>10, <2>11, <2>12, <2>13
       DEF Next, Loop, Carry
<1> QED
  BY <1>1, <1>2, PTL DEF Spec

-----------------------------------------------------------------------------
(* The loop's local variables are empty outside the states that use them,  *)
(* and the pump offers only a batch that holds something.                  *)
LocalsInv ==
    /\ pump = "off" <=> loop = "boot"
    /\ carried # {} <=> pump = "send"
    /\ batch # {} => loop = "resolve"
    /\ paths # {} => loop \in {"full", "list", "pass"}

(* A wakeup is due for every wish, except where drain is about to look.    *)
SleepInv ==
    /\ PumpIsWoken
    /\ loop # "drain" /\ (requested # {} \/ all) => wake \/ \E c \in Client : asking[c]

LEMMA LocalsHold == Spec => []LocalsInv
<1>1. Init => LocalsInv
  BY DEF Init, LocalsInv
<1>2. TypeOK /\ LocalsInv /\ [Next]_vars => LocalsInv'
  <2> SUFFICES ASSUME TypeOK, LocalsInv, [Next]_vars PROVE LocalsInv'
    OBVIOUS
  <2> USE DEF LocalsInv, triggerVars, wishVars, pumpVars, loopVars
  <2>1. CASE \E h \in Handler : Wake(h) \/ \E t \in Trigger : Record(h, t)
    BY <2>1 DEF Wake, Record
  <2>2. CASE \E c \in Client : Signal(c) \/ RequestAll(c)
                                 \/ \E p \in Path : RequestGroup(c, p)
    BY <2>2 DEF Signal, RequestAll, RequestGroup
  <2>3. CASE Cancel \/ UNCHANGED vars
    BY <2>3 DEF Cancel, vars
  <2>4. CASE Pump
    BY <2>4 DEF Pump, PumpTake, PumpEmpty, PumpPark, PumpWoken, PumpStop
  <2>5. CASE \E t \in Trigger : Resolve(t)
    BY <2>5 DEF Resolve
  <2>6. CASE \E p \in Path : Pass(p)
    BY <2>6 DEF Pass
  <2>7. CASE BootDone
    BY <2>7 DEF BootDone
  <2>8. CASE SafetyNetDone \/ PollDone \/ Resolved \/ DrainTake
    BY <2>8 DEF SafetyNetDone, PollDone, Resolved, DrainTake
  <2>9. CASE FullDone \/ ListDone \/ ListFailed \/ PassDone
    BY <2>9 DEF FullDone, ListDone, ListFailed, PassDone
  <2>10. CASE Stop \/ SafetyNet \/ GroupPoll \/ Receive \/ Woken
    BY <2>10 DEF Stop, SafetyNet, GroupPoll, Receive, Woken
  <2> QED
    BY <2>1, <2>2, <2>3, <2>4, <2>5, <2>6, <2>7, <2>8, <2>9, <2>10
       DEF Next, Loop, Carry
<1> QED
  BY <1>1, <1>2, TypeCorrect, PTL DEF Spec

-----------------------------------------------------------------------------
(* No wakeup is lost: a pump that sleeps over a non-empty set and a loop   *)
(* that rests in its select over a wish have a token, or somebody about to *)
(* leave one (events.Pending.Add and Take, Reconciler.signal and Run).     *)
THEOREM NoLostWakeup == Spec => [](PumpIsWoken /\ LoopIsWoken)
<1>1. Init => SleepInv
  BY DEF Init, SleepInv, PumpIsWoken
<1>2. TypeOK /\ SleepInv /\ [Next]_vars => SleepInv'
  <2> SUFFICES ASSUME TypeOK, SleepInv, [Next]_vars PROVE SleepInv'
    OBVIOUS
  <2> USE DEF SleepInv, PumpIsWoken, triggerVars, wishVars, pumpVars, loopVars
  <2>1. ASSUME NEW h \in Handler, Wake(h) PROVE SleepInv'
    BY <2>1 DEF Wake, TypeOK
  <2>2. ASSUME NEW h \in Handler, NEW t \in Trigger, Record(h, t) PROVE SleepInv'
    <3>1. adding'[h]
      BY <2>2 DEF Record, TypeOK
    <3> QED
      BY <2>2, <3>1 DEF Record
  <2>3. ASSUME NEW c \in Client, Signal(c) PROVE SleepInv'
    BY <2>3 DEF Signal, TypeOK
  <2>4. ASSUME NEW c \in Client, RequestAll(c) \/ \E p \in Path : RequestGroup(c, p)
        PROVE SleepInv'
    <3>1. asking'[c]
      BY <2>4 DEF RequestAll, RequestGroup, TypeOK
    <3> QED
      BY <2>4, <3>1 DEF RequestAll, RequestGroup
  <2>5. CASE Cancel \/ UNCHANGED vars
    BY <2>5 DEF Cancel, vars
  <2>6. CASE Pump
    BY <2>6 DEF Pump, PumpTake, PumpEmpty, PumpPark, PumpWoken, PumpStop
  <2>7. ASSUME NEW t \in Trigger, Resolve(t) PROVE SleepInv'
    <3>1. CASE wake' = TRUE
      BY <2>7, <3>1 DEF Resolve
    <3>2. CASE Ask({})
      <4>1. wake' = wake /\ requested' = requested
        BY <3>2 DEF Ask, TypeOK
      <4>2. all' = all \/ wake' = TRUE
        BY <2>7 DEF Resolve
      <4> QED
        BY <2>7, <3>1, <4>1, <4>2 DEF Resolve
    <3>3. wake' = TRUE \/ Ask({})
      BY <2>7 DEF Resolve, Ask
    <3> QED
      BY <3>1, <3>2, <3>3
  <2>8. CASE \E p \in Path : Pass(p)
    BY <2>8 DEF Pass
  <2>9. CASE PollDone
    BY <2>9 DEF PollDone, Ask, TypeOK
  <2>10. CASE BootDone
    BY <2>10 DEF BootDone
  <2>11. CASE SafetyNetDone \/ Resolved \/ DrainTake
    BY <2>11 DEF SafetyNetDone, Resolved, DrainTake
  <2>12. CASE FullDone \/ ListDone \/ ListFailed \/ PassDone
    BY <2>12 DEF FullDone, ListDone, ListFailed, PassDone
  <2>13. CASE Stop \/ SafetyNet \/ GroupPoll
    BY <2>13 DEF Stop, SafetyNet, GroupPoll
  <2>14. CASE Receive \/ Woken
    BY <2>14 DEF Receive, Woken
  <2> QED
    BY <2>1, <2>2, <2>3, <2>4, <2>5, <2>6, <2>7, <2>8, <2>9, <2>10, <2>11, <2>12,
       <2>13, <2>14 DEF Next, Loop, Carry
<1>3. SleepInv => PumpIsWoken /\ LoopIsWoken
  BY DEF SleepInv, LoopIsWoken
<1> QED
  BY <1>1, <1>2, <1>3, TypeCorrect, PTL DEF Spec

(* The loop's half of it, for Reconciler.wake.                              *)
THEOREM LoopSleepsOverNothing == Spec => []LoopIsWoken
  BY NoLostWakeup, PTL

-----------------------------------------------------------------------------
(* From events.Pending.Add to reconcile.resolve, through set, pump and     *)
(* channel, no trigger is lost: every step is a step of a WorkQueue.       *)
THEOREM TriggersAreQueued == Spec => TriggerQueueSpec
<1> DEFINE waiting == pending \cup carried
<1> USE DEF TriggerQueue!vars
<1>1. Init => TriggerQueue!Init
  BY DEF Init, TriggerQueue!Init
<1>2. TypeOK /\ LocalsInv /\ [Next]_vars => [TriggerQueue!Next]_(TriggerQueue!vars)
  <2> SUFFICES ASSUME TypeOK, LocalsInv, [Next]_vars
               PROVE  TriggerQueue!Next \/ UNCHANGED <<waiting, batch, ~done>>
    OBVIOUS
  <2> USE DEF triggerVars, wishVars, pumpVars, loopVars
  <2>1. ASSUME NEW h \in Handler, NEW t \in Trigger, Record(h, t)
        PROVE TriggerQueue!Put
    <3>1. {t} \in SUBSET Trigger /\ waiting' = waiting \cup {t}
      BY <2>1 DEF Record
    <3> QED
      BY <2>1, <3>1 DEF Record, TriggerQueue!Put
  <2>2. CASE Cancel
    BY <2>2 DEF Cancel, TriggerQueue!Next, TriggerQueue!Close
  <2>3. CASE PumpTake
    BY <2>3 DEF PumpTake, LocalsInv
  <2>4. CASE PumpStop
    BY <2>4 DEF PumpStop, TriggerQueue!Next, TriggerQueue!Abandon
  <2>5. CASE PumpEmpty \/ PumpPark \/ PumpWoken
    BY <2>5 DEF PumpEmpty, PumpPark, PumpWoken
  <2>6. CASE Receive
    <3>1. batch = {} /\ carried # {}
      BY <2>6 DEF Receive, LocalsInv
    <3>2. batch' = carried /\ waiting' = pending /\ done' = done
      BY <2>6 DEF Receive
    <3>3. TriggerQueue!Take
      BY <3>1, <3>2 DEF TriggerQueue!Take
    <3> QED
      BY <3>3 DEF TriggerQueue!Next
  <2>7. ASSUME NEW t \in Trigger, Resolve(t) PROVE TriggerQueue!Finish
    BY <2>7 DEF Resolve, TriggerQueue!Finish
  <2>8. CASE Resolved
    BY <2>8 DEF Resolved, TriggerQueue!Next, TriggerQueue!Finish
  <2>9. CASE \E p \in Path : Pass(p)
    BY <2>9 DEF Pass
  <2>10. CASE BootDone \/ SafetyNetDone \/ PollDone \/ DrainTake
    BY <2>10 DEF BootDone, SafetyNetDone, PollDone, DrainTake
  <2>11. CASE FullDone \/ ListDone \/ ListFailed \/ PassDone
    BY <2>11 DEF FullDone, ListDone, ListFailed, PassDone
  <2>12. CASE Stop \/ SafetyNet \/ GroupPoll \/ Woken
    BY <2>12 DEF Stop, SafetyNet, GroupPoll, Woken
  <2>13. CASE \E h \in Handler : Wake(h)
    BY <2>13 DEF Wake
  <2>14. CASE \E c \in Client : Signal(c) \/ RequestAll(c)
                                  \/ \E p \in Path : RequestGroup(c, p)
    BY <2>14 DEF Signal, RequestAll, RequestGroup
  <2>15. CASE UNCHANGED vars
    BY <2>15 DEF vars
  <2> QED
    BY <2>1, <2>2, <2>3, <2>4, <2>5, <2>6, <2>7, <2>8, <2>9, <2>10, <2>11, <2>12,
       <2>13, <2>14, <2>15 DEF Next, Loop, Carry, Pump, TriggerQueue!Next
<1> QED
  BY <1>1, <1>2, TypeCorrect, LocalsHold, PTL DEF Spec, TriggerQueueSpec, TriggerQueue!Spec

(* From RequestGroup and RequestAll to drain, no wish is lost either.      *)
THEOREM WishesAreQueued == Spec => WishQueueSpec
<1> DEFINE wishes == requested \cup (IF all THEN {All} ELSE {})
           hand   == paths \cup (IF loop = "full" THEN {All} ELSE {})
<1> USE DEF WishQueue!vars
<1>1. Init => WishQueue!Init
  BY DEF Init, WishQueue!Init
<1>2. TypeOK /\ LocalsInv /\ [Next]_vars => [WishQueue!Next]_(WishQueue!vars)
  <2> SUFFICES ASSUME TypeOK, LocalsInv, [Next]_vars
               PROVE  WishQueue!Next \/ UNCHANGED <<wishes, hand, ~done>>
    OBVIOUS
  <2> USE DEF triggerVars, wishVars, pumpVars, loopVars
  <2>1. ASSUME NEW c \in Client, RequestAll(c) PROVE WishQueue!Put
    <3>1. {All} \in SUBSET (Path \cup {All}) /\ wishes' = wishes \cup {All}
      BY <2>1 DEF RequestAll
    <3> QED
      BY <2>1, <3>1 DEF RequestAll, WishQueue!Put
  <2>2. ASSUME NEW c \in Client, NEW p \in Path, RequestGroup(c, p)
        PROVE WishQueue!Put
    <3>1. {p} \in SUBSET (Path \cup {All}) /\ wishes' = wishes \cup {p}
      BY <2>2 DEF RequestGroup
    <3> QED
      BY <2>2, <3>1 DEF RequestGroup, WishQueue!Put
  <2>3. CASE Cancel
    BY <2>3 DEF Cancel, WishQueue!Next, WishQueue!Close
  <2>4. ASSUME NEW t \in Trigger, Resolve(t) PROVE WishQueue!Put
    <3>1. CASE \E S \in SUBSET Path : Ask(S) /\ UNCHANGED all
      <4>1. PICK S \in SUBSET Path : Ask(S) /\ UNCHANGED all
        BY <3>1
      <4>2. S \in SUBSET (Path \cup {All}) /\ wishes' = wishes \cup S
        BY <4>1 DEF Ask
      <4> QED
        BY <2>4, <4>2 DEF Resolve, WishQueue!Put
    <3>2. CASE all' = TRUE /\ UNCHANGED requested
      <4>1. {All} \in SUBSET (Path \cup {All}) /\ wishes' = wishes \cup {All}
        BY <3>2
      <4> QED
        BY <2>4, <4>1 DEF Resolve, WishQueue!Put
    <3> QED
      BY <2>4, <3>1, <3>2 DEF Resolve
  <2>5. CASE PollDone
    <3>1. PICK S \in SUBSET Path : Ask(S)
      BY <2>5 DEF PollDone
    <3>2. S \in SUBSET (Path \cup {All}) /\ wishes' = wishes \cup S
      BY <2>5, <3>1 DEF PollDone, Ask
    <3> QED
      BY <2>5, <3>2 DEF PollDone, WishQueue!Next, WishQueue!Put
  <2>6. CASE DrainTake
    <3>1. paths = {} /\ hand = {}
      BY <2>6 DEF DrainTake, LocalsInv
    <3>2. hand' = wishes /\ wishes' = {} /\ done' = done
      BY <2>6 DEF DrainTake
    <3>3. CASE wishes = {}
      BY <3>1, <3>2, <3>3
    <3>4. CASE wishes # {}
      <4>1. WishQueue!Take
        BY <3>1, <3>2, <3>4 DEF WishQueue!Take
      <4> QED
        BY <4>1 DEF WishQueue!Next
    <3> QED
      BY <3>3, <3>4
  <2>7. CASE FullDone \/ ListFailed \/ PassDone
    BY <2>7 DEF FullDone, ListFailed, PassDone, WishQueue!Next, WishQueue!Finish
  <2>8. ASSUME NEW p \in Path, Pass(p) PROVE WishQueue!Finish
    BY <2>8 DEF Pass, WishQueue!Finish
  <2>9. CASE BootDone \/ SafetyNetDone \/ Resolved \/ ListDone
    BY <2>9 DEF BootDone, SafetyNetDone, Resolved, ListDone
  <2>10. CASE Stop \/ SafetyNet \/ GroupPoll \/ Receive \/ Woken
    BY <2>10 DEF Stop, SafetyNet, GroupPoll, Receive, Woken
  <2>11. CASE Pump
    BY <2>11 DEF Pump, PumpTake, PumpEmpty, PumpPark, PumpWoken, PumpStop
  <2>12. CASE \E h \in Handler : Wake(h) \/ \E t \in Trigger : Record(h, t)
    BY <2>12 DEF Wake, Record
  <2>13. CASE \E c \in Client : Signal(c)
    BY <2>13 DEF Signal
  <2>14. CASE UNCHANGED vars
    BY <2>14 DEF vars
  <2> QED
    BY <2>1, <2>2, <2>3, <2>4, <2>5, <2>6, <2>7, <2>8, <2>9, <2>10, <2>11, <2>12,
       <2>13, <2>14 DEF Next, Loop, Carry, WishQueue!Next
<1> QED
  BY <1>1, <1>2, TypeCorrect, LocalsHold, PTL DEF Spec, WishQueueSpec, WishQueue!Spec

-----------------------------------------------------------------------------
(* The process                                                              *)


(* The service is a RunLoop: main, the consumers and the server decide when *)
(* things happen (run, events.Start) and add nothing to what can happen.    *)
THEOREM ServiceIsRunLoop == ServiceSpec => Spec
<1>1. ServiceInit => Init
  BY DEF ServiceInit
<1>2. [ServiceNext]_allVars => [Next]_vars
  <2> SUFFICES ASSUME [ServiceNext]_allVars PROVE Next \/ UNCHANGED vars
    OBVIOUS
  <2>1. CASE \E h \in Handler : Inner(Wake(h)) \/ \E t \in Trigger : Consume(h, t)
    BY <2>1 DEF Inner, Consume, Next
  <2>2. CASE \E h \in Handler : ConsumerFails(h) \/ ConsumerEnds(h)
    BY <2>2 DEF ConsumerFails, ConsumerEnds, ReportLoss, ConsumerStops
  <2>3. CASE \E c \in Client :
                Inner(Signal(c)) \/ PostAll(c) \/ \E p \in Path : PostGroup(c, p)
    BY <2>3 DEF Inner, PostAll, PostGroup, Next
  <2>4. CASE ServerFails \/ Sigterm
    BY <2>4 DEF ServerFails, Sigterm, Next
  <2>5. CASE Listen \/ ToldToStop \/ ShutdownReturns \/ Exit
    BY <2>5 DEF Listen, ToldToStop, ShutdownReturns, Exit
  <2>6. CASE FailureStops
    BY <2>6 DEF FailureStops, Next, Cancel, vars, triggerVars, wishVars, pumpVars, loopVars
  <2>7. CASE Inner(Pump) \/ Inner(Loop)
    BY <2>7 DEF Inner, Next
  <2>8. CASE UNCHANGED allVars
    BY <2>8 DEF allVars
  <2> QED
    BY <2>1, <2>2, <2>3, <2>4, <2>5, <2>6, <2>7, <2>8 DEF ServiceNext, Main
<1> QED
  BY <1>1, <1>2, PTL DEF ServiceSpec, Spec

(* So no wakeup is lost in the service either, whatever ends it. *)
THEOREM ServiceLosesNoWakeup == ServiceSpec => [](PumpIsWoken /\ LoopIsWoken)
  BY ServiceIsRunLoop, NoLostWakeup, PTL

-----------------------------------------------------------------------------
(* What cancels, and who may still be in a handler                          *)

\* A cancelled context has a reason, a loss under way has one, and run() leaves
\* its select for one.
CauseInv ==
    /\ done => sigterm \/ code = 1
    /\ \A h \in Handler : consumer[h] = "losing" => broken
    /\ consumerLost => broken
    /\ main \in {"shutdown", "join", "exited"} => done
    /\ code = 1 => server = "failed" \/ broken

\* Only a running consumer is in Add, and an exited process has joined.
JoinInv ==
    /\ \A h \in Handler : adding[h] => consumer[h] = "run"
    /\ main = "exited" => loop = "stopped" /\ \A h \in Handler : consumer[h] = "ended"

\* A RunLoop step of the service that is not a cancellation leaves done alone.
LEMMA InnerKeepsDone ==
  ASSUME \/ \E h \in Handler : Wake(h) \/ \E t \in Trigger : Record(h, t)
         \/ \E c \in Client : Signal(c) \/ RequestAll(c) \/ \E p \in Path : RequestGroup(c, p)
         \/ Pump \/ Loop
  PROVE  done' = done
  BY DEF Wake, Record, Signal, RequestAll, RequestGroup,
         Pump, PumpTake, PumpEmpty, PumpPark, PumpWoken, PumpStop,
         Loop, Carry, BootDone, SafetyNetDone, PollDone, Resolved, DrainTake, FullDone,
         ListDone, ListFailed, PassDone, Resolve, Pass, Stop, SafetyNet, GroupPoll,
         Receive, Woken

(* The state of run, of Consumers and of the channel between them has its   *)
(* type.                                                                    *)
THEOREM ServiceTypeCorrect == ServiceSpec => []ServiceTypeOK
<1>1. ServiceInit => ServiceTypeOK
  BY DEF ServiceInit, ServiceTypeOK, MainState, ConsumerState
<1>2. ServiceTypeOK /\ [ServiceNext]_allVars => ServiceTypeOK'
  <2> SUFFICES ASSUME ServiceTypeOK, [ServiceNext]_allVars PROVE ServiceTypeOK'
    OBVIOUS
  <2> USE DEF ServiceTypeOK, MainState, ConsumerState
  <2>1. ASSUME UNCHANGED serviceVars PROVE ServiceTypeOK'
    BY <2>1 DEF serviceVars, consumerVars
  <2>2. CASE \E h \in Handler : Inner(Wake(h)) \/ \E t \in Trigger : Consume(h, t)
    BY <2>1, <2>2 DEF Inner, Consume
  <2>3. ASSUME NEW h \in Handler, ConsumerFails(h) PROVE ServiceTypeOK'
    BY <2>3 DEF ConsumerFails
  <2>4. ASSUME NEW h \in Handler, ReportLoss(h) \/ ConsumerStops(h) PROVE ServiceTypeOK'
    BY <2>4 DEF ReportLoss, ConsumerStops
  <2>5. CASE \E c \in Client :
                Inner(Signal(c)) \/ PostAll(c) \/ \E p \in Path : PostGroup(c, p)
    BY <2>1, <2>5 DEF Inner, PostAll, PostGroup
  <2>6. CASE ServerFails \/ Sigterm
    BY <2>6 DEF ServerFails, Sigterm, consumerVars
  <2>7. CASE Listen \/ ToldToStop \/ ShutdownReturns \/ Exit
    BY <2>7 DEF Listen, ToldToStop, ShutdownReturns, Exit, consumerVars
  <2>8. CASE FailureStops
    BY <2>8 DEF FailureStops
  <2>9. CASE Inner(Pump) \/ Inner(Loop)
    BY <2>1, <2>9 DEF Inner
  <2>10. CASE UNCHANGED allVars
    BY <2>1, <2>10 DEF allVars
  <2> QED
    BY <2>2, <2>3, <2>4, <2>5, <2>6, <2>7, <2>8, <2>9, <2>10
       DEF ServiceNext, Main, ConsumerEnds
<1> QED
  BY <1>1, <1>2, PTL DEF ServiceSpec

-----------------------------------------------------------------------------
(* The end of the process                                                   *)

EndInv == CauseInv /\ JoinInv /\ LossReachesMain

LEMMA EndHolds == ServiceSpec => []EndInv
<1>1. ServiceInit => EndInv
  BY DEF ServiceInit, Init, EndInv, CauseInv, JoinInv, LossReachesMain
<1>2. TypeOK /\ ServiceTypeOK /\ EndInv /\ [ServiceNext]_allVars => EndInv'
  <2> SUFFICES ASSUME TypeOK, ServiceTypeOK, EndInv, [ServiceNext]_allVars PROVE EndInv'
    OBVIOUS
  <2> USE DEF EndInv, CauseInv, JoinInv, LossReachesMain, ServiceTypeOK,
              MainState, ConsumerState, serviceVars, consumerVars
  <2>1. ASSUME UNCHANGED serviceVars, done' = done, Running,
               \A h \in Handler : adding'[h] => consumer[h] = "run"
        PROVE  EndInv'
    BY <2>1 DEF Running
  <2>2. ASSUME NEW h \in Handler, NEW t \in Trigger, Consume(h, t) PROVE EndInv'
    <3>1. \A i \in Handler : adding'[i] => consumer[i] = "run"
      BY <2>2 DEF Consume, Inner, Record, TypeOK
    <3> QED  BY <2>1, <2>2, <3>1 DEF Consume, Inner, Record
  <2>3. ASSUME NEW h \in Handler, Inner(Wake(h)) PROVE EndInv'
    <3>1. \A i \in Handler : adding'[i] => consumer[i] = "run"
      BY <2>3 DEF Inner, Wake, TypeOK
    <3> QED  BY <2>1, <2>3, <3>1 DEF Inner, Wake
  <2>4. CASE \E c \in Client :
                Inner(Signal(c)) \/ PostAll(c) \/ \E p \in Path : PostGroup(c, p)
    <3>1. Running /\ UNCHANGED serviceVars /\ done' = done
      BY <2>4 DEF Inner, PostAll, PostGroup, Signal, RequestAll, RequestGroup
    <3>2. adding' = adding
      BY <2>4 DEF Inner, PostAll, PostGroup, Signal, RequestAll, RequestGroup, triggerVars
    <3> QED  BY <2>1, <3>1, <3>2
  <2>5. CASE Inner(Pump) \/ Inner(Loop)
    <3>1. Running /\ UNCHANGED serviceVars /\ done' = done
      BY <2>5, InnerKeepsDone DEF Inner
    <3>2. adding' = adding
      BY <2>5 DEF Inner, Pump, PumpTake, PumpEmpty, PumpPark, PumpWoken, PumpStop,
         Loop, Carry, BootDone, SafetyNetDone, PollDone, Resolved, DrainTake, FullDone,
         ListDone, ListFailed, PassDone, Resolve, Pass, Stop, SafetyNet, GroupPoll,
         Receive, Woken, triggerVars
    <3> QED  BY <2>1, <3>1, <3>2
  <2>6. ASSUME NEW h \in Handler, ConsumerFails(h) PROVE EndInv'
    BY <2>6 DEF ConsumerFails, Running, vars, triggerVars, loopVars
  <2>7. ASSUME NEW h \in Handler, ReportLoss(h) PROVE EndInv'
    BY <2>7 DEF ReportLoss, Running, vars, triggerVars, loopVars
  <2>8. ASSUME NEW h \in Handler, ConsumerStops(h) PROVE EndInv'
    BY <2>8 DEF ConsumerStops, Running, vars, triggerVars, loopVars
  <2>9. CASE ServerFails
    BY <2>9 DEF ServerFails, vars, triggerVars, loopVars
  <2>10. CASE Sigterm
    BY <2>10 DEF Sigterm, Cancel, Running, triggerVars, loopVars
  <2>11. CASE Listen \/ ToldToStop \/ ShutdownReturns
    BY <2>11 DEF Listen, ToldToStop, ShutdownReturns, vars, triggerVars, loopVars
  <2>12. CASE FailureStops
    BY <2>12 DEF FailureStops, triggerVars, loopVars
  <2>13. CASE Exit
    BY <2>13 DEF Exit, vars, triggerVars, loopVars
  <2>14. CASE UNCHANGED allVars
    BY <2>14 DEF allVars, vars, triggerVars, loopVars
  <2> QED
    BY <2>2, <2>3, <2>4, <2>5, <2>6, <2>7, <2>8, <2>9, <2>10, <2>11, <2>12, <2>13, <2>14
       DEF ServiceNext, Main, ConsumerEnds
<1> QED
  BY <1>1, <1>2, ServiceIsRunLoop, TypeCorrect, ServiceTypeCorrect, PTL DEF ServiceSpec

(* A consumer that is gone shows in Alive and is on its way to main, as     *)
(* long as nobody has cancelled (Consumers.libraryOnError).                 *)
THEOREM LossIsNeverHidden == ServiceSpec => []LossReachesMain
  BY EndHolds, PTL DEF EndInv

(* Zero means told to stop, non-zero that something failed (run).           *)
THEOREM ExitCodeHolds == ServiceSpec => []ExitCodeIsTrue
<1>1. ServiceTypeOK /\ EndInv => ExitCodeIsTrue
  BY DEF ServiceTypeOK, EndInv, CauseInv, ExitCodeIsTrue
<1> QED
  BY <1>1, EndHolds, ServiceTypeCorrect, PTL

(* The process does not leave in the middle of a pass or of a message       *)
(* (wg.Wait at the end of run).                                             *)
THEOREM NothingIsCutOff == ServiceSpec => []NothingCutOff
<1>1. EndInv /\ LocalsInv => NothingCutOff
  BY DEF EndInv, JoinInv, LocalsInv, NothingCutOff
<1> QED
  BY <1>1, EndHolds, LocalsHold, ServiceIsRunLoop, PTL

=============================================================================
