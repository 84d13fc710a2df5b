------------------------------- MODULE RunLoop -------------------------------
(***************************************************************************)
(* The concurrency of the service: Kafka handlers that record triggers     *)
(* (pkg/events/dirty.go), HTTP handlers that record wishes about groups,   *)
(* the pump goroutine and the one loop that does the work (pkg/reconcile,  *)
(* Run).  What a pass does to a graph is Reconcile's subject; here a pass  *)
(* is a stretch of time in which everybody else goes on.                   *)
(*                                                                         *)
(* Two wakeup channels of capacity one (pendingWake, wake) are modelled as *)
(* a flag each: a send that finds the slot taken is dropped.               *)
(***************************************************************************)
EXTENDS FiniteSets

CONSTANTS
    Handler,      \* goroutines of the Kafka consumers
    Client,       \* goroutines of the HTTP server
    Trigger,      \* (kind, id) pairs
    Path,         \* group paths
    All           \* the wish for a full pass

ASSUME AllIsNoPath == All \notin Path

VARIABLES
    pending,      \* events.Pending.set
    pendingWake,  \* events.Pending.wake holds a token
    adding,       \* [Handler -> BOOLEAN]: in Add, between unlock and the send
    requested,    \* Reconciler.requested
    all,          \* Reconciler.all
    wake,         \* Reconciler.wake holds a token
    asking,       \* [Client -> BOOLEAN]: in RequestX, before signal()
    pump,         \* where the pump goroutine is
    carried,      \* the batch the pump wants to hand over
    loop,         \* where the loop goroutine is
    batch,        \* triggers resolve still has to look at
    paths,        \* group paths drain has taken
    done          \* ctx is cancelled

triggerVars == <<pending, pendingWake, adding>>
wishVars    == <<requested, all, wake, asking>>
pumpVars    == <<pump, carried>>
loopVars    == <<loop, batch, paths>>
vars == <<triggerVars, wishVars, pumpVars, loopVars, done>>

PumpState == {"off", "check", "empty", "wait", "send", "closed"}
LoopState == {"boot", "select", "net", "poll", "resolve",
              "drain", "full", "list", "pass", "stopped"}

\* Every set holds what it is for: in particular the wish for everything is a
\* flag of its own and never an entry of requested (Reconciler.all).
TypeOK ==
    /\ pending \in SUBSET Trigger /\ pendingWake \in BOOLEAN
    /\ adding \in [Handler -> BOOLEAN]
    /\ requested \in SUBSET Path /\ all \in BOOLEAN /\ wake \in BOOLEAN
    /\ asking \in [Client -> BOOLEAN]
    /\ pump \in PumpState /\ carried \in SUBSET Trigger
    /\ loop \in LoopState
    /\ batch \in SUBSET Trigger /\ paths \in SUBSET Path
    /\ done \in BOOLEAN

Init ==
    /\ pending = {} /\ pendingWake = FALSE
    /\ adding = [h \in Handler |-> FALSE]
    /\ requested = {} /\ all = FALSE /\ wake = FALSE
    /\ asking = [c \in Client |-> FALSE]
    /\ pump = "off" /\ carried = {}
    /\ loop = "boot" /\ batch = {} /\ paths = {}
    /\ done = FALSE

-----------------------------------------------------------------------------
(* Kafka handlers: Pending.Add *)

Record(h, t) ==
    /\ ~adding[h]
    /\ pending' = pending \cup {t}
    /\ adding' = [adding EXCEPT ![h] = TRUE]
    /\ UNCHANGED <<pendingWake, wishVars, pumpVars, loopVars, done>>

\* Mutant of Wake: an unbuffered channel, a send nobody waits for is lost.
WakeUnbuffered(h) ==
    /\ adding[h]
    /\ pendingWake' = (pendingWake \/ pump = "wait")
    /\ adding' = [adding EXCEPT ![h] = FALSE]
    /\ UNCHANGED <<pending, wishVars, pumpVars, loopVars, done>>

Wake(h) ==
    /\ adding[h]
    /\ pendingWake' = TRUE
    /\ adding' = [adding EXCEPT ![h] = FALSE]
    /\ UNCHANGED <<pending, wishVars, pumpVars, loopVars, done>>

(* HTTP handlers: RequestGroup, RequestAll and signal *)

RequestGroup(c, p) ==
    /\ ~asking[c]
    /\ requested' = requested \cup {p}
    /\ asking' = [asking EXCEPT ![c] = TRUE]
    /\ UNCHANGED <<all, wake, triggerVars, pumpVars, loopVars, done>>

RequestAll(c) ==
    /\ ~asking[c]
    /\ all' = TRUE
    /\ asking' = [asking EXCEPT ![c] = TRUE]
    /\ UNCHANGED <<requested, wake, triggerVars, pumpVars, loopVars, done>>

\* Mutant of Signal: an unbuffered channel again.
SignalUnbuffered(c) ==
    /\ asking[c]
    /\ wake' = (wake \/ loop = "select")
    /\ asking' = [asking EXCEPT ![c] = FALSE]
    /\ UNCHANGED <<requested, all, triggerVars, pumpVars, loopVars, done>>

Signal(c) ==
    /\ asking[c]
    /\ wake' = TRUE
    /\ asking' = [asking EXCEPT ![c] = FALSE]
    /\ UNCHANGED <<requested, all, triggerVars, pumpVars, loopVars, done>>

Cancel ==
    /\ ~done
    /\ done' = TRUE
    /\ UNCHANGED <<triggerVars, wishVars, pumpVars, loopVars>>

-----------------------------------------------------------------------------
(* The pump goroutine: Pending.Take in a loop, and the handover *)

PumpTake ==
    /\ pump = "check" /\ pending # {}
    /\ carried' = pending
    /\ pending' = {}
    /\ pump' = "send"
    /\ UNCHANGED <<pendingWake, adding, wishVars, loopVars, done>>

\* Nothing there: the lock is released first, the select entered after it.
PumpEmpty ==
    /\ pump = "check" /\ pending = {}
    /\ pump' = "empty"
    /\ UNCHANGED <<carried, triggerVars, wishVars, loopVars, done>>

PumpPark ==
    /\ pump = "empty"
    /\ pump' = "wait"
    /\ UNCHANGED <<carried, triggerVars, wishVars, loopVars, done>>

PumpWoken ==
    /\ pump = "wait" /\ pendingWake
    /\ pendingWake' = FALSE
    /\ pump' = "check"
    /\ UNCHANGED <<pending, adding, carried, wishVars, loopVars, done>>

\* Mutant of PumpStop: the handover is tried and not waited for.
PumpGivesUp ==
    /\ pump = "send"
    /\ pump' = "check"
    /\ carried' = {}
    /\ UNCHANGED <<triggerVars, wishVars, loopVars, done>>

\* Mutant of PumpStop: the cancellation is seen in Take, not at the handover.
PumpStopInTake ==
    /\ done /\ pump = "wait"
    /\ pump' = "closed"
    /\ carried' = {}
    /\ UNCHANGED <<triggerVars, wishVars, loopVars, done>>

\* ctx is done while Take waits or while the batch finds no receiver.
PumpStop ==
    /\ done /\ pump \in {"wait", "send"}
    /\ pump' = "closed"
    /\ carried' = {}
    /\ UNCHANGED <<triggerVars, wishVars, loopVars, done>>

Pump == PumpTake \/ PumpEmpty \/ PumpPark \/ PumpWoken \/ PumpStop

-----------------------------------------------------------------------------
(* The loop goroutine: Run *)

\* The initial full pass is over, well or badly; only now is the pump started.
BootDone ==
    /\ loop = "boot"
    /\ loop' = "select"
    /\ pump' = "check"
    /\ UNCHANGED <<carried, batch, paths, triggerVars, wishVars, done>>

Stop ==
    /\ loop = "select"
    /\ done \/ pump = "closed"
    /\ loop' = "stopped"
    /\ UNCHANGED <<batch, paths, triggerVars, wishVars, pumpVars, done>>

\* A ticker fires.
SafetyNet ==
    /\ loop = "select"
    /\ loop' = "net"
    /\ UNCHANGED <<batch, paths, triggerVars, wishVars, pumpVars, done>>

GroupPoll ==
    /\ loop = "select"
    /\ loop' = "poll"
    /\ UNCHANGED <<batch, paths, triggerVars, wishVars, pumpVars, done>>

SafetyNetDone ==
    /\ loop = "net"
    /\ loop' = "select"
    /\ UNCHANGED <<batch, paths, triggerVars, wishVars, pumpVars, done>>

\* The loop asks itself: a wish, or several, and the wakeup that goes with it.
Ask(S) ==
    /\ requested' = requested \cup S
    /\ wake' = (wake \/ S # {})

\* What moved in the group tree is asked for; on an error nothing is.
PollDone ==
    /\ loop = "poll"
    /\ \E S \in SUBSET Path : Ask(S)
    /\ loop' = "select"
    /\ UNCHANGED <<all, asking, batch, paths, triggerVars, pumpVars, done>>

\* The unbuffered channel: pump and loop meet.
Receive ==
    /\ loop = "select" /\ pump = "send"
    /\ batch' = carried
    /\ carried' = {}
    /\ pump' = "check"
    /\ loop' = "resolve"
    /\ UNCHANGED <<paths, triggerVars, wishVars, done>>

\* One trigger: groups to look at, none on an error, or everything for a
\* graph that is gone.
Resolve(t) ==
    /\ loop = "resolve" /\ t \in batch /\ ~done
    /\ \/ /\ \E S \in SUBSET Path : Ask(S)
          /\ UNCHANGED all
       \/ /\ all' = TRUE
          /\ wake' = TRUE
          /\ UNCHANGED requested
    /\ batch' = batch \ {t}
    /\ UNCHANGED <<asking, loop, paths, triggerVars, pumpVars, done>>

Resolved ==
    /\ loop = "resolve"
    /\ batch = {} \/ done
    /\ batch' = {}
    /\ loop' = "drain"
    /\ UNCHANGED <<paths, triggerVars, wishVars, pumpVars, done>>

Woken ==
    /\ loop = "select" /\ wake
    /\ wake' = FALSE
    /\ loop' = "drain"
    /\ UNCHANGED <<requested, all, asking, batch, paths, triggerVars, pumpVars, done>>

\* drain takes every wish at once; a full pass swallows the single groups.
DrainTake ==
    /\ loop = "drain"
    /\ paths' = requested
    /\ requested' = {}
    /\ all' = FALSE
    /\ loop' = IF all THEN "full" ELSE IF requested = {} THEN "select" ELSE "list"
    /\ UNCHANGED <<wake, asking, batch, triggerVars, pumpVars, done>>

\* Mutant of FullDone: a full pass clears the wishes when it ends, not when it
\* begins.
FullDoneClears ==
    /\ loop = "full"
    /\ paths' = {}
    /\ requested' = {}
    /\ loop' = "drain"
    /\ UNCHANGED <<batch, all, wake, asking, triggerVars, pumpVars, done>>

FullDone ==
    /\ loop = "full"
    /\ paths' = {}
    /\ loop' = "drain"
    /\ UNCHANGED <<batch, triggerVars, wishVars, pumpVars, done>>

ListDone ==
    /\ loop = "list"
    /\ loop' = "pass"
    /\ UNCHANGED <<batch, paths, triggerVars, wishVars, pumpVars, done>>

\* The default graphs cannot be listed: drain returns, and what it took is gone.
ListFailed ==
    /\ loop = "list"
    /\ loop' = "select"
    /\ paths' = {}
    /\ UNCHANGED <<batch, triggerVars, wishVars, pumpVars, done>>

Pass(p) ==
    /\ loop = "pass" /\ p \in paths /\ ~done
    /\ paths' = paths \ {p}
    /\ UNCHANGED <<loop, batch, triggerVars, wishVars, pumpVars, done>>

\* Every group is through: look again.  A cancelled context leaves drain.
PassDone ==
    /\ loop = "pass"
    /\ paths = {} \/ done
    /\ loop' = IF paths = {} THEN "drain" ELSE "select"
    /\ paths' = {}
    /\ UNCHANGED <<batch, triggerVars, wishVars, pumpVars, done>>

\* The steps that end something the loop is in the middle of.
Carry ==
    \/ BootDone \/ SafetyNetDone \/ PollDone \/ Resolved \/ DrainTake
    \/ FullDone \/ ListDone \/ ListFailed \/ PassDone
    \/ \E t \in Trigger : Resolve(t)
    \/ \E p \in Path : Pass(p)

Loop == Carry \/ Stop \/ SafetyNet \/ GroupPoll \/ Receive \/ Woken

Next ==
    \/ \E h \in Handler : Wake(h) \/ \E t \in Trigger : Record(h, t)
    \/ \E c \in Client : Signal(c) \/ RequestAll(c) \/ \E p \in Path : RequestGroup(c, p)
    \/ Cancel
    \/ Pump
    \/ Loop

Spec == Init /\ [][Next]_vars

(***************************************************************************)
(* Goroutines that can run do run, and every foreign call returns (all of  *)
(* them carry ctx or a client timeout).  Go's select picks uniformly among *)
(* the ready cases, so a case that is ready again and again is picked in   *)
(* the end whatever the tickers do: strong fairness for its cases.  No     *)
(* fairness for tickers, handlers' arrivals or the cancellation.           *)
(***************************************************************************)
Fairness ==
    /\ \A h \in Handler : WF_vars(Wake(h))
    /\ \A c \in Client : WF_vars(Signal(c))
    /\ WF_vars(Pump) /\ WF_vars(Carry)
    /\ SF_vars(PumpStop)
    /\ SF_vars(Stop) /\ SF_vars(Receive) /\ SF_vars(Woken)

FairSpec == Spec /\ Fairness

-----------------------------------------------------------------------------
(* Properties *)

\* No lost wakeup in Pending: whoever sleeps in Take over a non-empty set has
\* a token waiting, or a handler that is about to leave one (Add, Take).
PumpIsWoken ==
    pump \in {"empty", "wait"} /\ pending # {} =>
        pendingWake \/ \E h \in Handler : adding[h]

\* The same for the loop and Reconciler.wake (RequestAll, RequestGroup,
\* signal): the loop rests in its select over a wish only with a wakeup due.
LoopIsWoken ==
    loop = "select" /\ (requested # {} \/ all) =>
        wake \/ \E c \in Client : asking[c]

\* The triggers' way from Add to resolve is a WorkQueue: nothing that was
\* added is lost on its way through the set, the pump and the channel.
TriggerQueue == INSTANCE WorkQueue WITH
    Work <- Trigger, waiting <- pending \cup carried, inHand <- batch, open <- ~done
TriggerQueueSpec == TriggerQueue!Spec

\* The wishes' way from RequestX to drain is one too: a full pass takes the
\* single groups with it, and nothing asked for meanwhile is swept away.
WishQueue == INSTANCE WorkQueue WITH
    Work <- Path \cup {All},
    waiting <- requested \cup (IF all THEN {All} ELSE {}),
    inHand <- paths \cup (IF loop = "full" THEN {All} ELSE {}),
    open <- ~done
WishQueueSpec == WishQueue!Spec

\* HTTP callers pause sooner or later.  Needed below: drain looks again after
\* every pass, so wishes arriving faster than passes end keep it from returning
\* to the select, where triggers and the cancellation are seen.
CallersPause == <>[](\A c \in Client : ~asking[c])

\* Every trigger a handler recorded reaches resolve, without help from the
\* safety net, unless the service is told to stop.
EveryTriggerIsResolved ==
    CallersPause => \A t \in Trigger : t \in pending ~> t \in batch \/ done

\* Every wish is taken up by drain: in a pass of its own or in a full one.
EveryWishIsTaken ==
    /\ \A p \in Path : p \in requested ~> p \in paths \/ done
    /\ all ~> loop = "full" \/ done

\* A cancelled context ends the loop and the pump, wherever they are.
CancelStopsAll == CallersPause => (done ~> loop = "stopped" /\ pump = "closed")

=============================================================================
