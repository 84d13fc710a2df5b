------------------------------ MODULE WorkQueue ------------------------------
(***************************************************************************)
(* What a deduplicating work set promises, whatever goroutines and         *)
(* channels it is built from: work that was put in stays until a worker    *)
(* has it in hand.  The service has two of them, events.Pending with its   *)
(* pump (Kafka triggers) and the requested groups of reconcile.Reconciler; *)
(* RunLoop shows that both implement this module.                          *)
(***************************************************************************)
CONSTANT Work            \* everything that can be asked for

VARIABLES
    waiting,             \* asked for, not yet taken
    inHand,              \* the batch the worker is busy with
    open                 \* FALSE once the service is shutting down

vars == <<waiting, inHand, open>>

Init ==
    /\ waiting = {}
    /\ inHand = {}
    /\ open = TRUE

\* Any number of callers ask, at any time; asking twice is asking once.
Put ==
    /\ \E S \in SUBSET Work : waiting' = waiting \cup S
    /\ UNCHANGED <<inHand, open>>

\* The worker takes a batch.  Whatever stops waiting is in the batch.
Take ==
    /\ inHand = {}
    /\ inHand' # {} /\ inHand' \subseteq waiting
    /\ waiting \ inHand' \subseteq waiting'
    /\ waiting' \subseteq waiting
    /\ UNCHANGED open

\* Work in hand is dealt with, or given up with a log line.
Finish ==
    /\ inHand' \in SUBSET inHand
    /\ UNCHANGED <<waiting, open>>

Close ==
    /\ open' = FALSE
    /\ UNCHANGED <<waiting, inHand>>

\* Only a closing queue may lose what nobody has taken.
Abandon ==
    /\ ~open
    /\ waiting' \in SUBSET waiting
    /\ UNCHANGED <<inHand, open>>

Next == Put \/ Take \/ Finish \/ Close \/ Abandon

Spec == Init /\ [][Next]_vars

=============================================================================
