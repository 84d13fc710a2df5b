------------------------------- MODULE Structure -------------------------------
(***************************************************************************)
(* The structure heuristic, pkg/structure: how meter readings become a     *)
(* tree.  Build places the devices of a group one after the other, the     *)
(* largest reading of each carrier first; Attach later adds single devices *)
(* to the stored graph and Detach takes them out.  One step is one         *)
(* iteration of Build's loops, or one call of Attach or Detach.  A graph   *)
(* is built over the readings of one window; every later pass that         *)
(* attaches a device brings the readings of a window of its own.           *)
(*                                                                         *)
(* Figures are integers and the tolerance is in percent: the comparisons   *)
(* are exact, where the code compares rounded floating-point numbers.      *)
(* Graphs are the ones this package made: every node has one parent.       *)
(***************************************************************************)
EXTENDS Integers, FiniteSets, Functions

CONSTANTS
    Device,          \* device ids, in their order
    Carrier,         \* carriers, in the order of model.Carriers
    Prefix,          \* Prefix[d, e]: what the names of two devices share
    Collecting,      \* a name for the no-flow collector is configured
    Root, NoFlow,    \* the two nodes that are no devices
    None,            \* no carrier; the parent of a device not in the graph
    InitialSetting,  \* what to build from: readings, devices, and a configured
                     \* tolerance in percent
    LaterReading     \* the readings that later windows may show

ASSUME DeviceAssumption     == Device \subseteq Int /\ IsFiniteSet(Device)
ASSUME CarrierAssumption    == Carrier \subseteq Int
ASSUME PrefixAssumption     == Prefix \in [Device \X Device -> Nat]
ASSUME CollectingAssumption == Collecting \in BOOLEAN
ASSUME NodeAssumption       == /\ Root # NoFlow /\ Root # None /\ NoFlow # None
                               /\ {Root, NoFlow, None} \cap Device = {}
                               /\ None \notin Carrier
\* A device reads the carriers its type has columns for.  A column without a
\* figure counts as zero: neither zero nor less says anything here.
ASSUME ReadingAssumption    ==
    \A r \in {s.reading : s \in InitialSetting} \cup LaterReading : \A d \in Device :
        /\ DOMAIN r[d] \subseteq Carrier
        /\ \A c \in DOMAIN r[d] : r[d][c] \in Int
ASSUME MembersAssumption    == \A s \in InitialSetting : s.members \subseteq Device
ASSUME ToleranceAssumption  == \A s \in InitialSetting : s.tolerance \in Int

Reading == {s.reading : s \in InitialSetting} \cup LaterReading

VARIABLES
    reading,    \* of the window: [Device -> [its carriers -> figure]]
    tolerance,  \* Options.tolerance()
    members,    \* the devices Build was called with
    phase,      \* "build" or "built"
    parentOf,   \* [Device -> node it hangs under, None if it is not in]
    collector,  \* the graph has the no-flow node
    remaining,  \* Build: what a device measured that no child explains
    depth       \* Build: levels below the root

vars == <<reading, tolerance, members, phase, parentOf, collector, remaining, depth>>

Zero == [d \in Device |-> 0]

Clamp(t) == IF t < 0 THEN 0 ELSE IF t > 100 THEN 100 ELSE t

Init ==
    /\ \E s \in InitialSetting :
          /\ reading = s.reading /\ members = s.members
          /\ tolerance = Clamp(s.tolerance)
    /\ phase = "build"
    /\ parentOf = [d \in Device |-> None]
    /\ collector = FALSE
    /\ remaining = Zero /\ depth = Zero

-----------------------------------------------------------------------------
(* Readings *)

HasEnergyFlow(d) == DOMAIN reading[d] # {}

\* The carrier a device read most of, the first of them in a tie; none if it
\* is not more than zero.
Leading(d) ==
    {c \in DOMAIN reading[d] :
        /\ reading[d][c] > 0
        /\ \A k \in DOMAIN reading[d] :
              reading[d][c] > reading[d][k] \/ (reading[d][c] = reading[d][k] /\ c <= k)}

PrimaryCarrier(d) == IF Leading(d) = {} THEN None ELSE CHOOSE c \in Leading(d) : TRUE
Value(d) == IF Leading(d) = {} THEN 0 ELSE reading[d][PrimaryCarrier(d)]
Reads(d) == PrimaryCarrier(d) # None

InGraph(d) == parentOf[d] # None

-----------------------------------------------------------------------------
(* Build *)

\* The order of place: descending by reading, then by id.
Before(d, e) == Value(d) > Value(e) \/ (Value(d) = Value(e) /\ d < e)

Unplaced == {d \in members : ~InGraph(d)}

\* Mutant of Placed: every meter is a candidate, whatever it meters.
PlacedAny(c) == {d \in Device : InGraph(d) /\ Reads(d)}

Placed(c) == {d \in Device : InGraph(d) /\ PrimaryCarrier(d) = c}

\* What a meter has left is noise beside its own reading.
Explained(left, value) == 100 * left < value * tolerance

\* Mutant of Fits: what just fits does not.
FitsLoosely(left, value, d) ==
    ~Explained(left, value) /\ 100 * left > Value(d) * (100 - tolerance)

\* Mutant of Fits: the whole reading is compared, not what is left of it.
FitsWhole(left, value, d) ==
    ~Explained(left, value) /\ 100 * value >= Value(d) * (100 - tolerance)

Fits(left, value, d) ==
    ~Explained(left, value) /\ 100 * left >= Value(d) * (100 - tolerance)

Eligible(d) == {p \in Placed(PrimaryCarrier(d)) : Fits(remaining[p], Value(p), d)}

\* p is the better parent for d than q.
Shallower(p, q, d) ==
    \/ depth[p] < depth[q]
    \/ depth[p] = depth[q] /\ remaining[p] > remaining[q]
    \/ depth[p] = depth[q] /\ remaining[p] = remaining[q] /\ Prefix[p, d] > Prefix[q, d]
    \/ depth[p] = depth[q] /\ remaining[p] = remaining[q] /\ Prefix[p, d] = Prefix[q, d] /\ p < q

Best(d) == {p \in Eligible(d) : \A q \in Eligible(d) \ {p} : Shallower(p, q, d)}

\* Mutant of PlaceUnread: the collector is pointed at and never made.
PlaceUnreadUnmade(d) ==
    /\ phase = "build" /\ d \in Unplaced /\ ~Reads(d)
    /\ parentOf' = [parentOf EXCEPT ![d] = IF ~HasEnergyFlow(d) /\ Collecting THEN NoFlow ELSE Root]
    /\ UNCHANGED <<collector, reading, tolerance, members, phase, remaining, depth>>

\* Nothing is concluded about a device without a usable figure.
PlaceUnread(d) ==
    /\ phase = "build" /\ d \in Unplaced /\ ~Reads(d)
    /\ LET collected == ~HasEnergyFlow(d) /\ Collecting IN
       /\ parentOf' = [parentOf EXCEPT ![d] = IF collected THEN NoFlow ELSE Root]
       /\ collector' = (collector \/ collected)
    /\ UNCHANGED <<reading, tolerance, members, phase, remaining, depth>>

\* It is this device's turn among those of its carrier.  The carriers share no
\* state, so they may take turns in any order.
Due(d) ==
    /\ phase = "build" /\ d \in Unplaced /\ Reads(d)
    /\ \A e \in Unplaced \ {d} : PrimaryCarrier(e) = PrimaryCarrier(d) => Before(d, e)

PlaceAtRoot(d) ==
    /\ Due(d) /\ Eligible(d) = {}
    /\ parentOf' = [parentOf EXCEPT ![d] = Root]
    /\ remaining' = [remaining EXCEPT ![d] = Value(d)]
    /\ depth' = [depth EXCEPT ![d] = 1]
    /\ UNCHANGED <<reading, tolerance, members, phase, collector>>

PlaceUnder(d) ==
    /\ Due(d)
    /\ \E p \in Best(d) :
          /\ parentOf' = [parentOf EXCEPT ![d] = p]
          /\ remaining' = [remaining EXCEPT ![p] = @ - Value(d), ![d] = Value(d)]
          /\ depth' = [depth EXCEPT ![d] = depth[p] + 1]
    /\ UNCHANGED <<reading, tolerance, members, phase, collector>>

\* The graph is handed over; what place kept per device goes with its frame.
Built ==
    /\ phase = "build" /\ Unplaced = {}
    /\ phase' = "built"
    /\ remaining' = Zero /\ depth' = Zero
    /\ UNCHANGED <<reading, tolerance, members, parentOf, collector>>

-----------------------------------------------------------------------------
(* Attach and Detach, on the graph alone *)

Children(n) == {d \in Device : parentOf[d] = n}

\* What the children of a node read of one carrier.
ChildSum(n, c) ==
    SumFunctionOnSet([k \in Device |-> IF c \in DOMAIN reading[k] THEN reading[k][c] ELSE 0],
                     Children(n))

\* Mutant of Left: the children that are already there are not counted.
LeftWhole(p) == Value(p)

Left(p) == Value(p) - ChildSum(p, PrimaryCarrier(p))

\* Found again by walking up; only a device has a device above it.
DepthOf ==
    LET f[d \in Device] == IF parentOf[d] \in Device THEN 1 + f[parentOf[d]] ELSE 1 IN f

Candidates(d) == {p \in Placed(PrimaryCarrier(d)) : Fits(Left(p), Value(p), d)}

\* Mutant of BestExisting: the roomiest, whatever its depth.
RoomiestExisting(d) ==
    {p \in Candidates(d) : \A q \in Candidates(d) \ {p} :
        Left(p) > Left(q) \/ (Left(p) = Left(q) /\ p < q)}

\* Attach sees no names: the last tie goes to the id.
BestExisting(d) ==
    {p \in Candidates(d) : \A q \in Candidates(d) \ {p} :
        \/ DepthOf[p] < DepthOf[q]
        \/ DepthOf[p] = DepthOf[q] /\ Left(p) > Left(q)
        \/ DepthOf[p] = DepthOf[q] /\ Left(p) = Left(q) /\ p < q}

\* Where Attach would hang d.  It joins a collector and never makes one.
AttachTo(d) ==
    IF Reads(d)
    THEN IF BestExisting(d) = {} THEN {Root} ELSE BestExisting(d)
    ELSE IF ~HasEnergyFlow(d) /\ collector THEN {NoFlow} ELSE {Root}

Attach(d) ==
    /\ phase = "built" /\ ~InGraph(d)
    /\ \E p \in AttachTo(d) : parentOf' = [parentOf EXCEPT ![d] = p]
    /\ UNCHANGED <<reading, tolerance, members, phase, collector, remaining, depth>>

\* The graph model reroutes the children of a deleted node to its parent.
Detach(d) ==
    /\ phase = "built" /\ InGraph(d)
    /\ parentOf' = [e \in Device |-> IF e = d THEN None
                                     ELSE IF parentOf[e] = d THEN parentOf[d] ELSE parentOf[e]]
    /\ UNCHANGED <<reading, tolerance, members, phase, collector, remaining, depth>>

\* A later pass: other figures, of other carriers, or none.
NewWindow ==
    /\ phase = "built"
    /\ reading' \in LaterReading
    /\ UNCHANGED <<tolerance, members, phase, parentOf, collector, remaining, depth>>

-----------------------------------------------------------------------------
Work ==
    \/ \E d \in Device : PlaceUnread(d) \/ PlaceAtRoot(d) \/ PlaceUnder(d)
    \/ Built
    \/ \E d \in Device : Attach(d) \/ Detach(d)

Next == Work \/ NewWindow

Spec == Init /\ [][Next]_vars

-----------------------------------------------------------------------------
(* Properties *)

\* Meters hang under meters of their own carrier only.
Unmixed ==
    \A d \in Device : parentOf[d] \in Device => PrimaryCarrier(parentOf[d]) = PrimaryCarrier(d)

\* The tolerance the tests are made with lies in the range they are defined on,
\* whatever was configured (Options.tolerance), and the tree is over devices.
TypeOK ==
    /\ tolerance \in 0..100
    /\ members \subseteq Device
    /\ phase \in {"build", "built"}
    /\ parentOf \in [Device -> Device \cup {Root, NoFlow, None}]
    /\ collector \in BOOLEAN
    /\ remaining \in [Device -> Int] /\ depth \in [Device -> Nat]

\* In a generated graph one meter of each carrier sits at the root, the largest:
\* every further one finds a parent, because the one placed before it has its
\* whole reading left (the consequence shallower's comment draws).
OneMeterAtRoot ==
    phase = "build" =>
        \A d, e \in Device :
            /\ Reads(d) /\ parentOf[d] = Root
            /\ InGraph(e) /\ PrimaryCarrier(e) = PrimaryCarrier(d) /\ e # d
            => Before(d, e) /\ parentOf[e] \in Device

\* What the children of a meter read is within the meter and the tolerance.
Fitting ==
    \A p \in Device : InGraph(p) /\ Reads(p) =>
        100 * ChildSum(p, PrimaryCarrier(p)) <= (100 + tolerance) * Value(p)

\* The children of a meter never read more than the meter and the tolerance
\* together, over any number of children and levels of a generated graph (place).
Contained == phase = "build" => Fitting

\* Without a tolerance only a new window overloads a meter: devices that come find
\* room among what is already there, and those that go leave to the meter above
\* no more than they took from it (bestExistingParent, Detach).
OnlyWindowsOverload ==
    [][reading' = reading /\ tolerance = 0 /\ Unmixed /\ Fitting => Fitting']_vars

\* The bookkeeping behind it: a remainder is overdrawn by the tolerance at most.
NotOverdrawn ==
    phase = "build" =>
        \A p \in Device : InGraph(p) /\ Reads(p) =>
            100 * remaining[p] >= 0 - tolerance * Value(p)

\* Only a new window mixes a branch: as long as the carriers stay, no meter is
\* placed, attached or rerouted to another carrier's meter.  A device of two
\* carriers whose larger one changes stays where it is.
OneCarrierPerBranch == [][reading' = reading /\ Unmixed => Unmixed']_vars

\* Every edge ends at a node of the graph, or the repository refuses it all.
EdgesEnd ==
    \A d \in Device :
        /\ parentOf[d] \in Device => InGraph(parentOf[d])
        /\ parentOf[d] = NoFlow => collector

\* Build and Attach answer one case the same way: the device that is due would
\* be attached to what is built so far at the same depth, under as much room.
AttachAgrees ==
    \A d \in Device : Due(d) =>
        /\ Best(d) = {} <=> BestExisting(d) = {}
        /\ \A p \in Best(d), q \in BestExisting(d) :
              depth[p] = depth[q] /\ remaining[p] = remaining[q]

=============================================================================
