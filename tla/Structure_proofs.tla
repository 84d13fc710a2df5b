--------------------------- MODULE Structure_proofs ---------------------------
(***************************************************************************)
(* What the generated tree promises, for every set of devices, every       *)
(* reading and every tolerance.  The sums of the children are a fold over  *)
(* a set that changes with every step: what a remainder has to do with     *)
(* them is TallyInv, and the lemmas about such sums are Counting_proofs.   *)
(***************************************************************************)
EXTENDS Structure, Counting_proofs

-----------------------------------------------------------------------------
(* Arithmetic of the capacity test *)

LEMMA ClampInRange == \A t \in Int : Clamp(t) \in 0..100
  BY DEF Clamp

\* A meter with its whole reading left has room for every smaller one.
LEMMA WholeFits ==
  ASSUME NEW v \in Int, NEW w \in Int, NEW t \in 0..100, v > 0, w > 0, w <= v
  PROVE  ~(100 * v < v * t) /\ 100 * v >= w * (100 - t)
  <1>1. v * t <= v * 100
    BY Z3
  <1>2. w * (100 - t) <= w * 100
    BY Z3
  <1> QED  BY <1>1, <1>2, Z3

\* A smaller reading's tolerance is the smaller one.
LEMMA ToleranceGrows ==
  ASSUME NEW v \in Int, NEW w \in Int, NEW t \in 0..100, w <= v
  PROVE  w * t <= v * t
  BY Z3

\* Taking a child that fits overdraws a meter by the tolerance at most.
LEMMA FittingOverdrawsLittle ==
  ASSUME NEW r \in Int, NEW v \in Int, NEW w \in Int, NEW t \in 0..100,
         w <= v, 100 * r >= w * (100 - t)
  PROVE  100 * (r - w) >= 0 - t * v
  <1>1. w * t <= v * t
    BY ToleranceGrows
  <1>2. w * (100 - t) = 100 * w - w * t
    BY Z3
  <1>3. v * t = t * v
    BY Z3
  <1> QED  BY <1>1, <1>2, <1>3, Z3

LEMMA WholeIsNotOverdrawn ==
  ASSUME NEW v \in Int, NEW t \in 0..100, v > 0
  PROVE  100 * v >= 0 - t * v
  <1>1. t * v >= 0
    BY Z3
  <1> QED  BY <1>1, Z3

-----------------------------------------------------------------------------
(* Readings change with the window only *)

\* A step of Build, or a call of Attach or Detach.
Call == Work \/ UNCHANGED vars

LEMMA ValueIsPositive ==
  ASSUME reading \in Reading, NEW d \in Device
  PROVE  /\ Value(d) \in Int /\ Value(d) >= 0
         /\ Reads(d) => Value(d) > 0
  <1>1. CASE Leading(d) = {}
    BY <1>1 DEF Value, Reads, PrimaryCarrier
  <1>2. CASE Leading(d) # {}
    <2>1. PrimaryCarrier(d) \in Leading(d)
      BY <1>2 DEF PrimaryCarrier
    <2>2. /\ PrimaryCarrier(d) \in DOMAIN reading[d]
          /\ reading[d][PrimaryCarrier(d)] > 0
      BY <2>1 DEF Leading
    <2>3. reading[d][PrimaryCarrier(d)] \in Int
      BY <2>2, ReadingAssumption DEF Reading
    <2> QED  BY <1>2, <2>2, <2>3 DEF Value
  <1> QED  BY <1>1, <1>2

LEMMA SameReadings ==
  ASSUME reading' = reading
  PROVE  \A d : /\ PrimaryCarrier(d)' = PrimaryCarrier(d)
                /\ Value(d)' = Value(d)
                /\ Reads(d)' <=> Reads(d)
  <1>1. \A d : Leading(d)' = Leading(d)
    BY DEF Leading
  <1>2. \A d : PrimaryCarrier(d)' = PrimaryCarrier(d)
    <2> SUFFICES ASSUME NEW d PROVE PrimaryCarrier(d)' = PrimaryCarrier(d)
      OBVIOUS
    <2> DEFINE Some(S) == CHOOSE c \in S : TRUE
    <2>1. PrimaryCarrier(d) = IF Leading(d) = {} THEN None ELSE Some(Leading(d))
      BY DEF PrimaryCarrier
    <2>2. PrimaryCarrier(d)' = IF Leading(d)' = {} THEN None ELSE Some(Leading(d)')
      BY DEF PrimaryCarrier
    <2> HIDE DEF Some
    <2> QED  BY <1>1, <2>1, <2>2
  <1>3. \A d : Value(d)' = Value(d)
    BY <1>1, <1>2 DEF Value
  <1> QED  BY <1>2, <1>3 DEF Reads

LEMMA ReadingsStay ==
  ASSUME Call
  PROVE  /\ reading' = reading /\ tolerance' = tolerance /\ members' = members
         /\ \A d : /\ PrimaryCarrier(d)' = PrimaryCarrier(d)
                   /\ Value(d)' = Value(d)
                   /\ Reads(d)' <=> Reads(d)
  <1>1. reading' = reading /\ tolerance' = tolerance /\ members' = members
    BY DEF Call, Work, vars, PlaceUnread, PlaceAtRoot, PlaceUnder, Built, Attach, Detach
  <1> QED  BY <1>1, SameReadings

-----------------------------------------------------------------------------
(* Types *)

Typed == TypeOK /\ reading \in Reading

LEMMA TypedInCalls ==
  ASSUME Typed, Call
  PROVE  Typed'
  <1> USE DEF Typed, TypeOK
  <1>0. /\ reading' \in Reading /\ tolerance' \in 0..100
        /\ members' \subseteq Device
    BY ReadingsStay
  <1>1. ASSUME NEW d \in Device, PlaceUnread(d) PROVE Typed'
    BY <1>0, <1>1 DEF PlaceUnread
  <1>2. ASSUME NEW d \in Device, PlaceAtRoot(d) PROVE Typed'
    <2>1. Value(d) \in Int
      BY ValueIsPositive
    <2> QED  BY <1>0, <1>2, <2>1 DEF PlaceAtRoot
  <1>3. ASSUME NEW d \in Device, PlaceUnder(d) PROVE Typed'
    <2>1. Value(d) \in Int
      BY ValueIsPositive
    <2>2. PICK p \in Best(d) :
             /\ parentOf' = [parentOf EXCEPT ![d] = p]
             /\ remaining' = [remaining EXCEPT ![p] = @ - Value(d), ![d] = Value(d)]
             /\ depth' = [depth EXCEPT ![d] = depth[p] + 1]
      BY <1>3 DEF PlaceUnder
    <2>3. p \in Device
      BY DEF Best, Eligible, Placed
    <2> QED  BY <1>0, <1>3, <2>1, <2>2, <2>3 DEF PlaceUnder
  <1>4. CASE Built
    BY <1>0, <1>4 DEF Built, Zero
  <1>5. ASSUME NEW d \in Device, Attach(d) PROVE Typed'
    <2>1. PICK p \in AttachTo(d) : parentOf' = [parentOf EXCEPT ![d] = p]
      BY <1>5 DEF Attach
    <2>2. BestExisting(d) \subseteq Device
      BY DEF BestExisting, Candidates, Placed
    <2>3. p \in Device \cup {Root, NoFlow}
      BY <2>2 DEF AttachTo
    <2> QED  BY <1>0, <1>5, <2>1, <2>3 DEF Attach
  <1>6. ASSUME NEW d \in Device, Detach(d) PROVE Typed'
    BY <1>0, <1>6 DEF Detach
  <1>7. CASE UNCHANGED vars
    BY <1>7 DEF vars
  <1> QED  BY <1>1, <1>2, <1>3, <1>4, <1>5, <1>6, <1>7 DEF Call, Work

LEMMA TypedHolds == Spec => []Typed
  <1>1. Init => Typed
    <2> SUFFICES ASSUME Init PROVE Typed
      OBVIOUS
    <2>1. tolerance \in 0..100
      BY ClampInRange, ToleranceAssumption DEF Init
    <2>2. members \subseteq Device
      BY MembersAssumption DEF Init
    <2>3. remaining \in [Device -> Int] /\ depth \in [Device -> Nat]
      BY DEF Init, Zero
    <2>4. parentOf \in [Device -> Device \cup {Root, NoFlow, None}]
      BY DEF Init
    <2>5. phase \in {"build", "built"}
      BY DEF Init
    <2>6. collector \in BOOLEAN
      BY DEF Init
    <2>7. reading \in Reading
      BY DEF Init, Reading
    <2> QED  BY <2>1, <2>2, <2>3, <2>4, <2>5, <2>6, <2>7 DEF Typed, TypeOK
  <1>2. Typed /\ [Next]_vars => Typed'
    <2> SUFFICES ASSUME Typed, [Next]_vars PROVE Typed'
      OBVIOUS
    <2> USE DEF Typed, TypeOK
    <2>8. CASE NewWindow
      BY <2>8 DEF NewWindow, Reading
    <2>9. CASE Call
      BY <2>9, TypedInCalls
    <2> QED  BY <2>8, <2>9 DEF Next, Call
  <1> QED  BY <1>1, <1>2, PTL DEF Spec

\* The tolerance is in range whatever is configured, and the tree stays one
\* over the group's devices (Options.tolerance, Build, Attach, Detach).
THEOREM TypeCorrect == Spec => []TypeOK
  <1>1. Typed => TypeOK
    BY DEF Typed
  <1> QED  BY <1>1, TypedHolds, PTL

-----------------------------------------------------------------------------
(* The order of placing, and what it is good for *)

\* Devices are placed in their order, and the one placed last of each carrier
\* still has its whole reading.
PlacedInOrder ==
    \A d, e \in Device :
        InGraph(d) /\ Reads(d) /\ e \in Unplaced /\ PrimaryCarrier(e) = PrimaryCarrier(d)
            => Before(d, e)
SomeoneWhole ==
    \A d \in Device : InGraph(d) /\ Reads(d) =>
        \E l \in Device : /\ InGraph(l) /\ PrimaryCarrier(l) = PrimaryCarrier(d)
                          /\ remaining[l] = Value(l)

BuildInv ==
    phase = "build" => PlacedInOrder /\ SomeoneWhole /\ NotOverdrawn /\ OneMeterAtRoot

\* Whoever finds no parent is the first of their carrier.
LEMMA OnlyFirstFindsNone ==
  ASSUME Typed, PlacedInOrder, SomeoneWhole,
         NEW d \in Device, Due(d), Eligible(d) = {},
         NEW e \in Device, InGraph(e), PrimaryCarrier(e) = PrimaryCarrier(d)
  PROVE  FALSE
  <1>1. Reads(e)
    BY DEF Due, Reads
  <1>2. PICK l \in Device : /\ InGraph(l) /\ PrimaryCarrier(l) = PrimaryCarrier(e)
                            /\ remaining[l] = Value(l)
    BY <1>1 DEF SomeoneWhole
  <1>3. Reads(l) /\ Reads(d) /\ d \in Unplaced
    BY <1>1, <1>2 DEF Reads, Due
  <1>4. Before(l, d)
    BY <1>2, <1>3 DEF PlacedInOrder
  <1>5. /\ Value(l) \in Int /\ Value(l) > 0
        /\ Value(d) \in Int /\ Value(d) > 0
    BY <1>3, ValueIsPositive DEF Typed
  <1>6. Value(d) <= Value(l)
    BY <1>4, <1>5 DEF Before
  <1>7. tolerance \in 0..100
    BY DEF Typed, TypeOK
  <1>8. /\ ~(100 * Value(l) < Value(l) * tolerance)
        /\ 100 * Value(l) >= Value(d) * (100 - tolerance)
    BY <1>5, <1>6, <1>7, WholeFits
  <1>9. Fits(remaining[l], Value(l), d)
    BY <1>2, <1>8 DEF Fits, Explained
  <1> QED  BY <1>2, <1>9 DEF Eligible, Placed

\* What placing one device does to who is in the graph and who is waiting.
LEMMA OneMoreInGraph ==
  ASSUME Typed, Call, NEW d \in Device, ~InGraph(d),
         NEW q \in Device \cup {Root, NoFlow}, parentOf' = [parentOf EXCEPT ![d] = q]
  PROVE  /\ \A e \in Device : InGraph(e)' <=> InGraph(e) \/ e = d
         /\ \A e \in Device : e \in Unplaced' => e \in Unplaced /\ e # d
         /\ \A e \in Device : e # d => parentOf'[e] = parentOf[e]
         /\ parentOf'[d] = q
  <1>1. q # None
    BY NodeAssumption
  <1>2. /\ parentOf'[d] = q
        /\ \A e \in Device : e # d => parentOf'[e] = parentOf[e]
    BY DEF Typed, TypeOK
  <1>3. \A e \in Device : InGraph(e)' <=> InGraph(e) \/ e = d
    BY <1>1, <1>2 DEF InGraph
  <1> QED  BY <1>2, <1>3, ReadingsStay DEF Unplaced

LEMMA BuildInvHolds == Spec => []BuildInv
  <1>1. Init => BuildInv
    BY DEF Init, BuildInv, PlacedInOrder, SomeoneWhole, NotOverdrawn, OneMeterAtRoot, InGraph
  <1>2. Typed /\ BuildInv /\ [Next]_vars => BuildInv'
    <2> SUFFICES ASSUME Typed, BuildInv, Call, phase' = "build" PROVE BuildInv'
      BY DEF BuildInv, Next, NewWindow, Call
    <2>0. /\ \A d : /\ PrimaryCarrier(d)' = PrimaryCarrier(d)
                    /\ Value(d)' = Value(d)
                    /\ Reads(d)' <=> Reads(d)
          /\ \A d, e : Before(d, e)' <=> Before(d, e)
          /\ tolerance' = tolerance
      BY ReadingsStay DEF Before
    <2>1. ASSUME NEW d \in Device, PlaceUnread(d) PROVE BuildInv'
      <3>1. PICK q \in {Root, NoFlow} : parentOf' = [parentOf EXCEPT ![d] = q]
        BY <2>1 DEF PlaceUnread
      <3>2. /\ ~InGraph(d) /\ ~Reads(d) /\ remaining' = remaining /\ phase = "build"
        BY <2>1 DEF PlaceUnread, Unplaced
      <3>3. /\ \A e \in Device : InGraph(e)' <=> InGraph(e) \/ e = d
            /\ \A e \in Device : e \in Unplaced' => e \in Unplaced /\ e # d
            /\ \A e \in Device : e # d => parentOf'[e] = parentOf[e]
        BY <3>1, <3>2, OneMoreInGraph
      <3>4. PlacedInOrder /\ SomeoneWhole /\ NotOverdrawn /\ OneMeterAtRoot
        BY <3>2 DEF BuildInv
      <3>5. PlacedInOrder'
        BY <2>0, <3>2, <3>3, <3>4 DEF PlacedInOrder
      <3>6. SomeoneWhole'
        BY <2>0, <3>2, <3>3, <3>4 DEF SomeoneWhole
      <3>7. NotOverdrawn'
        BY <2>0, <3>2, <3>3, <3>4 DEF NotOverdrawn
      <3>8. OneMeterAtRoot'
        BY <2>0, <3>2, <3>3, <3>4 DEF OneMeterAtRoot, Reads
      <3> QED  BY <3>5, <3>6, <3>7, <3>8 DEF BuildInv
    <2>2. ASSUME NEW d \in Device, PlaceAtRoot(d) PROVE BuildInv'
      <3>1. /\ Due(d) /\ Eligible(d) = {}
            /\ parentOf' = [parentOf EXCEPT ![d] = Root]
            /\ remaining' = [remaining EXCEPT ![d] = Value(d)]
        BY <2>2 DEF PlaceAtRoot
      <3>2. /\ ~InGraph(d) /\ Reads(d) /\ phase = "build"
        BY <3>1 DEF Due, Unplaced
      <3>3. /\ \A e \in Device : InGraph(e)' <=> InGraph(e) \/ e = d
            /\ \A e \in Device : e \in Unplaced' => e \in Unplaced /\ e # d
            /\ \A e \in Device : e # d => parentOf'[e] = parentOf[e]
        BY <3>1, <3>2, OneMoreInGraph
      <3>4. PlacedInOrder /\ SomeoneWhole /\ NotOverdrawn /\ OneMeterAtRoot
        BY <3>2 DEF BuildInv
      <3>5. \A e \in Device : InGraph(e) => PrimaryCarrier(e) # PrimaryCarrier(d)
        BY <3>1, <3>4, OnlyFirstFindsNone
      <3>6. /\ remaining'[d] = Value(d)
            /\ \A e \in Device : e # d => remaining'[e] = remaining[e]
        BY <3>1 DEF Typed, TypeOK
      <3>7. PlacedInOrder'
        BY <2>0, <3>1, <3>3, <3>4 DEF PlacedInOrder, Due
      <3>8. SomeoneWhole'
        BY <2>0, <3>2, <3>3, <3>4, <3>6 DEF SomeoneWhole
      <3>9. NotOverdrawn'
        <4>1. 100 * Value(d) >= 0 - tolerance * Value(d)
          BY <3>2, ValueIsPositive, WholeIsNotOverdrawn DEF Typed, TypeOK
        <4> QED  BY <2>0, <3>2, <3>3, <3>4, <3>6, <4>1 DEF NotOverdrawn
      <3>10. OneMeterAtRoot'
        <4> SUFFICES ASSUME NEW x \in Device, NEW y \in Device, Reads(x), parentOf'[x] = Root,
                            InGraph(y)', PrimaryCarrier(y) = PrimaryCarrier(x), y # x
                     PROVE  Before(x, y) /\ parentOf'[y] \in Device
          BY <2>0 DEF OneMeterAtRoot
        <4>1. x # d /\ y # d
          <5>1. parentOf[x] = Root => InGraph(x)
            BY NodeAssumption DEF InGraph
          <5>2. CASE x = d
            BY <3>3, <3>5, <5>2
          <5>3. CASE y = d
            BY <3>3, <3>5, <5>1, <5>3
          <5> QED  BY <5>2, <5>3
        <4> QED  BY <3>2, <3>3, <3>4, <4>1 DEF OneMeterAtRoot
      <3> QED  BY <3>7, <3>8, <3>9, <3>10 DEF BuildInv
    <2>3. ASSUME NEW d \in Device, PlaceUnder(d) PROVE BuildInv'
      <3>1. PICK p \in Best(d) :
               /\ parentOf' = [parentOf EXCEPT ![d] = p]
               /\ remaining' = [remaining EXCEPT ![p] = @ - Value(d), ![d] = Value(d)]
        BY <2>3 DEF PlaceUnder
      <3>2. /\ Due(d) /\ ~InGraph(d) /\ Reads(d) /\ phase = "build" /\ d \in Unplaced
        BY <2>3 DEF PlaceUnder, Due, Unplaced
      <3>3. /\ p \in Device /\ InGraph(p) /\ PrimaryCarrier(p) = PrimaryCarrier(d)
            /\ Fits(remaining[p], Value(p), d)
        BY DEF Best, Eligible, Placed
      <3>4. p # d
        BY <3>2, <3>3
      <3>5. /\ \A e \in Device : InGraph(e)' <=> InGraph(e) \/ e = d
            /\ \A e \in Device : e \in Unplaced' => e \in Unplaced /\ e # d
            /\ \A e \in Device : e # d => parentOf'[e] = parentOf[e]
            /\ parentOf'[d] = p
        BY <3>1, <3>2, <3>3, OneMoreInGraph
      <3>6. PlacedInOrder /\ SomeoneWhole /\ NotOverdrawn /\ OneMeterAtRoot
        BY <3>2 DEF BuildInv
      <3>7. /\ remaining'[d] = Value(d)
            /\ remaining'[p] = remaining[p] - Value(d)
            /\ \A e \in Device : e # d /\ e # p => remaining'[e] = remaining[e]
        BY <3>1, <3>3, <3>4 DEF Typed, TypeOK
      <3>8. Reads(p) /\ Before(p, d)
        BY <3>2, <3>3, <3>6 DEF PlacedInOrder, Reads
      <3>9. PlacedInOrder'
        BY <2>0, <3>2, <3>5, <3>6 DEF PlacedInOrder, Due
      <3>10. SomeoneWhole'
        <4> SUFFICES ASSUME NEW e \in Device, InGraph(e)', Reads(e)
                     PROVE  \E l \in Device : /\ InGraph(l)' /\ PrimaryCarrier(l) = PrimaryCarrier(e)
                                              /\ remaining'[l] = Value(l)
          BY <2>0 DEF SomeoneWhole
        <4>1. CASE PrimaryCarrier(e) = PrimaryCarrier(d)
          BY <3>5, <3>7, <4>1
        <4>2. CASE PrimaryCarrier(e) # PrimaryCarrier(d)
          BY <3>3, <3>5, <3>6, <3>7, <4>2 DEF SomeoneWhole
        <4> QED  BY <4>1, <4>2
      <3>11. NotOverdrawn'
        <4>1. /\ Value(d) \in Int /\ Value(p) \in Int /\ Value(d) > 0
              /\ remaining[p] \in Int /\ tolerance \in 0..100
          BY <3>2, <3>3, ValueIsPositive DEF Typed, TypeOK
        <4>2. Value(d) <= Value(p)
          BY <3>8, <4>1 DEF Before
        <4>3. 100 * (remaining[p] - Value(d)) >= 0 - tolerance * Value(p)
          BY <3>3, <4>1, <4>2, FittingOverdrawsLittle DEF Fits
        <4>4. 100 * Value(d) >= 0 - tolerance * Value(d)
          BY <4>1, WholeIsNotOverdrawn
        <4> QED  BY <2>0, <3>2, <3>5, <3>6, <3>7, <4>3, <4>4 DEF NotOverdrawn
      <3>12. OneMeterAtRoot'
        <4> SUFFICES ASSUME NEW x \in Device, NEW y \in Device, Reads(x), parentOf'[x] = Root,
                            InGraph(y)', PrimaryCarrier(y) = PrimaryCarrier(x), y # x
                     PROVE  Before(x, y) /\ parentOf'[y] \in Device
          BY <2>0 DEF OneMeterAtRoot
        <4>1. x # d
          BY <3>3, <3>5, NodeAssumption
        <4>2. InGraph(x)
          BY <3>5, <4>1, NodeAssumption DEF InGraph
        <4>3. CASE y = d
          BY <3>2, <3>3, <3>5, <3>6, <4>2, <4>3 DEF PlacedInOrder
        <4>4. CASE y # d
          BY <3>2, <3>5, <3>6, <4>1, <4>4 DEF OneMeterAtRoot
        <4> QED  BY <4>3, <4>4
      <3> QED  BY <3>9, <3>10, <3>11, <3>12 DEF BuildInv
    <2>4. CASE Built
      BY <2>4 DEF Built
    <2>5. ASSUME NEW d \in Device, Attach(d) \/ Detach(d) PROVE BuildInv'
      BY <2>5 DEF Attach, Detach
    <2>6. CASE UNCHANGED vars
      <3> SUFFICES BuildInv => BuildInv'
        OBVIOUS
      <3> QED  BY <2>0, <2>6 DEF vars, BuildInv, PlacedInOrder, SomeoneWhole, NotOverdrawn,
                                  OneMeterAtRoot, InGraph, Unplaced
    <2> QED  BY <2>1, <2>2, <2>3, <2>4, <2>5, <2>6 DEF Call, Work
  <1> QED  BY <1>1, <1>2, TypedHolds, PTL DEF Spec

\* Only the largest meter of each carrier hangs off the root of a generated
\* graph (shallower's "consequence worth knowing"), whatever the tolerance.
THEOREM RootHoldsOneMeter == Spec => []OneMeterAtRoot
  <1>1. BuildInv => OneMeterAtRoot
    BY DEF BuildInv, OneMeterAtRoot
  <1> QED  BY <1>1, BuildInvHolds, PTL

\* However many children a meter is given, together they overdraw its reading
\* by the tolerance at most (place).
THEOREM NobodyIsOverdrawn == Spec => []NotOverdrawn
  <1>1. BuildInv => NotOverdrawn
    BY DEF BuildInv, NotOverdrawn
  <1> QED  BY <1>1, BuildInvHolds, PTL

-----------------------------------------------------------------------------
LEMMA CallsDoNotMix ==
  ASSUME Typed, Unmixed, Call
  PROVE  Unmixed'
  <1>0. \A d : PrimaryCarrier(d)' = PrimaryCarrier(d)
    BY ReadingsStay
  <1>1. ASSUME NEW d \in Device, NEW p, parentOf' = [parentOf EXCEPT ![d] = p],
               p \in Device => PrimaryCarrier(p) = PrimaryCarrier(d)
        PROVE  Unmixed'
    BY <1>0, <1>1 DEF Unmixed, Typed, TypeOK
  <1>2. ASSUME NEW d \in Device, PlaceUnread(d) PROVE Unmixed'
    <2>1. PICK p \in {Root, NoFlow} : parentOf' = [parentOf EXCEPT ![d] = p]
      BY <1>2 DEF PlaceUnread
    <2> QED  BY <1>1, <2>1, NodeAssumption
  <1>3. ASSUME NEW d \in Device, PlaceAtRoot(d) PROVE Unmixed'
    BY <1>1, <1>3, NodeAssumption DEF PlaceAtRoot
  <1>4. ASSUME NEW d \in Device, PlaceUnder(d) PROVE Unmixed'
    <2>1. PICK p \in Best(d) : parentOf' = [parentOf EXCEPT ![d] = p]
      BY <1>4 DEF PlaceUnder
    <2>2. PrimaryCarrier(p) = PrimaryCarrier(d)
      BY DEF Best, Eligible, Placed
    <2> QED  BY <1>1, <2>1, <2>2
  <1>5. CASE Built
    BY <1>0, <1>5 DEF Built, Unmixed
  <1>6. ASSUME NEW d \in Device, Attach(d) PROVE Unmixed'
    <2>1. PICK p \in AttachTo(d) : parentOf' = [parentOf EXCEPT ![d] = p]
      BY <1>6 DEF Attach
    <2>2. \A q \in BestExisting(d) : PrimaryCarrier(q) = PrimaryCarrier(d)
      BY DEF BestExisting, Candidates, Placed
    <2>3. p \in Device => p \in BestExisting(d)
      BY NodeAssumption DEF AttachTo
    <2> QED  BY <1>1, <2>1, <2>2, <2>3
  <1>7. ASSUME NEW d \in Device, Detach(d) PROVE Unmixed'
    <2>1. \A e \in Device : parentOf'[e] = IF e = d THEN None
                            ELSE IF parentOf[e] = d THEN parentOf[d] ELSE parentOf[e]
      BY <1>7 DEF Detach
    <2> QED  BY <1>0, <2>1, NodeAssumption DEF Unmixed
  <1>8. CASE UNCHANGED vars
    BY <1>0, <1>8 DEF vars, Unmixed
  <1> QED  BY <1>2, <1>3, <1>4, <1>5, <1>6, <1>7, <1>8 DEF Call, Work

\* No branch mixes carriers by what this package does: Build and Attach look
\* for parents among their own, and a rerouted child moves up within its branch
\* (place, bestExistingParent, Detach).  What mixes one is a window in which a
\* device reads more of another carrier.
THEOREM BranchesDoNotMix == Spec => OneCarrierPerBranch
  <1>1. Typed /\ [Next]_vars => [reading' = reading /\ Unmixed => Unmixed']_vars
    <2> SUFFICES ASSUME Typed, [Next]_vars, reading' = reading, Unmixed PROVE Unmixed'
      OBVIOUS
    <2>1. CASE Call
      BY <2>1, CallsDoNotMix
    <2>2. CASE NewWindow
      BY <2>2, SameReadings DEF NewWindow, Unmixed
    <2> QED  BY <2>1, <2>2 DEF Next, Call
  <1> QED  BY <1>1, TypedHolds, PTL DEF Spec, OneCarrierPerBranch

BuiltUnmixed == phase = "build" => Unmixed

LEMMA BuiltUnmixedHolds == Spec => []BuiltUnmixed
  <1>1. Init => BuiltUnmixed
    BY NodeAssumption DEF Init, BuiltUnmixed, Unmixed
  <1>2. Typed /\ BuiltUnmixed /\ [Next]_vars => BuiltUnmixed'
    <2> SUFFICES ASSUME Typed, BuiltUnmixed, [Next]_vars, phase' = "build" PROVE Unmixed'
      BY DEF BuiltUnmixed
    <2>1. Call
      BY DEF Next, NewWindow, Call
    <2>2. phase = "build"
      BY <2>1 DEF Call, Work, vars, PlaceUnread, PlaceAtRoot, PlaceUnder, Due, Built, Attach, Detach
    <2> QED  BY <2>1, <2>2, CallsDoNotMix DEF BuiltUnmixed
  <1> QED  BY <1>1, <1>2, TypedHolds, PTL DEF Spec

-----------------------------------------------------------------------------
(* Edges end inside *)

\* No device is below itself: a rank falls along the edges between devices.
\* Without it a node could be rerouted to itself, or to the node that goes.
Descends(rank) == \A d \in Device : parentOf[d] \in Device => rank[parentOf[d]] < rank[d]

Ranked == \E rank \in [Device -> Int] : Descends(rank)

EdgeInv == EdgesEnd /\ Ranked

\* A device that was not in the graph is hung on a node that is.
LEMMA HangingKeepsEdges ==
  ASSUME Typed, EdgeInv, NEW d \in Device, ~InGraph(d), NEW p, p # None,
         parentOf' = [parentOf EXCEPT ![d] = p], p \in Device => InGraph(p),
         p = NoFlow => collector', collector => collector'
  PROVE  EdgeInv'
  <1>1. \A e \in Device : parentOf'[e] = IF e = d THEN p ELSE parentOf[e]
    BY DEF Typed, TypeOK
  <1>2. \A e \in Device : InGraph(e) => InGraph(e)'
    BY <1>1 DEF InGraph
  <1>3. EdgesEnd'
    BY <1>1, <1>2 DEF EdgeInv, EdgesEnd
  <1>4. PICK rank \in [Device -> Int] : Descends(rank)
    BY DEF EdgeInv, Ranked
  <1> DEFINE ranked == [rank EXCEPT ![d] = IF p \in Device THEN rank[p] + 1 ELSE rank[d]]
  <1>5. ranked \in [Device -> Int]
    BY <1>4
  <1>6. \A e \in Device : parentOf[e] # d /\ (p \in Device => p # d)
    BY DEF EdgeInv, EdgesEnd
  <1>7. Descends(ranked)'
    BY <1>1, <1>4, <1>6 DEF Descends
  <1> QED  BY <1>3, <1>5, <1>7 DEF EdgeInv, Ranked

LEMMA EdgeInvHolds == Spec => []EdgeInv
  <1>1. Init => EdgeInv
    <2> SUFFICES ASSUME Init PROVE EdgeInv
      OBVIOUS
    <2>1. \A d \in Device : parentOf[d] \notin Device /\ parentOf[d] # NoFlow
      BY NodeAssumption DEF Init
    <2>2. [d \in Device |-> 0] \in [Device -> Int] /\ Descends([d \in Device |-> 0])
      BY <2>1 DEF Descends
    <2> QED  BY <2>1, <2>2 DEF EdgeInv, EdgesEnd, Ranked
  <1>2. Typed /\ EdgeInv /\ [Next]_vars => EdgeInv'
    <2> SUFFICES ASSUME Typed, EdgeInv, [Next]_vars PROVE EdgeInv'
      OBVIOUS
    <2>1. ASSUME NEW d \in Device, PlaceUnread(d) PROVE EdgeInv'
      <3> DEFINE collected == ~HasEnergyFlow(d) /\ Collecting
                 p == IF collected THEN NoFlow ELSE Root
      <3>1. /\ parentOf' = [parentOf EXCEPT ![d] = p] /\ collector' = (collector \/ collected)
            /\ ~InGraph(d)
        BY <2>1 DEF PlaceUnread, Unplaced
      <3>2. p # None /\ p \notin Device /\ (p = NoFlow => collected)
        BY NodeAssumption
      <3> HIDE DEF p
      <3> QED  BY <3>1, <3>2, HangingKeepsEdges
    <2>2. ASSUME NEW d \in Device, PlaceAtRoot(d) PROVE EdgeInv'
      <3>1. parentOf' = [parentOf EXCEPT ![d] = Root] /\ collector' = collector /\ ~InGraph(d)
        BY <2>2 DEF PlaceAtRoot, Due, Unplaced
      <3> QED  BY <3>1, HangingKeepsEdges, NodeAssumption
    <2>3. ASSUME NEW d \in Device, PlaceUnder(d) PROVE EdgeInv'
      <3>1. PICK p \in Best(d) : parentOf' = [parentOf EXCEPT ![d] = p]
        BY <2>3 DEF PlaceUnder
      <3>2. p \in Device /\ InGraph(p) /\ ~InGraph(d)
        BY <2>3 DEF PlaceUnder, Due, Unplaced, Best, Eligible, Placed
      <3>3. p # None /\ p # NoFlow /\ collector' = collector
        BY <2>3, <3>2, NodeAssumption DEF PlaceUnder
      <3> QED  BY <3>1, <3>2, <3>3, HangingKeepsEdges
    <2>4. ASSUME NEW d \in Device, Attach(d) PROVE EdgeInv'
      <3>1. PICK p \in AttachTo(d) : parentOf' = [parentOf EXCEPT ![d] = p]
        BY <2>4 DEF Attach
      <3>2. \A q \in BestExisting(d) : q \in Device /\ InGraph(q)
        BY DEF BestExisting, Candidates, Placed
      <3>3. /\ p # None /\ (p = NoFlow => collector)
            /\ p \in Device => InGraph(p)
        BY <3>2, NodeAssumption DEF AttachTo
      <3> QED  BY <2>4, <3>1, <3>3, HangingKeepsEdges DEF Attach
    <2>5. ASSUME NEW d \in Device, Detach(d) PROVE EdgeInv'
      <3>1. /\ \A e \in Device : parentOf'[e] = IF e = d THEN None
                                 ELSE IF parentOf[e] = d THEN parentOf[d] ELSE parentOf[e]
            /\ collector' = collector /\ parentOf[d] # None
        BY <2>5 DEF Detach, InGraph
      <3>2. \A e \in Device \ {d} : InGraph(e) => InGraph(e)'
        BY <3>1 DEF InGraph
      <3>3. PICK rank \in [Device -> Int] : Descends(rank)
        BY DEF EdgeInv, Ranked
      <3>4. Descends(rank)'
        BY <3>1, <3>3, NodeAssumption DEF Descends
      <3>5. parentOf[d] # d
        BY <3>3 DEF Descends
      <3>6. EdgesEnd'
        BY <3>1, <3>2, <3>5, NodeAssumption DEF EdgeInv, EdgesEnd
      <3> QED  BY <3>3, <3>4, <3>6 DEF EdgeInv, Ranked
    <2>6. CASE Built \/ NewWindow \/ UNCHANGED vars
      <3>1. parentOf' = parentOf /\ collector' = collector
        BY <2>6 DEF Built, NewWindow, vars
      <3> QED  BY <3>1 DEF EdgeInv, EdgesEnd, InGraph, Ranked, Descends
    <2> QED  BY <2>1, <2>2, <2>3, <2>4, <2>5, <2>6 DEF Next, Work
  <1> QED  BY <1>1, <1>2, TypedHolds, PTL DEF Spec

\* Every edge of the graph ends at one of its nodes, over any life of the graph:
\* the collector is made with the first device that hangs on it and stays, and
\* what hung on a node that goes is rerouted before it (Build, Attach, Detach).
THEOREM EdgesEndInside == Spec => []EdgesEnd
  <1>1. EdgeInv => EdgesEnd
    BY DEF EdgeInv
  <1> QED  BY <1>1, EdgeInvHolds, PTL

-----------------------------------------------------------------------------
(* What the children of a meter read *)

Amount(c) == [k \in Device |-> IF c \in DOMAIN reading[k] THEN reading[k][c] ELSE 0]

LEMMA ChildSumIs == \A n, c : ChildSum(n, c) = SumFunctionOnSet(Amount(c), Children(n))
  BY DEF ChildSum, Amount

LEMMA AmountsAreFigures ==
  ASSUME reading \in Reading, NEW c, NEW S \in SUBSET Device
  PROVE  Figures(Amount(c), S) /\ IsFiniteSet(S)
  <1>1. \A k \in Device : \A e \in DOMAIN reading[k] : reading[k][e] \in Int
    BY ReadingAssumption DEF Reading
  <1>2. \A k \in S : Amount(c)[k] \in Int
    BY <1>1 DEF Amount
  <1> QED  BY <1>2, DeviceAssumption, FS_Subset DEF Figures

\* What a meter reads of its own carrier.
LEMMA OwnAmount ==
  ASSUME NEW d \in Device, Reads(d)
  PROVE  Amount(PrimaryCarrier(d))[d] = Value(d)
  <1>1. Leading(d) # {} /\ PrimaryCarrier(d) \in Leading(d)
    BY DEF Reads, PrimaryCarrier
  <1>2. PrimaryCarrier(d) \in DOMAIN reading[d]
    BY <1>1 DEF Leading
  <1> QED  BY <1>1, <1>2 DEF Amount, Value

LEMMA ChildrenAreDevices == \A n : Children(n) \in SUBSET Device
  BY DEF Children

LEMMA SumIsInt ==
  ASSUME reading \in Reading, NEW c, NEW n
  PROVE  ChildSum(n, c) \in Int
  <1>1. IsFiniteSet(Children(n)) /\ Figures(Amount(c), Children(n))
    BY AmountsAreFigures, ChildrenAreDevices
  <1> QED  BY <1>1, SumType, ChildSumIs

LEMMA AmountsStay ==
  ASSUME reading' = reading
  PROVE  \A c : Amount(c)' = Amount(c)
  BY DEF Amount

\* Hanging a device somewhere adds what it reads there and nowhere else.
LEMMA HangingAddsUp ==
  ASSUME Typed, reading' = reading, EdgesEnd, NEW d \in Device, ~InGraph(d),
         NEW q, parentOf' = [parentOf EXCEPT ![d] = q]
  PROVE  /\ \A n, c : n # q /\ n # None => ChildSum(n, c)' = ChildSum(n, c)
         /\ q # None => \A c : ChildSum(q, c)' = ChildSum(q, c) + Amount(c)[d]
         /\ \A c : ChildSum(d, c) = 0
  <1>1. \A e \in Device : parentOf'[e] = IF e = d THEN q ELSE parentOf[e]
    BY DEF Typed, TypeOK
  <1>2. parentOf[d] = None /\ \A e \in Device : parentOf[e] # d
    BY DEF EdgesEnd, InGraph
  <1>3. ASSUME NEW n, NEW c, n # q, n # None PROVE ChildSum(n, c)' = ChildSum(n, c)
    <2>1. Children(n)' = Children(n)
      BY <1>1, <1>2, <1>3 DEF Children
    <2>2. ChildSum(n, c)' = SumFunctionOnSet(Amount(c)', Children(n)')
      BY DEF ChildSum, Amount
    <2>3. Amount(c)' = Amount(c)
      BY AmountsStay
    <2> QED  BY <2>1, <2>2, <2>3, ChildSumIs
  <1>4. ASSUME q # None, NEW c PROVE ChildSum(q, c)' = ChildSum(q, c) + Amount(c)[d]
    <2> DEFINE S == Children(q)
               T == Children(q) \cup {d}
    <2>1. Children(q)' = T
      BY <1>1 DEF Children
    <2>2. d \notin S
      BY <1>2, <1>4 DEF Children
    <2>3. T \in SUBSET Device /\ S = T \ {d} /\ d \in T
      BY <2>2 DEF Children
    <2>4. ChildSum(q, c)' = SumFunctionOnSet(Amount(c)', Children(q)')
      BY DEF ChildSum, Amount
    <2>5. Amount(c)' = Amount(c)
      BY AmountsStay
    <2>6. ChildSum(q, c) = SumFunctionOnSet(Amount(c), S)
      BY ChildSumIs
    <2> HIDE DEF S, T
    <2>7. IsFiniteSet(T) /\ Figures(Amount(c), T) /\ IsFiniteSet(S) /\ Figures(Amount(c), S)
      <3>1. S \in SUBSET Device
        BY <2>3
      <3> QED  BY <2>3, <3>1, AmountsAreFigures DEF Typed
    <2>8. SumFunctionOnSet(Amount(c), T) = Amount(c)[d] + SumFunctionOnSet(Amount(c), T \ {d})
      BY <2>3, <2>7, SumTake
    <2>9. SumFunctionOnSet(Amount(c), S) \in Int /\ Amount(c)[d] \in Int
      BY <2>3, <2>7, SumType DEF Figures
    <2> QED  BY <2>1, <2>3, <2>4, <2>5, <2>6, <2>8, <2>9
  <1>5. ASSUME NEW c PROVE ChildSum(d, c) = 0
    <2>1. Children(d) = {}
      BY <1>2 DEF Children
    <2> QED  BY <2>1, ChildSumIs, SumEmpty
  <1> QED  BY <1>3, <1>4, <1>5

\* What is left of a meter while the tree is built is its reading less what its
\* children read; and its level is one below its parent's.
Tally ==
    \A p \in Device : InGraph(p) /\ Reads(p) => remaining[p] = Left(p)

Levels ==
    \A p \in Device :
        /\ parentOf[p] \in Device => Reads(p) /\ depth[p] = depth[parentOf[p]] + 1
        /\ InGraph(p) /\ Reads(p) /\ parentOf[p] \notin Device => depth[p] = 1

TallyInv == phase = "build" => Tally /\ Levels

LEMMA TallyInvHolds == Spec => []TallyInv
  <1>1. Init => TallyInv
    BY NodeAssumption DEF Init, TallyInv, Tally, Levels, InGraph
  <1>2. Typed /\ EdgeInv /\ TallyInv /\ [Next]_vars => TallyInv'
    <2> SUFFICES ASSUME Typed, EdgeInv, TallyInv, Call, phase' = "build" PROVE TallyInv'
      BY DEF TallyInv, Next, NewWindow, Call
    <2>0. /\ \A d : /\ PrimaryCarrier(d)' = PrimaryCarrier(d)
                    /\ Value(d)' = Value(d)
                    /\ Reads(d)' <=> Reads(d)
          /\ EdgesEnd /\ reading' = reading
      BY ReadingsStay DEF EdgeInv
    <2>1. ASSUME NEW d \in Device, PlaceUnread(d) PROVE TallyInv'
      <3>1. PICK q \in {Root, NoFlow} : parentOf' = [parentOf EXCEPT ![d] = q]
        BY <2>1 DEF PlaceUnread
      <3>2. /\ ~InGraph(d) /\ ~Reads(d) /\ remaining' = remaining /\ depth' = depth
            /\ Tally /\ Levels /\ q \notin Device /\ q # None
        BY <2>1, <3>1, NodeAssumption DEF PlaceUnread, Unplaced, TallyInv
      <3>3. \A e \in Device : parentOf'[e] = IF e = d THEN q ELSE parentOf[e]
        BY <3>1 DEF Typed, TypeOK
      <3>4. \A p \in Device : \A c : ChildSum(p, c)' = ChildSum(p, c)
        <4>1. \A p \in Device : p # q /\ p # None
          BY <3>2, NodeAssumption
        <4>2. EdgesEnd /\ reading' = reading
          BY <2>0
        <4>3. /\ \A n, c : n # q /\ n # None => ChildSum(n, c)' = ChildSum(n, c)
              /\ q # None => \A c : ChildSum(q, c)' = ChildSum(q, c) + Amount(c)[d]
              /\ \A c : ChildSum(d, c) = 0
          BY <3>1, <3>2, <4>2, HangingAddsUp
        <4> QED  BY <4>1, <4>3
      <3>5. Tally'
        BY <2>0, <3>2, <3>3, <3>4 DEF Tally, Left, InGraph
      <3>6. Levels'
        BY <2>0, <3>2, <3>3 DEF Levels, InGraph
      <3> QED  BY <3>5, <3>6 DEF TallyInv
    <2>2. ASSUME NEW d \in Device, PlaceAtRoot(d) PROVE TallyInv'
      <3>1. /\ parentOf' = [parentOf EXCEPT ![d] = Root]
            /\ remaining' = [remaining EXCEPT ![d] = Value(d)] /\ depth' = [depth EXCEPT ![d] = 1]
            /\ ~InGraph(d) /\ Reads(d) /\ Tally /\ Levels
        BY <2>2 DEF PlaceAtRoot, Due, Unplaced, TallyInv
      <3>2. /\ \A e \in Device : parentOf'[e] = IF e = d THEN Root ELSE parentOf[e]
            /\ \A e \in Device : remaining'[e] = IF e = d THEN Value(d) ELSE remaining[e]
            /\ \A e \in Device : depth'[e] = IF e = d THEN 1 ELSE depth[e]
        BY <3>1 DEF Typed, TypeOK
      <3>3. \A p \in Device : \A c : ChildSum(p, c)' = ChildSum(p, c)
        <4>1. \A p \in Device : p # Root /\ p # None
          BY NodeAssumption
        <4>2. EdgesEnd /\ reading' = reading
          BY <2>0
        <4>3. /\ \A n, c : n # Root /\ n # None => ChildSum(n, c)' = ChildSum(n, c)
              /\ Root # None => \A c : ChildSum(Root, c)' = ChildSum(Root, c) + Amount(c)[d]
              /\ \A c : ChildSum(d, c) = 0
          BY <3>1, <4>2, HangingAddsUp
        <4> QED  BY <4>1, <4>3
      <3>4. \A c : ChildSum(d, c) = 0
        BY <2>0, <3>1, HangingAddsUp
      <3>5. Value(d) \in Int
        BY ValueIsPositive DEF Typed
      <3>6. Tally'
        <4> SUFFICES ASSUME NEW p \in Device, InGraph(p)', Reads(p)
                     PROVE  remaining'[p] = Value(p) - ChildSum(p, PrimaryCarrier(p))
          BY <2>0, <3>3 DEF Tally, Left
        <4>1. CASE p = d
          BY <3>2, <3>4, <3>5, <4>1
        <4>2. CASE p # d
          BY <3>1, <3>2, <4>2 DEF Tally, Left, InGraph
        <4> QED  BY <4>1, <4>2
      <3>7. \A e \in Device : parentOf[e] # d
        BY <2>0, <3>1 DEF EdgesEnd
      <3>8. Levels'
        <4> SUFFICES ASSUME NEW p \in Device
                     PROVE  /\ parentOf'[p] \in Device => Reads(p) /\ depth'[p] = depth'[parentOf'[p]] + 1
                            /\ InGraph(p)' /\ Reads(p) /\ parentOf'[p] \notin Device => depth'[p] = 1
          BY <2>0 DEF Levels
        <4>1. CASE p = d
          BY <3>2, <4>1, NodeAssumption
        <4>2. CASE p # d
          BY <3>1, <3>2, <3>7, <4>2 DEF Levels, InGraph
        <4> QED  BY <4>1, <4>2
      <3> QED  BY <3>6, <3>8 DEF TallyInv
    <2>3. ASSUME NEW d \in Device, PlaceUnder(d) PROVE TallyInv'
      <3>1. PICK q \in Best(d) :
               /\ parentOf' = [parentOf EXCEPT ![d] = q]
               /\ remaining' = [remaining EXCEPT ![q] = @ - Value(d), ![d] = Value(d)]
               /\ depth' = [depth EXCEPT ![d] = depth[q] + 1]
        BY <2>3 DEF PlaceUnder
      <3>2. ~InGraph(d) /\ Reads(d) /\ Tally /\ Levels
        BY <2>3 DEF PlaceUnder, Due, Unplaced, TallyInv
      <3>3. /\ q \in Device /\ InGraph(q) /\ q # d /\ q # None
            /\ PrimaryCarrier(q) = PrimaryCarrier(d) /\ Reads(q)
        BY <3>2, NodeAssumption DEF Best, Eligible, Placed, Reads
      <3>4. /\ \A e \in Device : parentOf'[e] = IF e = d THEN q ELSE parentOf[e]
            /\ remaining'[d] = Value(d) /\ remaining'[q] = remaining[q] - Value(d)
            /\ \A e \in Device : e # d /\ e # q => remaining'[e] = remaining[e]
            /\ \A e \in Device : depth'[e] = IF e = d THEN depth[q] + 1 ELSE depth[e]
        BY <3>1, <3>3 DEF Typed, TypeOK
      <3>5. /\ \A p \in Device : \A c : p # q => ChildSum(p, c)' = ChildSum(p, c)
            /\ \A c : ChildSum(q, c)' = ChildSum(q, c) + Amount(c)[d]
            /\ \A c : ChildSum(d, c) = 0
        <4>1. \A p \in Device : p # None
          BY NodeAssumption
        <4>2. EdgesEnd /\ reading' = reading
          BY <2>0
        <4>3. /\ \A n, c : n # q /\ n # None => ChildSum(n, c)' = ChildSum(n, c)
              /\ q # None => \A c : ChildSum(q, c)' = ChildSum(q, c) + Amount(c)[d]
              /\ \A c : ChildSum(d, c) = 0
          BY <3>1, <3>2, <4>2, HangingAddsUp
        <4> QED  BY <3>3, <4>1, <4>3
      <3>6. Amount(PrimaryCarrier(d))[d] = Value(d) /\ Value(d) \in Int /\ Value(q) \in Int
        BY <3>2, <3>3, OwnAmount, ValueIsPositive DEF Typed
      <3>7. Tally'
        <4> SUFFICES ASSUME NEW p \in Device, InGraph(p)', Reads(p)
                     PROVE  remaining'[p] = Value(p) - ChildSum(p, PrimaryCarrier(p))'
          BY <2>0 DEF Tally, Left
        <4>0. ChildSum(p, PrimaryCarrier(p))' = IF p = q THEN ChildSum(q, PrimaryCarrier(d)) + Value(d)
                                                ELSE ChildSum(p, PrimaryCarrier(p))
          BY <2>0, <3>3, <3>5, <3>6
        <4>1. CASE p = d
          BY <3>3, <3>4, <3>5, <3>6, <4>0, <4>1
        <4>2. CASE p = q
          <5>1. remaining[q] = Value(q) - ChildSum(q, PrimaryCarrier(q))
            BY <3>2, <3>3 DEF Tally, Left
          <5>2. ChildSum(q, PrimaryCarrier(q)) \in Int
            BY SumIsInt DEF Typed
          <5> QED  BY <3>3, <3>4, <3>6, <4>0, <4>2, <5>1, <5>2
        <4>3. CASE p # d /\ p # q
          BY <3>2, <3>4, <4>0, <4>3 DEF Tally, Left, InGraph
        <4> QED  BY <4>1, <4>2, <4>3
      <3>8. \A e \in Device : parentOf[e] # d
        BY <2>0, <3>2 DEF EdgesEnd
      <3>9. Levels'
        <4> SUFFICES ASSUME NEW p \in Device
                     PROVE  /\ parentOf'[p] \in Device => Reads(p) /\ depth'[p] = depth'[parentOf'[p]] + 1
                            /\ InGraph(p)' /\ Reads(p) /\ parentOf'[p] \notin Device => depth'[p] = 1
          BY <2>0 DEF Levels
        <4>1. CASE p = d
          BY <3>2, <3>3, <3>4, <4>1
        <4>2. CASE p # d
          BY <3>2, <3>4, <3>8, <4>2 DEF Levels, InGraph
        <4> QED  BY <4>1, <4>2
      <3> QED  BY <3>7, <3>9 DEF TallyInv
    <2>4. CASE Built
      BY <2>4 DEF Built
    <2>5. ASSUME NEW d \in Device, Attach(d) \/ Detach(d) PROVE TallyInv'
      BY <2>5 DEF Attach, Detach
    <2>6. CASE UNCHANGED vars
      <3>1. \A n, c : ChildSum(n, c)' = ChildSum(n, c)
        <4>1. \A n : Children(n)' = Children(n)
          BY <2>6 DEF vars, Children
        <4>2. \A n, c : ChildSum(n, c)' = SumFunctionOnSet(Amount(c)', Children(n)')
          BY DEF ChildSum, Amount
        <4> QED  BY <2>0, <4>1, <4>2, AmountsStay, ChildSumIs
      <3> QED  BY <2>0, <2>6, <3>1 DEF vars, TallyInv, Tally, Levels, Left, InGraph
    <2> QED  BY <2>1, <2>2, <2>3, <2>4, <2>5, <2>6 DEF Call, Work
  <1> QED  BY <1>1, <1>2, TypedHolds, EdgeInvHolds, PTL DEF Spec

\* In a tree that is being built the children of a meter fit into it.
LEMMA BuiltTreeContains ==
  ASSUME Typed, BuildInv, TallyInv, phase = "build", NEW p \in Device, InGraph(p), Reads(p)
  PROVE  100 * ChildSum(p, PrimaryCarrier(p)) <= (100 + tolerance) * Value(p)
  <1> DEFINE s == ChildSum(p, PrimaryCarrier(p))
             v == Value(p)
  <1>1. remaining[p] = v - s /\ 100 * remaining[p] >= 0 - tolerance * v
    BY DEF TallyInv, Tally, Left, BuildInv, NotOverdrawn
  <1>2. s \in Int /\ v \in Int /\ tolerance \in Int
    BY SumIsInt, ValueIsPositive DEF Typed, TypeOK
  <1> HIDE DEF s, v
  <1>3. 100 * (v - s) >= 0 - tolerance * v
    BY <1>1
  <1>4. tolerance * v \in Int /\ (100 + tolerance) * v = 100 * v + tolerance * v
    BY <1>2, Z3
  <1>5. 100 * s <= (100 + tolerance) * v
    BY <1>2, <1>3, <1>4
  <1> QED  BY <1>5 DEF s, v

\* Fitting where there is no tolerance, without the percents.
ZeroInv ==
    tolerance = 0 =>
        \A p \in Device : InGraph(p) /\ Reads(p) => ChildSum(p, PrimaryCarrier(p)) <= Value(p)

LEMMA AttachKeepsZero ==
  ASSUME Typed, EdgeInv, ZeroInv, NEW d \in Device, Attach(d)
  PROVE  ZeroInv'
  <1>1. PICK q \in AttachTo(d) : parentOf' = [parentOf EXCEPT ![d] = q]
    BY DEF Attach
  <1>2. ~InGraph(d) /\ EdgesEnd
    BY DEF Attach, EdgeInv
  <1>3. /\ tolerance' = tolerance /\ reading' = reading
        /\ \A e : /\ PrimaryCarrier(e)' = PrimaryCarrier(e) /\ Value(e)' = Value(e)
                  /\ Reads(e)' <=> Reads(e)
    BY SameReadings DEF Attach
  <1>4. q = Root \/ q = NoFlow \/ (q \in BestExisting(d) /\ Reads(d))
    BY DEF AttachTo
  <1>5. q # None
    BY <1>4, NodeAssumption DEF BestExisting, Candidates, Placed
  <1>6. /\ \A n, c : n # q /\ n # None => ChildSum(n, c)' = ChildSum(n, c)
        /\ q # None => \A c : ChildSum(q, c)' = ChildSum(q, c) + Amount(c)[d]
        /\ \A c : ChildSum(d, c) = 0
    BY <1>1, <1>2, <1>3, HangingAddsUp
  <1>7. \A e \in Device : parentOf'[e] = IF e = d THEN q ELSE parentOf[e]
    BY <1>1 DEF Typed, TypeOK
  <1> SUFFICES ASSUME tolerance = 0, NEW p \in Device, InGraph(p)', Reads(p)
               PROVE  ChildSum(p, PrimaryCarrier(p))' <= Value(p)
    BY <1>3 DEF ZeroInv
  <1>8. p # None /\ (p # d => InGraph(p))
    BY <1>7, NodeAssumption DEF InGraph
  <1>9. CASE p # q /\ p = d
    <2>1. ChildSum(p, PrimaryCarrier(p))' = 0
      BY <1>3, <1>6, <1>8, <1>9
    <2>2. Value(p) \in Int /\ Value(p) >= 0
      BY ValueIsPositive DEF Typed
    <2> QED  BY <2>1, <2>2
  <1>10. CASE p # q /\ p # d
    <2>1. ChildSum(p, PrimaryCarrier(p))' = ChildSum(p, PrimaryCarrier(p))
      BY <1>3, <1>6, <1>8, <1>10
    <2> QED  BY <1>8, <1>10, <2>1 DEF ZeroInv
  <1>11. CASE p = q
    <2>1. p \in BestExisting(d) /\ Reads(d)
      BY <1>4, <1>11, NodeAssumption
    <2>2. PrimaryCarrier(p) = PrimaryCarrier(d) /\ Fits(Left(p), Value(p), d)
      BY <2>1 DEF BestExisting, Candidates, Placed
    <2> DEFINE s == ChildSum(p, PrimaryCarrier(p))
               v == Value(p)
               w == Value(d)
    <2>3. s \in Int /\ v \in Int /\ w \in Int
      BY SumIsInt, ValueIsPositive DEF Typed
    <2>4. Amount(PrimaryCarrier(d))[d] = w
      BY <2>1, OwnAmount
    <2>5. ChildSum(p, PrimaryCarrier(p))' = s + w
      BY <1>3, <1>5, <1>6, <1>11, <2>2, <2>4
    <2>6. 100 * (v - s) >= w * (100 - 0)
      BY <2>2 DEF Fits, Left
    <2> HIDE DEF s, v, w
    <2>7. s + w <= v
      BY <2>3, <2>6
    <2> QED  BY <2>5, <2>7 DEF v
  <1> QED  BY <1>9, <1>10, <1>11

LEMMA DetachKeepsZero ==
  ASSUME Typed, EdgeInv, Unmixed, ZeroInv, NEW d \in Device, Detach(d)
  PROVE  ZeroInv'
  <1>1. /\ \A e \in Device : parentOf'[e] = IF e = d THEN None
                             ELSE IF parentOf[e] = d THEN parentOf[d] ELSE parentOf[e]
        /\ InGraph(d)
    BY DEF Detach
  <1>2. parentOf[d] # d
    BY DEF EdgeInv, Ranked, Descends
  <1>3. /\ tolerance' = tolerance /\ reading' = reading
        /\ \A e : /\ PrimaryCarrier(e)' = PrimaryCarrier(e) /\ Value(e)' = Value(e)
                  /\ Reads(e)' <=> Reads(e)
    BY SameReadings DEF Detach
  <1> SUFFICES ASSUME tolerance = 0, NEW p \in Device, InGraph(p)', Reads(p)
               PROVE  ChildSum(p, PrimaryCarrier(p))' <= Value(p)
    BY <1>3 DEF ZeroInv
  <1> DEFINE c == PrimaryCarrier(p)
  <1>4. p # d /\ p # None
    BY <1>1, NodeAssumption DEF InGraph
  <1>5. InGraph(p)
    BY <1>1, <1>4, NodeAssumption DEF InGraph
  <1>6. ChildSum(p, c)' = SumFunctionOnSet(Amount(c), Children(p)')
    <2>1. PrimaryCarrier(p)' = c
      BY <1>3
    <2>2. \A n, e : ChildSum(n, e)' = SumFunctionOnSet(Amount(e)', Children(n)')
      BY DEF ChildSum, Amount
    <2> HIDE DEF c
    <2>3. ChildSum(p, c)' = SumFunctionOnSet(Amount(c), Children(p)')
      BY <2>1, <2>2, <1>3, AmountsStay DEF c
    <2> QED  BY <2>3
  <1>7. ChildSum(p, c) <= Value(p) /\ Value(p) \in Int
    BY <1>5, ValueIsPositive DEF ZeroInv, Typed
  <1>8. CASE parentOf[d] # p
    <2>1. Children(p)' = Children(p)
      BY <1>1, <1>4, <1>8 DEF Children
    <2> QED  BY <1>6, <1>7, <2>1, ChildSumIs
  \* The children of d take its place: together they read no more than it did.
  <1>9. CASE parentOf[d] = p
    <2> DEFINE S == Children(p) \ {d}
               T == Children(d)
    <2>1. Children(p)' = S \cup T
      BY <1>1, <1>2, <1>4, <1>9, NodeAssumption DEF Children
    <2>2. S \cap T = {} /\ S \in SUBSET Device /\ T \in SUBSET Device /\ Children(p) \in SUBSET Device /\ d \in Children(p)
      BY <1>4, <1>9 DEF Children
    <2>3. /\ IsFiniteSet(S) /\ IsFiniteSet(T) /\ IsFiniteSet(Children(p))
          /\ Figures(Amount(c), S \cup T) /\ Figures(Amount(c), Children(p))
          /\ Figures(Amount(c), S) /\ Figures(Amount(c), T)
      <3>1. reading \in Reading
        BY DEF Typed
      <3>2. S \cup T \in SUBSET Device
        BY <2>2
      <3> HIDE DEF S, T
      <3> QED  BY <2>2, <3>1, <3>2, AmountsAreFigures
    <2>4. SumFunctionOnSet(Amount(c), Children(p)) = Amount(c)[d] + SumFunctionOnSet(Amount(c), S)
      BY <2>2, <2>3, SumTake
    <2>5. PrimaryCarrier(d) = c /\ Reads(d)
      BY <1>9 DEF Unmixed, Reads
    <2>6. Amount(c)[d] = Value(d) /\ Value(d) \in Int
      BY <2>5, OwnAmount, ValueIsPositive DEF Typed
    <2>7. SumFunctionOnSet(Amount(c), T) <= Value(d)
      BY <1>1, <2>5, ChildSumIs DEF ZeroInv
    <2> HIDE DEF S, T, c
    <2>8. SumFunctionOnSet(Amount(c), S \cup T) = SumFunctionOnSet(Amount(c), S) + SumFunctionOnSet(Amount(c), T)
      BY <2>2, <2>3, SumJoined
    <2>9. SumFunctionOnSet(Amount(c), S) \in Int /\ SumFunctionOnSet(Amount(c), T) \in Int
      BY <2>3, SumType
    <2>10. ChildSum(p, c) = SumFunctionOnSet(Amount(c), Children(p))
      BY ChildSumIs
    <2>11. SumFunctionOnSet(Amount(c), S \cup T) <= Value(p)
      BY <1>7, <2>4, <2>6, <2>7, <2>8, <2>9, <2>10
    <2>12. ChildSum(p, c)' <= Value(p)
      BY <1>6, <2>1, <2>11
    <2> QED  BY <2>12 DEF c
  <1> QED  BY <1>8, <1>9

\* Never do the children of a meter in a generated graph read more than the
\* meter and the tolerance together (place).
THEOREM ChildrenFit == Spec => []Contained
  <1>1. Typed /\ BuildInv /\ TallyInv => Contained
    BY BuiltTreeContains DEF Contained, Fitting
  <1> QED  BY <1>1, TypedHolds, BuildInvHolds, TallyInvHolds, PTL

ZeroIsFitting == tolerance = 0 => (Fitting <=> ZeroInv)

LEMMA ZeroIs == Typed => ZeroIsFitting
  <1> SUFFICES ASSUME Typed, tolerance = 0, NEW p \in Device
               PROVE  100 * ChildSum(p, PrimaryCarrier(p)) <= (100 + tolerance) * Value(p)
                         <=> ChildSum(p, PrimaryCarrier(p)) <= Value(p)
    BY DEF ZeroIsFitting, ZeroInv, Fitting
  <1> DEFINE s == ChildSum(p, PrimaryCarrier(p))
             v == Value(p)
  <1>1. s \in Int /\ v \in Int
    BY SumIsInt, ValueIsPositive DEF Typed
  <1> HIDE DEF s, v
  <1>2. 100 * s <= (100 + 0) * v <=> s <= v
    BY <1>1
  <1> QED  BY <1>2 DEF s, v

\* Without a tolerance no number of devices that come and go overloads a meter
\* while the figures are the same: what is attached finds room, and what goes
\* leaves to its parent no more than it took from it, in any order
\* (bestExistingParent, Detach).  Only another window's figures do.
THEOREM OnlyNewWindowsOverload == Spec => OnlyWindowsOverload
  <1>1. /\ Typed /\ EdgeInv /\ ZeroIsFitting /\ [Next]_vars
        /\ Typed' /\ ZeroIsFitting' /\ Contained'
        => [reading' = reading /\ tolerance = 0 /\ Unmixed /\ Fitting => Fitting']_vars
    <2> SUFFICES ASSUME Typed, EdgeInv, ZeroIsFitting, [Next]_vars,
                        Typed', ZeroIsFitting', Contained',
                        reading' = reading, tolerance = 0, Unmixed, Fitting
                 PROVE  Fitting'
      OBVIOUS
    <2>1. CASE phase' = "build"
      BY <2>1 DEF Contained
    <2>2. CASE phase' = "built"
      <3>1. ASSUME UNCHANGED parentOf, tolerance' = tolerance PROVE Fitting'
        <4>1. \A n, c : ChildSum(n, c)' = ChildSum(n, c)
          <5>1. \A n : Children(n)' = Children(n)
            BY <3>1 DEF Children
          <5>2. \A n, c : ChildSum(n, c)' = SumFunctionOnSet(Amount(c)', Children(n)')
            BY DEF ChildSum, Amount
          <5> QED  BY <5>1, <5>2, AmountsStay, ChildSumIs
        <4>2. \A d : /\ PrimaryCarrier(d)' = PrimaryCarrier(d) /\ Value(d)' = Value(d)
                     /\ Reads(d)' <=> Reads(d)
          BY SameReadings
        <4> QED  BY <3>1, <4>1, <4>2 DEF Fitting, InGraph
      <3>2. CASE Built \/ NewWindow \/ UNCHANGED vars
        <4>1. UNCHANGED parentOf /\ tolerance' = tolerance
          BY <3>2 DEF Built, NewWindow, vars
        <4> QED  BY <3>1, <4>1
      <3>3. ASSUME NEW d \in Device, Attach(d) \/ Detach(d) PROVE Fitting'
        <4>1. tolerance' = 0
          BY <3>3 DEF Attach, Detach
        <4>2. ZeroInv
          BY DEF ZeroIsFitting
        <4>3. ZeroInv'
          BY <3>3, <4>2, AttachKeepsZero, DetachKeepsZero
        <4> QED  BY <4>1, <4>3 DEF ZeroIsFitting
      <3> QED  BY <2>2, <3>2, <3>3 DEF Next, Work, PlaceUnread, PlaceAtRoot, PlaceUnder, Due
    <2> QED  BY <2>1, <2>2 DEF Typed, TypeOK
  <1>2. Spec => []Contained
    BY ChildrenFit
  <1> QED  BY <1>1, <1>2, ZeroIs, TypedHolds, EdgeInvHolds, PTL DEF Spec, OnlyWindowsOverload

-----------------------------------------------------------------------------
(* Build and Attach look for the same place *)

\* Walking up finds the level a device was placed at.
LEMMA DepthIs ==
  ASSUME Typed, EdgesEnd, Unmixed, TallyInv, phase = "build"
  PROVE  \A p \in Device : InGraph(p) /\ Reads(p) => DepthOf[p] = depth[p]
  <1> DEFINE Full(f)  == [d \in Device |-> IF parentOf[d] \in Device THEN 1 + f[parentOf[d]] ELSE 1]
             found    == CHOOSE f : f = Full(f)
             On(d)    == InGraph(d) /\ Reads(d)
             level    == [d \in Device |-> IF On(d) THEN depth[d] ELSE 1]
             Wrong    == {d \in Device : On(d) /\ found[d] # depth[d]}
             Depths   == {depth[d] : d \in Wrong}
  <1>1. \A d \in Device : parentOf[d] \in Device =>
           On(d) /\ On(parentOf[d]) /\ depth[d] = depth[parentOf[d]] + 1
    <2> SUFFICES ASSUME NEW d \in Device, parentOf[d] \in Device
                 PROVE  On(d) /\ On(parentOf[d]) /\ depth[d] = depth[parentOf[d]] + 1
      OBVIOUS
    <2>1. Reads(d) /\ depth[d] = depth[parentOf[d]] + 1
      BY DEF TallyInv, Levels
    <2>2. InGraph(d) /\ InGraph(parentOf[d])
      BY NodeAssumption DEF EdgesEnd, InGraph
    <2>3. Reads(parentOf[d])
      BY <2>1 DEF Unmixed, Reads
    <2> QED  BY <2>1, <2>2, <2>3
  <1>2. \A d \in Device : On(d) /\ parentOf[d] \notin Device => depth[d] = 1
    BY DEF TallyInv, Levels
  <1>3. \A d \in Device : depth[d] \in Nat
    BY DEF Typed, TypeOK
  <1> HIDE DEF On
  <1>4. level = Full(level)
    BY <1>1, <1>2, <1>3
  <1>5. found = Full(found)
    <2> HIDE DEF Full, level
    <2> QED  BY <1>4
  <1>6. DepthOf = found
    BY DEF DepthOf
  <1> HIDE DEF found
  <1>7. \A d \in Device : found[d] = IF parentOf[d] \in Device THEN 1 + found[parentOf[d]] ELSE 1
    BY <1>5
  <1> HIDE DEF Full, level
  <1>8. Wrong = {}
    <2> SUFFICES ASSUME Wrong # {} PROVE FALSE
      OBVIOUS
    <2>1. PICK n \in Depths  : \A m \in Depths  : n <= m
      <3>1. Depths  \in SUBSET Nat /\ Depths  # {}
        BY <1>3
      <3> HIDE DEF Depths
      <3> QED  BY <3>1, LowestExists
    <2>2. PICK d \in Wrong : depth[d] = n
      BY <2>1
    <2>3. d \in Device /\ On(d) /\ found[d] # depth[d]
      BY <2>2
    <2>4. parentOf[d] \in Device
      BY <1>2, <1>7, <2>3
    <2>5. depth[parentOf[d]] \in Nat /\ depth[parentOf[d]] < n
      BY <1>1, <1>3, <2>2, <2>3, <2>4
    <2>6. parentOf[d] \notin Wrong
      BY <2>1, <2>2, <2>5, <1>3
    <2>7. found[parentOf[d]] = depth[parentOf[d]]
      BY <1>1, <2>3, <2>4, <2>6
    <2> QED  BY <1>1, <1>3, <1>7, <2>3, <2>4, <2>7
  <1> QED  BY <1>6, <1>8 DEF On

\* Where the two find room they choose among the same meters: Build by name
\* where Attach goes by id, but only after depth and what is left.
THEOREM PlaceAndAttachAgree == Spec => []AttachAgrees
  <1>1. Typed /\ EdgesEnd /\ BuiltUnmixed /\ TallyInv => AttachAgrees
    <2> SUFFICES ASSUME Typed, EdgesEnd, BuiltUnmixed, TallyInv, NEW d \in Device, Due(d)
                 PROVE  /\ Best(d) = {} <=> BestExisting(d) = {}
                        /\ \A p \in Best(d), q \in BestExisting(d) :
                              depth[p] = depth[q] /\ remaining[p] = remaining[q]
      BY DEF AttachAgrees
    <2> DEFINE E == Eligible(d)
    <2>1. phase = "build" /\ Reads(d) /\ Unmixed
      BY DEF Due, BuiltUnmixed
    <2>2. \A p \in Placed(PrimaryCarrier(d)) :
             p \in Device /\ DepthOf[p] = depth[p] /\ remaining[p] = Left(p)
      <3> SUFFICES ASSUME NEW p \in Placed(PrimaryCarrier(d))
                   PROVE  p \in Device /\ DepthOf[p] = depth[p] /\ remaining[p] = Left(p)
        OBVIOUS
      <3>1. p \in Device /\ InGraph(p) /\ Reads(p)
        BY <2>1 DEF Placed, Reads
      <3> QED  BY <2>1, <3>1, DepthIs DEF TallyInv, Tally
    <2>3. Candidates(d) = E
      BY <2>2 DEF Candidates, Eligible
    <2>4. \A p \in E : /\ p \in Device /\ DepthOf[p] = depth[p] /\ remaining[p] = Left(p)
                       /\ p \in Int /\ depth[p] \in Int /\ remaining[p] \in Int
      <3>1. \A p \in E : p \in Placed(PrimaryCarrier(d))
        BY DEF Eligible
      <3>2. \A p \in Device : p \in Int /\ depth[p] \in Int /\ remaining[p] \in Int
        BY DeviceAssumption DEF Typed, TypeOK
      <3> QED  BY <2>2, <3>1, <3>2
    <2> DEFINE share == [p \in Device |-> Prefix[p, d]]
    <2>5. \A p \in Device : share[p] \in Int
      <3>1. \A p \in Device : Prefix[p, d] \in Nat
        BY PrefixAssumption, Zenon
      <3>2. \A p \in Device : share[p] \in Nat
        BY <3>1, Zenon
      <3> HIDE DEF share
      <3> QED  BY <3>2
    <2> DEFINE Nearer(p, q) ==
                  \/ depth[p] < depth[q]
                  \/ depth[p] = depth[q] /\ remaining[p] > remaining[q]
                  \/ depth[p] = depth[q] /\ remaining[p] = remaining[q] /\ share[p] > share[q]
                  \/ depth[p] = depth[q] /\ remaining[p] = remaining[q] /\ share[p] = share[q] /\ p < q
    <2>13. \A p, q \in Device : Shallower(p, q, d) <=> Nearer(p, q)
      <3> SUFFICES ASSUME NEW p \in Device, NEW q \in Device PROVE Shallower(p, q, d) <=> Nearer(p, q)
        OBVIOUS
      <3>1. share[p] = Prefix[p, d] /\ share[q] = Prefix[q, d]
        BY Zenon
      <3> HIDE DEF share
      <3> QED  BY <3>1, Zenon DEF Shallower
    <2> HIDE DEF share
    <2>6. IsFiniteSet(E)
      <3>1. E \in SUBSET Device
        BY <2>4
      <3> QED  BY <3>1, DeviceAssumption, FS_Subset
    <2> HIDE DEF E
    <2>7. /\ Best(d) = {p \in E : \A q \in E \ {p} : Shallower(p, q, d)}
          /\ BestExisting(d) = {p \in E : \A q \in E \ {p} :
                \/ DepthOf[p] < DepthOf[q]
                \/ DepthOf[p] = DepthOf[q] /\ Left(p) > Left(q)
                \/ DepthOf[p] = DepthOf[q] /\ Left(p) = Left(q) /\ p < q}
      BY <2>3 DEF Best, BestExisting, E
    <2> DEFINE Closer(p, q) == \/ depth[p] < depth[q]
                               \/ depth[p] = depth[q] /\ remaining[p] > remaining[q]
                               \/ depth[p] = depth[q] /\ remaining[p] = remaining[q] /\ p < q
    <2>8. BestExisting(d) = {p \in E : \A q \in E \ {p} : Closer(p, q)}
      <3>1. \A p, q \in E : Closer(p, q) <=>
               \/ DepthOf[p] < DepthOf[q]
               \/ DepthOf[p] = DepthOf[q] /\ Left(p) > Left(q)
               \/ DepthOf[p] = DepthOf[q] /\ Left(p) = Left(q) /\ p < q
        BY <2>4
      <3> HIDE DEF Closer
      <3> QED  BY <2>7, <3>1
    <2>14. Best(d) = {p \in E : \A q \in E \ {p} : Nearer(p, q)}
      <3> HIDE DEF Nearer
      <3>1. E \subseteq Device
        BY <2>4
      <3> QED  BY <2>7, <2>13, <3>1
    \* Both orders are total, so each has a first among those that have room.
    <2>9. E # {} => Best(d) # {}
      <3> SUFFICES ASSUME E # {} PROVE \E p \in E : \A q \in E \ {p} : Nearer(p, q)
        BY <2>14
      <3> DEFINE R == {pq \in E \X E : Nearer(pq[1], pq[2])}
      <3>1. \A p, q \in E : <<p, q>> \in R <=> Nearer(p, q)
        OBVIOUS
      <3> HIDE DEF R
      <3>2. \A p, q \in E : p # q => Nearer(p, q) \/ Nearer(q, p)
        BY <2>4, <2>5
      <3>3. \A p \in E : ~Nearer(p, p)
        BY <2>4, <2>5
      <3>4. \A p, q, r \in E : Nearer(p, q) /\ Nearer(q, r) => Nearer(p, r)
        BY <2>4, <2>5
      <3> HIDE DEF Nearer
      <3>5. \A k \in E : <<k, k>> \notin R
        BY <3>1, <3>3
      <3>6. \A k, l, m \in E : <<k, l>> \in R /\ <<l, m>> \in R => <<k, m>> \in R
        BY <3>1, <3>4
      <3>7. PICK p \in E : \A q \in E : <<q, p>> \notin R
        BY <2>6, <3>5, <3>6, TopExists
      <3> QED  BY <3>1, <3>2, <3>7
    <2>10. E # {} => BestExisting(d) # {}
      <3> SUFFICES ASSUME E # {} PROVE \E p \in E : \A q \in E \ {p} : Closer(p, q)
        BY <2>8
      <3> DEFINE R == {pq \in E \X E : Closer(pq[1], pq[2])}
      <3>1. \A p, q \in E : <<p, q>> \in R <=> Closer(p, q)
        OBVIOUS
      <3> HIDE DEF R
      <3>2. \A p, q \in E : p # q => Closer(p, q) \/ Closer(q, p)
        BY <2>4
      <3>3. \A k \in E : ~Closer(k, k)
        BY <2>4
      <3>4. \A p, q, r \in E : Closer(p, q) /\ Closer(q, r) => Closer(p, r)
        BY <2>4
      <3> HIDE DEF Closer
      <3>5. PICK p \in E : \A q \in E : <<q, p>> \notin R
        <4>1. \A k \in E : <<k, k>> \notin R
          BY <3>1, <3>3
        <4>2. \A k, l, m \in E : <<k, l>> \in R /\ <<l, m>> \in R => <<k, m>> \in R
          BY <3>1, <3>4
        <4> QED  BY <2>6, <4>1, <4>2, TopExists
      <3> QED  BY <3>1, <3>2, <3>5
    <2>11. ASSUME NEW p \in Best(d), NEW q \in BestExisting(d)
           PROVE  depth[p] = depth[q] /\ remaining[p] = remaining[q]
      <3>1. p \in E /\ q \in E /\ (p # q => Nearer(p, q) /\ Closer(q, p))
        <4> HIDE DEF Nearer, Closer
        <4> QED  BY <2>8, <2>14
      <3> QED  BY <2>4, <2>5, <3>1
    <2>12. (Best(d) # {} => E # {}) /\ (BestExisting(d) # {} => E # {})
      <3> HIDE DEF Closer, Nearer
      <3> QED  BY <2>8, <2>14
    <2> QED  BY <2>9, <2>10, <2>11, <2>12
  <1> QED  BY <1>1, TypedHolds, EdgesEndInside, BuiltUnmixedHolds, TallyInvHolds, PTL

=============================================================================
