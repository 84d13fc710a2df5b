---------------------------- MODULE Readings_proofs ----------------------------
(***************************************************************************)
(* Of the readings of a pass, for any number of devices, columns and       *)
(* batches: their shape, that they are of one stretch, that a batch cut    *)
(* short leaves nothing behind, that no question is refused, that the      *)
(* figures are what the meters counted, and that the report and the tree   *)
(* agree about a device without a figure.                                  *)
(***************************************************************************)
EXTENDS Readings, Counting_proofs

-----------------------------------------------------------------------------
(* The carrier of a value, and the list of what is asked *)

LEMMA CarrierOfRange == \A v : CarrierOf(v) \in Carrier \cup {None}
  <1> SUFFICES ASSUME NEW v PROVE CarrierOf(v) \in Carrier \cup {None}
    OBVIOUS
  <1> DEFINE C == {c \in Carrier : v.function = FunctionOf[c] /\ MediumOf[c] \in v.aspects}
  <1>1. C # {} => Min(C) \in C
    <2>1. C \in SUBSET Nat
      BY CarrierAssumption
    <2> HIDE DEF C
    <2>2. C # {} => \E i \in C : \A j \in C : i <= j
      BY <2>1, LowestExists
    <2> QED  BY <2>2 DEF Min
  <1> QED  BY <1>1 DEF CarrierOf

\* A column is one of a carrier, and a type has finitely many.
LEMMA ColumnsFinite ==
    ASSUME NEW V, IsFiniteSet(V)
    PROVE  /\ IsFiniteSet(Columns(V))
           /\ \A c \in Columns(V) : c.carrier \in Carrier
  <1> DEFINE S == {w \in Collected(V) : CarrierOf(w) # None}
             col(v) == [service |-> v.service, name |-> v.path, carrier |-> CarrierOf(v)]
             f == [v \in S |-> col(v)]
  <1>1. IsFiniteSet(S)
    <2>1. S \subseteq V
      BY DEF Collected
    <2> QED  BY <2>1, FS_Subset
  <1>2. f \in Surjection(S, Columns(V))
    BY DEF Surjection, Columns
  <1>3. IsFiniteSet(Columns(V))
    BY <1>1, <1>2, FS_Surjection
  <1>4. ASSUME NEW c \in Columns(V) PROVE c.carrier \in Carrier
    BY CarrierOfRange DEF Columns
  <1> QED  BY <1>3, <1>4

\* What is asked of a device is asked of its own columns, finitely often.
LEMMA AsksFinite ==
    ASSUME NEW d, NEW V, IsFiniteSet(V)
    PROVE  /\ IsFiniteSet(AsksOf(d, V))
           /\ \A a \in AsksOf(d, V) : a.device = d /\ a.column.carrier \in Carrier
  <1> DEFINE S == {c \in Columns(V) : \A e \in Columns(V) :
                      e.name = c.name /\ e.carrier = c.carrier => c.service <= e.service}
             f == [c \in S |-> [device |-> d, column |-> c]]
  <1>1. IsFiniteSet(S)
    BY ColumnsFinite, FS_Subset
  <1>2. AsksOf(d, V) = {[device |-> d, column |-> c] : c \in S}
    BY DEF AsksOf
  <1>3. f \in Surjection(S, AsksOf(d, V))
    BY <1>2 DEF Surjection
  <1>4. IsFiniteSet(AsksOf(d, V))
    BY <1>1, <1>3, FS_Surjection
  <1>5. \A a \in AsksOf(d, V) : a.device = d /\ a.column.carrier \in Carrier
    BY <1>2, ColumnsFinite
  <1> QED  BY <1>4, <1>5

\* The list of a set holds each of its elements once.
LEMMA ListOfSet ==
    ASSUME NEW S, IsFiniteSet(S)
    PROVE  /\ Len(SetToSeq(S)) \in Nat /\ DOMAIN SetToSeq(S) = 1..Len(SetToSeq(S))
           /\ \A i \in DOMAIN SetToSeq(S) : SetToSeq(S)[i] \in S
           /\ \A x \in S : \E i \in DOMAIN SetToSeq(S) : SetToSeq(S)[i] = x
           /\ \A i, j \in DOMAIN SetToSeq(S) : SetToSeq(S)[i] = SetToSeq(S)[j] => i = j
  <1> DEFINE n == Cardinality(S)
             g == SetToSeq(S)
  <1>1. PICK f : f \in Bijection(1..n, S)
    BY FS_CardinalityType DEF ExistsBijection
  <1>2. f \in [1..n -> S] /\ IsInjective(f)
    BY <1>1 DEF Bijection, Injection, IsInjective
  <1>3. g \in [1..n -> S] /\ IsInjective(g)
    BY <1>2 DEF SetToSeq
  <1>4. n \in Nat /\ IsFiniteSet(1..n) /\ Cardinality(1..n) = n
    BY FS_CardinalityType, FS_Interval
  <1>5. g \in Surjection(1..n, S)
    <2>1. g \in Injection(1..n, S)
      BY <1>3 DEF Injection
    <2> HIDE DEF g
    <2> QED  BY <1>4, <2>1, FS_Injection
  <1>6. Len(g) = n
    BY <1>3, <1>4
  <1> HIDE DEF g, n
  <1>7. \A x \in S : \E i \in 1..n : g[i] = x
    BY <1>5 DEF Surjection
  <1>8. \A i, j \in 1..n : g[i] = g[j] => i = j
    BY <1>3 DEF IsInjective
  <1> QED  BY <1>3, <1>4, <1>6, <1>7, <1>8 DEF g

-----------------------------------------------------------------------------
(* Types *)

AskKey(a) == <<a.device, a.column.carrier>>

\* The devices the service knows are of types the platform may hold; what is
\* asked is asked of the devices of the pass.
TypeInv ==
    /\ TypeOK
    /\ definition \in [Type -> Definition] /\ typeOf \in [Device -> Type \cup {None}]
    /\ \A d \in DOMAIN known : known[d].variables \in Definition
    /\ \A i \in DOMAIN asks : AskKey(asks[i]) \in Key

LEMMA TotalsKeys ==
    ASSUME TypeInv
    PROVE  /\ DOMAIN Totals \subseteq Key
           /\ \A k \in DOMAIN Totals : Totals[k].window = window
  <1>1. \A i \in DOMAIN asks : <<asks[i].device, asks[i].column.carrier>> \in Key
    BY DEF TypeInv, AskKey
  <1> QED  BY <1>1 DEF Totals

LEMMA PassAsks ==
    ASSUME TypeInv, NEW G \in SUBSET DOMAIN known, NewPass(G)
    PROVE  /\ \A i \in DOMAIN asks' : AskKey(asks'[i]) \in Key
           /\ DOMAIN read' = 1..(2 * Len(asks'))
           /\ DOMAIN group' \subseteq Device
           /\ DOMAIN cached' \subseteq Key
           /\ clock' = clock + 1 /\ window' = clock + 1
           /\ \A k \in DOMAIN cached' : cached'[k].window = clock + 1
  <1> DEFINE now     == clock + 1
             fresh   == {k \in KeysOf(G) : k[2] \in CarriersOf(known[k[1]].variables) /\ Fresh(k, now, now)}
             missing == {d \in G : \E c \in CarriersOf(known[d].variables) : <<d, c>> \notin fresh}
             S       == {AsksOf(d, known[d].variables) : d \in missing}
             f       == [d \in missing |-> AsksOf(d, known[d].variables)]
  <1>1. G \subseteq Device
    BY DEF TypeInv, TypeOK
  <1>2. \A d \in G : IsFiniteSet(known[d].variables)
    BY DeviceAssumption DEF TypeInv
  <1>3. IsFiniteSet(S)
    <2>1. missing \subseteq Device
      BY <1>1
    <2>2. IsFiniteSet(missing)
      BY <2>1, DeviceAssumption, FS_Subset
    <2>3. f \in Surjection(missing, S)
      BY DEF Surjection
    <2> HIDE DEF f, S, missing
    <2> QED  BY <2>2, <2>3, FS_Surjection
  <1>4. \A T \in S : IsFiniteSet(T)
    BY <1>2, AsksFinite
  <1>5. IsFiniteSet(UNION S)
    <2> HIDE DEF S
    <2> QED  BY <1>3, <1>4, FS_UNION
  <1>6. \A a \in UNION S : AskKey(a) \in Key
    <2> SUFFICES ASSUME NEW d \in missing, NEW a \in AsksOf(d, known[d].variables)
                 PROVE  AskKey(a) \in Key
      OBVIOUS
    <2>1. a.device = d /\ a.column.carrier \in Carrier
      BY <1>2, AsksFinite
    <2> QED  BY <1>1, <2>1 DEF AskKey, Key, KeysOf
  <1>7. asks' = SetToSeq(UNION S) /\ DOMAIN read' = 1..(2 * Len(asks'))
    BY DEF NewPass
  <1>8. \A i \in DOMAIN asks' : AskKey(asks'[i]) \in Key
    <2> HIDE DEF S
    <2> QED  BY <1>5, <1>6, <1>7, ListOfSet
  <1>9. clock' = clock + 1 /\ window' = clock + 1 /\ group' = Kept(known, G) /\ cached' = Kept(held, fresh)
    BY DEF NewPass
  <1>10. DOMAIN group' \subseteq Device
    BY <1>9 DEF TypeInv, TypeOK, Kept
  <1>11. DOMAIN cached' \subseteq Key
    BY <1>9 DEF TypeInv, TypeOK, Kept
  <1>12. \A k \in DOMAIN cached' : cached'[k].window = clock + 1
    <2>1. \A k \in fresh : held[k].window = now
      BY DEF Fresh
    <2> QED  BY <1>9, <2>1 DEF Kept
  <1> QED  BY <1>7, <1>8, <1>9, <1>10, <1>11, <1>12

LEMMA TypeInit == Init => TypeInv
  <1> SUFFICES ASSUME Init PROVE TypeInv
    OBVIOUS
  <1>1. definition \in [Type -> Definition] /\ typeOf \in [Device -> Type \cup {None}]
    BY InitialAssumption DEF Init
  <1>2. asks = <<>> /\ read = <<>> /\ DOMAIN read = 1..(2 * Len(asks))
    BY DEF Init
  <1>3. DOMAIN asks = {}
    BY <1>2
  <1>4. DOMAIN known = {} /\ DOMAIN held = {} /\ DOMAIN group = {} /\ DOMAIN cached = {} /\ DOMAIN result = {}
    BY DEF Init, Empty
  <1>5. /\ clock = 0 /\ window = None /\ done = FALSE /\ batchSize \in BatchSizes
        /\ phase = "idle" /\ outcome = "none" /\ start = 0
    BY DEF Init
  <1> QED  BY <1>1, <1>2, <1>3, <1>4, <1>5 DEF TypeInv, TypeOK

LEMMA TypeNext == TypeInv /\ [Next]_vars => TypeInv'
  <1> SUFFICES ASSUME TypeInv, [Next]_vars PROVE TypeInv'
    OBVIOUS
  <1> USE DEF TypeInv, TypeOK, Key
  <1>1. CASE RefreshDevices
    <2> DEFINE next == [d \in {e \in Device : typeOf[e] # None} |-> Entry(d)]
    <2>1. known' = next /\ held' = Kept(held, KeysOf(DOMAIN next))
      BY <1>1 DEF RefreshDevices
    <2>2. \A d \in DOMAIN known' : d \in Device /\ known'[d].variables \in Definition
      BY <2>1 DEF Entry
    <2>3. DOMAIN held' \subseteq Key
      BY <2>1 DEF Kept
    <2> QED  BY <1>1, <2>2, <2>3 DEF RefreshDevices, platformVars, fetchVars
  <1>2. ASSUME NEW d \in Device, RefreshDevice(d) PROVE TypeInv'
    <2>1. DOMAIN known' \subseteq Device /\ \A e \in DOMAIN known' : known'[e].variables \in Definition
      <3>1. CASE typeOf[d] = None
        BY <1>2, <3>1 DEF RefreshDevice, Kept
      <3>2. CASE typeOf[d] # None
        <4> DEFINE one == [e \in {d} |-> Entry(e)]
        <4>1. known' = Over(known, one)
          BY <1>2, <3>2 DEF RefreshDevice
        <4>2. DOMAIN one = {d} /\ one[d].variables \in Definition
          BY <3>2 DEF Entry
        <4> HIDE DEF one
        <4> QED  BY <4>1, <4>2 DEF Over
      <3> QED  BY <3>1, <3>2
    <2>2. DOMAIN held' \subseteq Key
      BY <1>2 DEF RefreshDevice, Kept
    <2> QED  BY <1>2, <2>1, <2>2 DEF RefreshDevice, platformVars, fetchVars
  <1>3. ASSUME NEW G \in SUBSET DOMAIN known, StartPass(G) PROVE TypeInv'
    <2>1. NewPass(G)
      BY <1>3 DEF StartPass
    <2>2. /\ \A i \in DOMAIN asks' : AskKey(asks'[i]) \in Key
          /\ DOMAIN read' = 1..(2 * Len(asks'))
          /\ DOMAIN group' \subseteq Device /\ DOMAIN cached' \subseteq Key
          /\ clock' = clock + 1 /\ window' = clock + 1
      BY <2>1, PassAsks
    <2> QED  BY <1>3, <2>2 DEF StartPass, cacheVars, Empty
  <1>4. ASSUME Fail PROVE TypeInv'
    BY <1>4 DEF Fail, platformVars, cacheVars
  <1>5. CASE Call
    <2>1. start' \in Nat
      BY <1>5, BatchAssumption DEF Call
    <2>2. DOMAIN read' = 1..(2 * Len(asks))
      BY <1>5 DEF Call, Legs
    <2> QED  BY <1>5, <2>1, <2>2 DEF Call, platformVars, cacheVars
  <1>6. CASE Finish
    <2>1. held' = Over(held, Totals) /\ result' = Over(cached, Totals)
      BY <1>6 DEF Finish
    <2>2. DOMAIN Totals \subseteq Key
      BY TotalsKeys
    <2>3. DOMAIN held' \subseteq Key /\ DOMAIN result' \subseteq Key
      BY <2>1, <2>2 DEF Over
    <2> QED  BY <1>6, <2>3 DEF Finish, platformVars
  <1>7. CASE Cancel
    BY <1>7 DEF Cancel, platformVars, cacheVars, fetchVars
  <1>8. CASE Change
    BY <1>8 DEF Change, cacheVars, fetchVars
  <1>9. CASE UNCHANGED vars
    BY <1>9 DEF vars, platformVars, cacheVars, fetchVars
  <1> QED  BY <1>1, <1>2, <1>3, <1>4, <1>5, <1>6, <1>7, <1>8, <1>9
            DEF Next, Pass, Cancelled, CallFails

\* The columns, the cache and the pass keep their shape, whatever the platform
\* holds and in whatever batches it is asked (Fetcher, Cache).
THEOREM TypeCorrect == Spec => []TypeOK
  <1>1. TypeInv => TypeOK
    BY DEF TypeInv
  <1> QED  BY TypeInit, TypeNext, <1>1, PTL DEF Spec

-----------------------------------------------------------------------------
(* One stretch, and no part of an answer *)

\* Nothing the cache holds is newer than the last pass; before a pass has its
\* figures nothing is of its window, but what it took from the cache is.
StretchInv ==
    /\ \A k \in DOMAIN held : held[k].window \in 1..clock
    /\ outcome # "measured" => \A k \in DOMAIN held : held[k].window # window
    /\ outcome # "measured" => DOMAIN result = {}
    /\ \A k \in DOMAIN cached : cached[k].window = window
    /\ \A k \in DOMAIN result : result[k].window = window
    /\ window = None \/ window \in 1..clock
    /\ phase = "fetch" => window \in 1..clock /\ outcome = "none"

LEMMA StretchInit == Init => StretchInv
  <1> SUFFICES ASSUME Init PROVE StretchInv
    OBVIOUS
  <1>1. DOMAIN held = {} /\ DOMAIN cached = {} /\ DOMAIN result = {}
    BY DEF Init, Empty
  <1> QED  BY <1>1 DEF Init, StretchInv

LEMMA StretchNext == TypeInv /\ StretchInv /\ [Next]_vars => StretchInv'
  <1> SUFFICES ASSUME TypeInv, StretchInv, [Next]_vars PROVE StretchInv'
    OBVIOUS
  <1>0. clock \in Nat
    BY DEF TypeInv, TypeOK
  <1> USE DEF StretchInv
  <1>1. CASE RefreshDevices
    BY <1>1 DEF RefreshDevices, fetchVars, Kept
  <1>2. ASSUME NEW d \in Device, RefreshDevice(d) PROVE StretchInv'
    <2>1. \/ held' = held
          \/ held' = Kept(held, DOMAIN held \ KeysOf({d}))
      BY <1>2 DEF RefreshDevice
    <2>2. \A k \in DOMAIN held' : k \in DOMAIN held /\ held'[k] = held[k]
      BY <2>1 DEF Kept
    <2> QED  BY <1>2, <2>2 DEF RefreshDevice, fetchVars
  \* A new pass: its window is newer than all the cache holds, so it finds nothing there.
  <1>3. ASSUME NEW G \in SUBSET DOMAIN known, StartPass(G) PROVE StretchInv'
    <2>1. NewPass(G)
      BY <1>3 DEF StartPass
    <2>2. clock' = clock + 1 /\ window' = clock + 1 /\ \A k \in DOMAIN cached' : cached'[k].window = clock + 1
      BY <2>1, PassAsks
    <2>3. held' = held /\ outcome' = "none" /\ DOMAIN result' = {}
      BY <1>3 DEF StartPass, cacheVars, Empty
    <2>4. \A k \in DOMAIN held' : held'[k].window \in 1..clock' /\ held'[k].window # window'
      BY <1>0, <2>2, <2>3
    <2> QED  BY <1>0, <2>2, <2>3, <2>4
  <1>4. ASSUME Fail, phase = "fetch" PROVE StretchInv'
    BY <1>4 DEF Fail, cacheVars
  <1>5. CASE Call
    BY <1>5 DEF Call, cacheVars
  <1>6. CASE Finish
    <2>1. held' = Over(held, Totals) /\ result' = Over(cached, Totals) /\ outcome' = "measured"
      BY <1>6 DEF Finish
    <2>2. \A k \in DOMAIN Totals : Totals[k].window = window
      BY TotalsKeys
    <2>3. window \in 1..clock
      BY <1>6 DEF Finish
    <2>4. \A k \in DOMAIN held' : held'[k].window \in 1..clock
      BY <2>1, <2>2, <2>3 DEF Over
    <2>5. \A k \in DOMAIN result' : result'[k].window = window
      BY <2>1, <2>2 DEF Over
    <2>6. clock' = clock /\ window' = window /\ cached' = cached /\ phase' = "idle"
      BY <1>6 DEF Finish
    <2> QED  BY <2>1, <2>3, <2>4, <2>5, <2>6
  <1>7. CASE Cancel
    BY <1>7 DEF Cancel, cacheVars, fetchVars
  <1>8. CASE Change
    BY <1>8 DEF Change, cacheVars, fetchVars
  <1>9. CASE UNCHANGED vars
    BY <1>9 DEF vars, cacheVars, fetchVars
  <1> QED  BY <1>1, <1>2, <1>3, <1>4, <1>5, <1>6, <1>7, <1>8, <1>9
            DEF Next, Pass, Cancelled, CallFails, More

\* Whatever is cached, the figures a structure is built from were all read over
\* the window of its pass (readings, Cache.Readings).
THEOREM StructureIsOfOneStretch == Spec => []OneStretch
  <1>1. StretchInv => OneStretch
    BY DEF StretchInv, OneStretch
  <1> QED  BY TypeInit, TypeNext, StretchInit, StretchNext, <1>1, PTL DEF Spec

\* A pass whose batch failed or was cancelled has put none of its figures into
\* the cache (Fetch, PutReadings).
THEOREM FailureLeavesNothing == Spec => []NoPartialAnswer
  <1>1. StretchInv => NoPartialAnswer
    BY DEF StretchInv, NoPartialAnswer
  <1> QED  BY TypeInit, TypeNext, StretchInit, StretchNext, <1>1, PTL DEF Spec

-----------------------------------------------------------------------------
(* What is asked *)

\* A pass asks once of each column of its devices, and, as the window of a pass
\* is a new one, takes nothing from the cache.
AsksInv ==
    /\ Len(asks) \in Nat /\ DOMAIN asks = 1..Len(asks)
    /\ \A d \in DOMAIN group : d \in Device /\ group[d].variables \in Definition
    /\ \A i, j \in DOMAIN asks : asks[i] = asks[j] => i = j
    /\ \A i \in DOMAIN asks : \E d \in DOMAIN group : asks[i] \in AsksOf(d, group[d].variables)
    /\ \A d \in DOMAIN group : \A a \in AsksOf(d, group[d].variables) : \E i \in DOMAIN asks : asks[i] = a
    /\ DOMAIN cached = {}

LEMMA ColumnIs ==
    \A V : \A c \in Columns(V) :
        \E v \in V : /\ ToSet(v.path) \subseteq Addressable /\ CarrierOf(v) # None
                    /\ c.service = v.service /\ c.name = v.path /\ c.carrier = CarrierOf(v)
                    /\ c = [service |-> v.service, name |-> v.path, carrier |-> CarrierOf(v)]
  BY DEF Columns, Collected

LEMMA AskIs ==
    \A d, V : \A a \in AsksOf(d, V) :
        /\ a.device = d /\ a.column \in Columns(V) /\ a = [device |-> d, column |-> a.column]
        /\ \A e \in Columns(V) :
              e.name = a.column.name /\ e.carrier = a.column.carrier => a.column.service <= e.service
  BY DEF AsksOf

LEMMA AsksStart ==
    ASSUME TypeInv, StretchInv, NEW G \in SUBSET DOMAIN known, NewPass(G)
    PROVE  AsksInv'
  <1> DEFINE now     == clock + 1
             fresh   == {k \in KeysOf(G) : k[2] \in CarriersOf(known[k[1]].variables) /\ Fresh(k, now, now)}
             missing == {d \in G : \E c \in CarriersOf(known[d].variables) : <<d, c>> \notin fresh}
             of      == [d \in missing |-> AsksOf(d, known[d].variables)]
             S       == UNION {AsksOf(d, known[d].variables) : d \in missing}
  <1>1. clock \in Nat /\ G \subseteq DOMAIN known /\ DOMAIN known \subseteq Device
    BY DEF TypeInv, TypeOK
  <1>2. fresh = {}
    <2> SUFFICES ASSUME NEW k, k \in DOMAIN held, held[k].window = now PROVE FALSE
      BY DEF Fresh
    <2> QED  BY <1>1 DEF StretchInv
  <1>3. asks' = SetToSeq(S) /\ group' = Kept(known, G) /\ cached' = Kept(held, fresh)
    BY DEF NewPass
  <1>4. \A d \in G : d \in Device /\ known[d].variables \in Definition /\ IsFiniteSet(known[d].variables)
    BY <1>1, DeviceAssumption DEF TypeInv
  <1>5. IsFiniteSet(S)
    <2>1. \A d \in missing : IsFiniteSet(AsksOf(d, known[d].variables))
      BY <1>4, AsksFinite
    <2>2. IsFiniteSet(missing)
      <3>1. missing \subseteq Device
        BY <1>1
      <3> QED  BY <3>1, DeviceAssumption, FS_Subset
    <2> DEFINE X == {AsksOf(d, known[d].variables) : d \in missing}
    <2>3. of \in Surjection(missing, X)
      BY DEF Surjection
    <2>4. IsFiniteSet(X)
      <3> HIDE DEF of, X, missing
      <3> QED  BY <2>2, <2>3, FS_Surjection
    <2>5. \A T \in X : IsFiniteSet(T)
      BY <2>1
    <2> HIDE DEF X
    <2> QED  BY <2>4, <2>5, FS_UNION DEF X
  <1>6. \A d \in G : d \notin missing => AsksOf(d, known[d].variables) = {}
    <2> SUFFICES ASSUME NEW d \in G, d \notin missing, NEW a \in AsksOf(d, known[d].variables) PROVE FALSE
      OBVIOUS
    <2>1. CarriersOf(known[d].variables) = {}
      BY <1>2
    <2>2. Columns(known[d].variables) = {}
      BY <2>1 DEF CarriersOf
    <2> QED  BY <2>2 DEF AsksOf
  <1>7. \A x : x \in S <=> \E d \in G : x \in AsksOf(d, known[d].variables)
    BY <1>6
  <1>8. DOMAIN group' = G /\ \A d \in G : group'[d] = known[d]
    BY <1>1, <1>3 DEF Kept
  <1>9. DOMAIN cached' = {}
    BY <1>2, <1>3 DEF Kept
  <1> HIDE DEF S, missing, fresh
  <1>10. /\ Len(asks') \in Nat /\ DOMAIN asks' = 1..Len(asks')
         /\ \A i \in DOMAIN asks' : asks'[i] \in S
         /\ \A x \in S : \E i \in DOMAIN asks' : asks'[i] = x
         /\ \A i, j \in DOMAIN asks' : asks'[i] = asks'[j] => i = j
    BY <1>3, <1>5, ListOfSet
  <1>11. \A d \in DOMAIN group' : d \in Device /\ group'[d].variables \in Definition
    BY <1>4, <1>8
  <1>12. \A i \in DOMAIN asks' : \E d \in DOMAIN group' : asks'[i] \in AsksOf(d, group'[d].variables)
    BY <1>7, <1>8, <1>10
  <1>13. \A d \in DOMAIN group' : \A a \in AsksOf(d, group'[d].variables) : \E i \in DOMAIN asks' : asks'[i] = a
    BY <1>7, <1>8, <1>10
  <1> QED  BY <1>9, <1>10, <1>11, <1>12, <1>13 DEF AsksInv

\* Within a pass the platform's rows and the questions stay as they are.
LEMMA PassStays ==
    ASSUME [Next]_vars
    PROVE  \/ \E G \in SUBSET DOMAIN known : StartPass(G)
           \/ UNCHANGED <<rows, clock, batchSize, group, window, cached, asks>>
  BY DEF Next, RefreshDevices, RefreshDevice, Pass, Cancelled, CallFails, Fail, Call, Finish, Cancel, Change,
         vars, platformVars, cacheVars, fetchVars

LEMMA AsksInit == Init => AsksInv
  <1> SUFFICES ASSUME Init PROVE AsksInv
    OBVIOUS
  <1>1. asks = <<>> /\ DOMAIN group = {} /\ DOMAIN cached = {}
    BY DEF Init, Empty
  <1>2. Len(asks) = 0 /\ DOMAIN asks = {}
    BY <1>1
  <1> QED  BY <1>1, <1>2 DEF AsksInv

LEMMA AsksNext == TypeInv /\ StretchInv /\ AsksInv /\ [Next]_vars => AsksInv'
  <1> SUFFICES ASSUME TypeInv, StretchInv, AsksInv, [Next]_vars PROVE AsksInv'
    OBVIOUS
  <1>1. ASSUME NEW G \in SUBSET DOMAIN known, StartPass(G) PROVE AsksInv'
    BY <1>1, AsksStart DEF StartPass
  <1>2. CASE UNCHANGED <<rows, clock, batchSize, group, window, cached, asks>>
    BY <1>2 DEF AsksInv
  <1> QED  BY <1>1, <1>2, PassStays

\* The two legs of an ask are its own.
LEMMA LegOfAsk ==
    ASSUME Len(asks) \in Nat
    PROVE  /\ \A n \in Legs : Leg(n).ask \in 1..Len(asks)
           /\ \A i \in 1..Len(asks) :
                 /\ 2 * i - 1 \in Legs /\ Leg(2 * i - 1).ask = i /\ Leg(2 * i - 1).bound = "first"
                 /\ 2 * i \in Legs /\ Leg(2 * i).ask = i /\ Leg(2 * i).bound = "last"
  BY DEF Legs, Leg

\* A call asks of legs that are left, as many as the batch takes.
LEMMA SliceIs ==
    ASSUME TypeInv, AsksInv, More
    PROVE  \E top \in Nat :
              /\ Slice = start + 1..top /\ start < top
              /\ top = start + batchSize \/ (top = 2 * Len(asks) /\ top < start + batchSize)
              /\ top <= 2 * Len(asks)
  <1> DEFINE T == {start + batchSize, 2 * Len(asks)}
  <1>1. start \in Nat /\ batchSize \in Nat \ {0} /\ Len(asks) \in Nat /\ start < 2 * Len(asks)
    BY BatchAssumption DEF TypeInv, TypeOK, AsksInv, More
  <1>2. Min(T) \in T /\ \A y \in T : Min(T) <= y
    <2>1. \E x \in T : \A y \in T : x <= y
      BY <1>1
    <2> QED  BY <2>1 DEF Min
  <1>3. Slice = start + 1..Min(T)
    BY DEF Slice
  <1> DEFINE top == Min(T)
  <1>4. top \in {start + batchSize, 2 * Len(asks)} /\ top <= start + batchSize /\ top <= 2 * Len(asks)
    BY <1>2
  <1> HIDE DEF T, top
  <1>5. top \in Nat /\ start < top /\ (top = start + batchSize \/ (top = 2 * Len(asks) /\ top < start + batchSize))
    BY <1>1, <1>4
  <1>6. Slice = start + 1..top
    BY <1>3 DEF top
  <1> QED  BY <1>4, <1>5, <1>6

-----------------------------------------------------------------------------
(* Reading the answers back *)

\* All an answer says of the legs of the call is what the wrapper has of them.
Faithful(answer) ==
    /\ Len(answer) \in Nat /\ DOMAIN answer = 1..Len(answer)
    /\ \A i \in 1..Len(answer) : \A n \in Slice :
          start + answer[i].index + 1 = n /\ answer[i].cell # None => answer[i].cell = Cell(n)

\* It says something of every one.
Covering(answer) ==
    \A n \in Slice : \E i \in 1..Len(answer) :
        start + answer[i].index + 1 = n /\ answer[i].cell = Cell(n)

\* The first usable element of a leg is its figure.
LEMMA FigureIsCell ==
    ASSUME NEW answer, Faithful(answer), Covering(answer), NEW n \in Slice, read[n] = None
    PROVE  Figure(answer, n) = Cell(n)
  <1> DEFINE S == {i \in DOMAIN answer : start + answer[i].index + 1 = n /\ answer[i].cell # None}
  <1>1. DOMAIN answer = 1..Len(answer)
    BY DEF Faithful
  <1>2. CASE S = {}
    <2>1. PICK i \in 1..Len(answer) : start + answer[i].index + 1 = n /\ answer[i].cell = Cell(n)
      BY DEF Covering
    <2>2. Cell(n) = None
      BY <1>1, <1>2, <2>1
    <2> QED  BY <1>2, <2>2 DEF Figure
  <1>3. CASE S # {}
    <2>1. Min(S) \in S
      <3>1. S \in SUBSET Nat
        BY <1>1
      <3> HIDE DEF S
      <3>2. \E x \in S : \A y \in S : x <= y
        BY <1>3, <3>1, LowestExists
      <3> QED  BY <3>2 DEF Min
    <2>2. answer[Min(S)].cell = Cell(n)
      <3> DEFINE m == Min(S)
      <3>1. m \in 1..Len(answer) /\ start + answer[m].index + 1 = n /\ answer[m].cell # None
        BY <1>1, <2>1
      <3> HIDE DEF m
      <3>2. answer[m].cell = Cell(n)
        BY <3>1 DEF Faithful
      <3> QED  BY <3>2 DEF m
    <2> QED  BY <1>3, <2>2 DEF Figure
  <1> QED  BY <1>2, <1>3

LEMMA FaithfulJoined ==
    ASSUME NEW E, NEW a \in Seq(E), NEW b \in Seq(E), Faithful(a), Faithful(b)
    PROVE  /\ Faithful(a \o b)
           /\ Covering(a) \/ Covering(b) => Covering(a \o b)
  <1>1. /\ a \o b \in Seq(E) /\ Len(a) \in Nat /\ Len(b) \in Nat
        /\ Len(a \o b) = Len(a) + Len(b)
        /\ \A i \in 1..Len(a) : i \in 1..Len(a \o b) /\ (a \o b)[i] = a[i]
        /\ \A i \in 1..Len(b) : Len(a) + i \in 1..Len(a \o b) /\ (a \o b)[Len(a) + i] = b[i]
    OBVIOUS
  <1>2. \A i \in 1..Len(a \o b) : (i \in 1..Len(a)) \/ (i - Len(a) \in 1..Len(b) /\ Len(a) + (i - Len(a)) = i)
    BY <1>1
  <1>3. DOMAIN (a \o b) = 1..Len(a \o b)
    BY <1>1
  <1> DEFINE c == a \o b
  <1>4. /\ Len(c) \in Nat /\ DOMAIN c = 1..Len(c)
        /\ \A i \in 1..Len(a) : i \in 1..Len(c) /\ c[i] = a[i]
        /\ \A i \in 1..Len(b) : \E j \in 1..Len(c) : c[j] = b[i]
        /\ \A i \in 1..Len(c) : (\E j \in 1..Len(a) : c[i] = a[j]) \/ (\E j \in 1..Len(b) : c[i] = b[j])
    <2>1. ASSUME NEW i \in 1..Len(c)
          PROVE  (\E j \in 1..Len(a) : c[i] = a[j]) \/ (\E j \in 1..Len(b) : c[i] = b[j])
      <3>1. CASE i \in 1..Len(a)
        BY <1>1, <3>1
      <3>2. CASE i - Len(a) \in 1..Len(b) /\ Len(a) + (i - Len(a)) = i
        <4>1. c[Len(a) + (i - Len(a))] = b[i - Len(a)]
          BY <1>1, <3>2
        <4> QED  BY <3>2, <4>1
      <3> QED  BY <1>2, <3>1, <3>2
    <2>2. ASSUME NEW i \in 1..Len(b) PROVE \E j \in 1..Len(c) : c[j] = b[i]
      <3>1. Len(a) + i \in 1..Len(c) /\ c[Len(a) + i] = b[i]
        BY <1>1
      <3> HIDE DEF c
      <3> QED  BY <3>1
    <2>3. \A i \in 1..Len(a) : i \in 1..Len(c) /\ c[i] = a[i]
      BY <1>1
    <2>4. Len(c) \in Nat /\ DOMAIN c = 1..Len(c)
      BY <1>1, <1>3
    <2> HIDE DEF c
    <2> QED  BY <2>1, <2>2, <2>3, <2>4
  <1> HIDE DEF c
  <1>5. Faithful(c)
    <2> SUFFICES ASSUME NEW i \in 1..Len(c), NEW n \in Slice,
                        start + c[i].index + 1 = n, c[i].cell # None
                 PROVE  c[i].cell = Cell(n)
      BY <1>4 DEF Faithful
    <2>1. CASE \E j \in 1..Len(a) : c[i] = a[j]
      BY <2>1 DEF Faithful
    <2>2. CASE \E j \in 1..Len(b) : c[i] = b[j]
      BY <2>2 DEF Faithful
    <2> QED  BY <1>4, <2>1, <2>2
  <1>6. Covering(a) => Covering(c)
    BY <1>4 DEF Covering
  <1>7. Covering(b) => Covering(c)
    <2> SUFFICES ASSUME Covering(b), NEW n \in Slice
                 PROVE  \E i \in 1..Len(c) : start + c[i].index + 1 = n /\ c[i].cell = Cell(n)
      BY DEF Covering
    <2>1. PICK i \in 1..Len(b) : start + b[i].index + 1 = n /\ b[i].cell = Cell(n)
      BY DEF Covering
    <2>2. PICK j \in 1..Len(c) : c[j] = b[i]
      BY <1>4
    <2> QED  BY <2>1, <2>2
  <1> QED  BY <1>5, <1>6, <1>7 DEF c

LEMMA FaithfulReversed ==
    ASSUME NEW E, NEW a \in Seq(E), Faithful(a), Covering(a)
    PROVE  Reverse(a) \in Seq(E) /\ Faithful(Reverse(a)) /\ Covering(Reverse(a))
  <1> DEFINE n == Len(a)
             c == Reverse(a)
  <1>1. n \in Nat /\ \A i \in 1..n : a[i] \in E
    OBVIOUS
  <1>2. c = [i \in 1..n |-> a[(n - i) + 1]]
    BY DEF Reverse
  <1> HIDE DEF c
  <1>3. \A i \in 1..n : (n - i) + 1 \in 1..n /\ (n - ((n - i) + 1)) + 1 = i
    BY <1>1
  <1>4. c \in Seq(E) /\ Len(c) = n /\ DOMAIN c = 1..n
    BY <1>1, <1>2, <1>3
  <1>5. \A i \in 1..n : c[i] = a[(n - i) + 1] /\ c[(n - i) + 1] = a[i]
    BY <1>2, <1>3
  <1>6. Faithful(c)
    <2> SUFFICES ASSUME NEW i \in 1..n, NEW m \in Slice,
                        start + c[i].index + 1 = m, c[i].cell # None
                 PROVE  c[i].cell = Cell(m)
      BY <1>1, <1>4 DEF Faithful
    <2>1. (n - i) + 1 \in 1..n /\ c[i] = a[(n - i) + 1]
      BY <1>3, <1>5
    <2> QED  BY <2>1 DEF Faithful
  <1>7. Covering(c)
    <2> SUFFICES ASSUME NEW m \in Slice
                 PROVE  \E i \in 1..n : start + c[i].index + 1 = m /\ c[i].cell = Cell(m)
      BY <1>4 DEF Covering
    <2>1. PICK i \in 1..n : start + a[i].index + 1 = m /\ a[i].cell = Cell(m)
      BY DEF Covering
    <2> QED  BY <1>3, <1>5, <2>1
  <1> QED  BY <1>4, <1>6, <1>7 DEF c

\* In whatever order, however often and with whatever indices it answers.
LEMMA AnswersAreFaithful ==
    ASSUME TypeInv, AsksInv, More, NEW answer \in Answers
    PROVE  Faithful(answer) /\ Covering(answer)
  <1> DEFINE size   == Cardinality(Slice)
             whole  == [i \in 1..size |-> [index |-> i - 1, cell |-> Cell(start + i)]]
             stray  == <<[index |-> 0 - 1, cell |-> 7], [index |-> size, cell |-> 7]>>
             silent == <<[index |-> 0, cell |-> None]>>
             E      == [index : Int, cell : {Cell(n) : n \in Int} \cup {7, None}]
  <1>1. PICK top \in Nat : Slice = start + 1..top /\ start < top
    BY SliceIs
  <1>2. start \in Nat
    BY DEF TypeInv, TypeOK
  <1>3. size = top - start
    <2>1. start + 1 \in Int /\ top \in Int
      BY <1>1, <1>2
    <2> QED  BY <1>1, <1>2, <2>1, FS_Interval
  <1>4. size \in Nat
    BY <1>1, <1>2, <1>3
  <1>5. answer \in {whole, silent \o Reverse(whole), stray \o whole \o whole}
    BY DEF Answers
  <1> HIDE DEF size
  <1>6. whole \in Seq(E) /\ Len(whole) = size /\ DOMAIN whole = 1..size
    <2>1. whole \in [1..size -> E]
      <3>1. \A i \in 1..size : start + i \in Int /\ i - 1 \in Int
        BY <1>2, <1>4
      <3> QED  BY <3>1
    <2> HIDE DEF whole, E
    <2> QED  BY <1>4, <2>1
  <1>7. \A i \in 1..size : whole[i].index = i - 1 /\ whole[i].cell = Cell(start + i)
    OBVIOUS
  <1> HIDE DEF whole
  <1>8. Faithful(whole)
    <2> SUFFICES ASSUME NEW i \in 1..size, NEW n \in Slice, start + (i - 1) + 1 = n
                 PROVE  Cell(start + i) = Cell(n)
      BY <1>4, <1>6, <1>7 DEF Faithful
    <2>1. start + i = n
      BY <1>2, <1>4
    <2> QED  BY <2>1
  <1>9. Covering(whole)
    <2> SUFFICES ASSUME NEW n \in Slice
                 PROVE  \E i \in 1..size : start + whole[i].index + 1 = n /\ whole[i].cell = Cell(n)
      BY <1>6 DEF Covering
    <2>1. n - start \in 1..size /\ start + (n - start) = n /\ start + ((n - start) - 1) + 1 = n
      BY <1>1, <1>2, <1>3
    <2> QED  BY <1>7, <2>1
  <1>10. silent \in Seq(E) /\ Faithful(silent)
    <2>1. Len(silent) = 1 /\ DOMAIN silent = 1..1 /\ silent[1] = [index |-> 0, cell |-> None]
      OBVIOUS
    <2>2. silent \in Seq(E)
      OBVIOUS
    <2> HIDE DEF silent, E
    <2> QED  BY <2>1, <2>2 DEF Faithful
  <1>11. stray \in Seq(E) /\ Faithful(stray)
    <2>1. /\ Len(stray) = 2 /\ DOMAIN stray = 1..2
          /\ stray[1] = [index |-> 0 - 1, cell |-> 7] /\ stray[2] = [index |-> size, cell |-> 7]
      OBVIOUS
    <2>2. stray \in Seq(E)
      BY <1>4
    <2> HIDE DEF stray, E
    <2>3. \A i \in 1..2 : stray[i].index = 0 - 1 \/ stray[i].index = size
      BY <2>1
    <2>4. \A n \in Slice : start + (0 - 1) + 1 # n /\ start + size + 1 # n
      BY <1>1, <1>2, <1>3
    <2>5. \A i \in 1..2 : \A n \in Slice : start + stray[i].index + 1 # n
      BY <2>3, <2>4
    <2> QED  BY <2>1, <2>2, <2>5 DEF Faithful
  <1> HIDE DEF stray, silent, E
  <1>12. CASE answer = whole
    BY <1>8, <1>9, <1>12
  <1>13. CASE answer = silent \o Reverse(whole)
    <2>1. Reverse(whole) \in Seq(E) /\ Faithful(Reverse(whole)) /\ Covering(Reverse(whole))
      BY <1>6, <1>8, <1>9, FaithfulReversed
    <2> QED  BY <1>10, <1>13, <2>1, FaithfulJoined
  <1>14. CASE answer = stray \o whole \o whole
    <2>1. stray \o whole \in Seq(E) /\ Faithful(stray \o whole)
      BY <1>6, <1>8, <1>11, FaithfulJoined
    <2> QED  BY <1>6, <1>8, <1>9, <1>14, <2>1, FaithfulJoined
  <1> QED  BY <1>5, <1>12, <1>13, <1>14

-----------------------------------------------------------------------------
(* What a pass works with *)

RowsInTime == Seq(Int \cup {None})

\* Each leg that has been sent holds what the wrapper has of it.
FetchInv ==
    /\ rows \in [Device \X Path -> RowsInTime]
    /\ phase = "fetch" => \A n \in Legs : read[n] = IF n <= start THEN Cell(n) ELSE None
    /\ outcome = "measured" => result = Over(cached, Totals) /\ \A n \in Legs : read[n] = Cell(n)

LEMMA FetchInit == Init => FetchInv
  <1> SUFFICES ASSUME Init PROVE FetchInv
    OBVIOUS
  <1>1. rows \in [Device \X Path -> RowsInTime]
    BY InitialAssumption DEF Init, RowsInTime
  <1> QED  BY <1>1 DEF Init, FetchInv

LEMMA FetchStart ==
    ASSUME TypeInv, StretchInv, AsksInv, FetchInv, NEW G \in SUBSET DOMAIN known, StartPass(G)
    PROVE  FetchInv'
  <1>1. NewPass(G) /\ NextWindow(G) /\ start' = 0 /\ outcome' = "none"
    BY DEF StartPass
  <1>2. rows' \in [Device \X Path -> RowsInTime]
    <2>1. CASE UNCHANGED rows
      BY <2>1 DEF FetchInv
    <2>2. ASSUME NEW d \in G, NEW S \in Series, NEW v \in known[d].variables,
                 rows' = [rows EXCEPT ![<<d, v.path>>] = S]
          PROVE  rows' \in [Device \X Path -> RowsInTime]
      <3>1. S \in RowsInTime
        BY SeriesAssumption DEF RowsInTime
      <3> QED  BY <2>2, <3>1 DEF FetchInv
    <2> QED  BY <1>1, <2>1, <2>2 DEF NextWindow
  <1>3. AsksInv' /\ read' = [n \in 1..(2 * Len(asks')) |-> None]
    BY <1>1, AsksStart DEF NewPass
  <1>4. \A n \in Legs' : read'[n] = None /\ ~(n <= start')
    BY <1>1, <1>3 DEF Legs, AsksInv
  <1> QED  BY <1>1, <1>2, <1>4 DEF FetchInv

\* Every leg the call asked of has its figure, the ones behind it wait.
LEMMA FetchCall ==
    ASSUME TypeInv, StretchInv, AsksInv, FetchInv, Call
    PROVE  FetchInv'
  <1>1. /\ More /\ phase = "fetch" /\ start' = start + batchSize
        /\ UNCHANGED <<rows, asks, phase, outcome, clock, window, cached, result, batchSize>>
    BY DEF Call, More, platformVars, cacheVars
  <1>2. PICK answer \in Answers : read' = [n \in Legs |-> IF n \in Slice THEN Figure(answer, n) ELSE read[n]]
    BY DEF Call
  <1>3. PICK top \in Nat :
           /\ Slice = start + 1..top /\ start < top
           /\ top = start + batchSize \/ (top = 2 * Len(asks) /\ top < start + batchSize)
           /\ top <= 2 * Len(asks)
    BY <1>1, SliceIs
  <1>4. start \in Nat /\ batchSize \in Nat \ {0} /\ Len(asks) \in Nat
    BY BatchAssumption DEF TypeInv, TypeOK, AsksInv
  <1>5. Legs' = Legs /\ \A n \in Legs : n \in 1..(2 * Len(asks))
    BY <1>1 DEF Legs
  <1>6. \A n : Cell(n)' = Cell(n)
    BY <1>1 DEF Cell, Leg
  <1>7. Faithful(answer) /\ Covering(answer)
    BY <1>1, AnswersAreFaithful
  <1>8. ASSUME NEW n \in Legs PROVE read'[n] = IF n <= start' THEN Cell(n) ELSE None
    <2>1. read[n] = IF n <= start THEN Cell(n) ELSE None
      BY <1>1 DEF FetchInv
    <2>2. CASE n \in Slice
      <3>1. n <= start' /\ ~(n <= start)
        BY <1>1, <1>3, <1>4, <1>5, <2>2
      <3>2. Figure(answer, n) = Cell(n)
        BY <1>7, <2>1, <2>2, <3>1, FigureIsCell
      <3> QED  BY <1>2, <2>2, <3>1, <3>2
    <2>3. CASE n \notin Slice
      <3>1. n <= start <=> n <= start'
        BY <1>1, <1>3, <1>4, <1>5, <2>3
      <3> QED  BY <1>2, <2>1, <2>3, <3>1
    <2> QED  BY <2>2, <2>3
  <1>9. outcome' # "measured"
    <2>1. outcome # "measured"
      BY <1>1 DEF StretchInv
    <2> QED  BY <1>1, <2>1
  <1> QED  BY <1>1, <1>5, <1>6, <1>8, <1>9 DEF FetchInv

LEMMA FetchStays ==
    ASSUME FetchInv, UNCHANGED <<rows, asks, read, clock, window, cached, start>>,
           phase' # "fetch" \/ phase' = phase,
           outcome' # "measured" \/ (outcome' = outcome /\ result' = result)
    PROVE  FetchInv'
  <1>1. Legs' = Legs /\ Totals' = Totals /\ Over(cached, Totals)' = Over(cached, Totals)
    BY DEF Legs, Totals, Counted, Distance, Over
  <1>2. \A n : Cell(n)' = Cell(n)
    BY DEF Cell, Leg
  <1> QED  BY <1>1, <1>2 DEF FetchInv

LEMMA FetchNext == TypeInv /\ StretchInv /\ AsksInv /\ FetchInv /\ [Next]_vars => FetchInv'
  <1> SUFFICES ASSUME TypeInv, StretchInv, AsksInv, FetchInv, [Next]_vars PROVE FetchInv'
    OBVIOUS
  <1>1. ASSUME NEW G \in SUBSET DOMAIN known, StartPass(G) PROVE FetchInv'
    BY <1>1, FetchStart
  <1>2. CASE Call
    BY <1>2, FetchCall
  <1>3. CASE Finish
    <2>1. /\ UNCHANGED <<rows, asks, read, clock, window, cached, start>>
          /\ phase' = "idle" /\ result' = Over(cached, Totals) /\ phase = "fetch"
      BY <1>3 DEF Finish, platformVars
    <2>2. Legs' = Legs /\ Totals' = Totals /\ Over(cached, Totals)' = Over(cached, Totals)
      BY <2>1 DEF Legs, Totals, Counted, Distance, Over
    <2>3. \A n : Cell(n)' = Cell(n)
      BY <2>1 DEF Cell, Leg
    <2>4. \A n \in Legs : read[n] = Cell(n)
      <3>1. start \in Nat /\ Len(asks) \in Nat /\ 2 * Len(asks) <= start
        BY <1>3, <2>1 DEF Finish, More, TypeInv, TypeOK, AsksInv
      <3> QED  BY <2>1, <3>1 DEF FetchInv, Legs
    <2> QED  BY <2>1, <2>2, <2>3, <2>4 DEF FetchInv
  <1>4. CASE Fail
    BY <1>4, FetchStays DEF Fail, platformVars
  <1>5. CASE RefreshDevices
    BY <1>5, FetchStays DEF RefreshDevices, platformVars, fetchVars
  <1>6. ASSUME NEW d \in Device, RefreshDevice(d) PROVE FetchInv'
    BY <1>6, FetchStays DEF RefreshDevice, platformVars, fetchVars
  <1>7. CASE Cancel
    BY <1>7, FetchStays DEF Cancel, platformVars, fetchVars
  <1>8. CASE Change
    BY <1>8, FetchStays DEF Change, fetchVars
  <1>9. CASE UNCHANGED vars
    BY <1>9, FetchStays DEF vars, platformVars, fetchVars
  <1> QED  BY <1>1, <1>2, <1>3, <1>4, <1>5, <1>6, <1>7, <1>8, <1>9
            DEF Next, Pass, Cancelled, CallFails

\* The carrier a value counts is the first whose function and medium it has.
LEMMA CarrierOfIs ==
    ASSUME NEW v, NEW c \in Carrier
    PROVE  CarrierOf(v) = c <=>
              /\ v.aspects \cap UnreadAspect = {}
              /\ v.function = FunctionOf[c] /\ MediumOf[c] \in v.aspects
              /\ \A e \in Carrier : e < c => ~(v.function = FunctionOf[e] /\ MediumOf[e] \in v.aspects)
  <1> DEFINE C == {e \in Carrier : v.function = FunctionOf[e] /\ MediumOf[e] \in v.aspects}
  <1>1. c # None /\ C \in SUBSET Nat /\ c \in Nat
    <2>1. \A e \in Carrier : e \in Nat
      BY CarrierAssumption
    <2>2. \A n \in Nat : n # None
      BY NumberAssumption
    <2>3. C \in SUBSET Nat
      BY <2>1
    <2> QED  BY <2>1, <2>2, <2>3
  <1>2. C # {} => Min(C) \in C /\ \A e \in C : Min(C) <= e
    <2> HIDE DEF C
    <2>1. C # {} => \E i \in C : \A j \in C : i <= j
      BY <1>1, LowestExists
    <2> QED  BY <2>1 DEF Min
  <1>3. C # {} /\ Min(C) = c <=> c \in C /\ \A e \in C : c <= e
    <2> HIDE DEF C
    <2>1. \A e \in C : e \in Nat
      BY <1>1
    <2>2. ASSUME C # {}, Min(C) = c PROVE c \in C /\ \A e \in C : c <= e
      BY <1>2, <2>2
    <2>3. ASSUME c \in C, \A e \in C : c <= e PROVE C # {} /\ Min(C) = c
      <3>1. Min(C) \in C /\ Min(C) <= c /\ c <= Min(C)
        BY <1>2, <2>3
      <3> DEFINE m == Min(C)
      <3>2. m \in Nat /\ m <= c /\ c <= m
        BY <2>1, <3>1
      <3> HIDE DEF m
      <3>3. m = c
        BY <1>1, <3>2
      <3> QED  BY <2>3, <3>3 DEF m
    <2> QED  BY <2>2, <2>3
  <1>4. CarrierOf(v) = IF C = {} \/ v.aspects \cap UnreadAspect # {} THEN None ELSE Min(C)
    BY DEF CarrierOf
  <1>5. (\A e \in C : c <= e) <=> \A e \in Carrier : e < c => e \notin C
    <2>1. \A e \in Carrier : e \in Nat
      BY CarrierAssumption
    <2> QED  BY <1>1, <2>1
  <1> QED  BY <1>1, <1>3, <1>4, <1>5

LEMMA DrawnIs ==
    ASSUME NEW d, NEW c \in Carrier, NEW p
    PROVE  p \in Drawn(d, c) <=>
              \E v \in group[d].variables :
                  v.path = p /\ ToSet(v.path) \subseteq Addressable /\ CarrierOf(v) = c
  <1> DEFINE Counts(v) ==
                /\ v.aspects \cap UnreadAspect = {}
                /\ v.function = FunctionOf[c] /\ MediumOf[c] \in v.aspects
                /\ \A e \in Carrier : e < c => ~(v.function = FunctionOf[e] /\ MediumOf[e] \in v.aspects)
  <1>1. \A v : CarrierOf(v) = c <=> Counts(v)
    BY CarrierOfIs
  <1>2. p \in Drawn(d, c) <=>
           \E v \in group[d].variables : v.path = p /\ ToSet(v.path) \subseteq Addressable /\ Counts(v)
    BY DEF Drawn
  <1> HIDE DEF Counts
  <1> QED  BY <1>1, <1>2

\* What an ask names is drawn by its device, of its carrier.
LEMMA AskIsDrawn ==
    ASSUME AsksInv, NEW i \in DOMAIN asks
    PROVE  /\ asks[i].device \in DOMAIN group /\ asks[i].column.carrier \in Carrier
           /\ asks[i].column.name \in Drawn(asks[i].device, asks[i].column.carrier)
           /\ asks[i].column.name \in Path
  <1>1. PICK d \in DOMAIN group : asks[i] \in AsksOf(d, group[d].variables)
    BY DEF AsksInv
  <1>2. asks[i].device = d /\ asks[i].column \in Columns(group[d].variables)
    BY <1>1, AskIs
  <1>3. PICK v \in group[d].variables :
           /\ ToSet(v.path) \subseteq Addressable /\ CarrierOf(v) # None
           /\ asks[i].column.name = v.path /\ asks[i].column.carrier = CarrierOf(v)
    BY <1>2, ColumnIs
  <1>4. CarrierOf(v) \in Carrier
    BY <1>3, CarrierOfRange
  <1>5. v.path \in Path
    BY DEF AsksInv, Path
  <1> QED  BY <1>2, <1>3, <1>4, <1>5, DrawnIs

\* Whatever a device draws is asked about, at the first service that has it.
LEMMA DrawnIsAsked ==
    ASSUME AsksInv, NEW d \in DOMAIN group, NEW c \in Carrier, NEW p \in Drawn(d, c)
    PROVE  \E i \in DOMAIN asks :
              asks[i].device = d /\ asks[i].column.carrier = c /\ asks[i].column.name = p
  <1> DEFINE V == group[d].variables
             K == {e \in Columns(V) : e.name = p /\ e.carrier = c}
             N == {e.service : e \in K}
  <1>1. PICK v \in V : v.path = p /\ ToSet(v.path) \subseteq Addressable /\ CarrierOf(v) = c
    BY DrawnIs
  <1>2. c # None
    BY CarrierAssumption, NumberAssumption
  <1>3. [service |-> v.service, name |-> v.path, carrier |-> CarrierOf(v)] \in K
    BY <1>1, <1>2 DEF Columns, Collected
  <1>4. N \in SUBSET Nat /\ N # {}
    <2>1. \A e \in K : e.service \in Nat
      <3> SUFFICES ASSUME NEW e \in Columns(V) PROVE e.service \in Nat
        OBVIOUS
      <3>1. PICK w \in V : e.service = w.service
        BY ColumnIs
      <3> QED  BY <3>1, ServiceAssumption DEF AsksInv
    <2> QED  BY <1>3, <2>1
  <1>5. PICK n \in N : \A m \in N : n <= m
    <2> HIDE DEF N
    <2> QED  BY <1>4, LowestExists
  <1>6. PICK k \in K : k.service = n
    BY <1>5
  <1>7. k \in Columns(V) /\ k.name = p /\ k.carrier = c
        /\ \A e \in Columns(V) : e.name = k.name /\ e.carrier = k.carrier => k.service <= e.service
    BY <1>5, <1>6
  <1> DEFINE a == [device |-> d, column |-> k]
  <1>8. a \in AsksOf(d, V)
    BY <1>7 DEF AsksOf
  <1>9. PICK i \in DOMAIN asks : asks[i] = a
    <2> HIDE DEF a
    <2> QED  BY <1>8 DEF AsksInv
  <1> QED  BY <1>7, <1>9

\* Two services that have one path are asked about once.
LEMMA AskIsOnly ==
    ASSUME AsksInv, NEW i \in DOMAIN asks, NEW j \in DOMAIN asks,
           asks[i].device = asks[j].device, asks[i].column.carrier = asks[j].column.carrier,
           asks[i].column.name = asks[j].column.name
    PROVE  i = j
  <1>1. PICK d \in DOMAIN group : asks[i] \in AsksOf(d, group[d].variables)
    BY DEF AsksInv
  <1>2. PICK e \in DOMAIN group : asks[j] \in AsksOf(e, group[e].variables)
    BY DEF AsksInv
  <1>3. d = e
    BY <1>1, <1>2, AskIs
  <1> DEFINE V == group[d].variables
             k == asks[i].column
             l == asks[j].column
  <1>4. /\ k \in Columns(V) /\ l \in Columns(V)
        /\ asks[i] = [device |-> d, column |-> k] /\ asks[j] = [device |-> d, column |-> l]
        /\ k.service <= l.service /\ l.service <= k.service
    BY <1>1, <1>2, <1>3, AskIs
  <1>5. PICK v \in V : k.service = v.service /\ k = [service |-> v.service, name |-> v.path, carrier |-> CarrierOf(v)]
    BY <1>4, ColumnIs
  <1>6. PICK w \in V : l.service = w.service /\ l = [service |-> w.service, name |-> w.path, carrier |-> CarrierOf(w)]
    BY <1>4, ColumnIs
  <1>7. v.service \in Nat /\ w.service \in Nat
    BY ServiceAssumption DEF AsksInv
  <1>8. v.service = w.service
    BY <1>4, <1>5, <1>6, <1>7
  <1>9. v.path = w.path /\ CarrierOf(v) = CarrierOf(w)
    BY <1>5, <1>6
  <1>10. k = l
    BY <1>5, <1>6, <1>8, <1>9
  <1>11. asks[i] = asks[j]
    BY <1>4, <1>10
  <1> QED  BY <1>11 DEF AsksInv

\* Both ends of a window make a distance.
LEMMA DistanceIsAdvance ==
    ASSUME AsksInv, FetchInv, outcome = "measured", NEW i \in DOMAIN asks
    PROVE  LET d == asks[i].device
               c == asks[i].column.carrier
               p == asks[i].column.name
           IN  /\ Counted(i) <=> p \in Reported(d, c)
               /\ Counted(i) => Distance(i) = Advance(d, p) /\ Distance(i) \in Int
  <1> DEFINE d == asks[i].device
             c == asks[i].column.carrier
             p == asks[i].column.name
             s == rows[d, p]
  <1>1. d \in DOMAIN group /\ p \in Drawn(d, c) /\ p \in Path /\ d \in Device
    BY AskIsDrawn DEF AsksInv
  <1>2. s \in Seq(Int \cup {None})
    BY <1>1 DEF FetchInv, RowsInTime
  <1>3. /\ 2 * i - 1 \in Legs /\ Leg(2 * i - 1).ask = i /\ Leg(2 * i - 1).bound = "first"
        /\ 2 * i \in Legs /\ Leg(2 * i).ask = i /\ Leg(2 * i).bound = "last"
    BY LegOfAsk DEF AsksInv
  <1>4. /\ read[2 * i - 1] = IF s = <<>> THEN None ELSE Head(s)
        /\ read[2 * i] = IF s = <<>> THEN None ELSE Last(s)
    BY <1>3 DEF FetchInv, Cell
  <1> HIDE DEF s
  <1>5. Counted(i) <=> s # <<>> /\ Head(s) # None /\ Last(s) # None
    BY <1>4 DEF Counted
  <1>6. s # <<>> => Head(s) \in Int \cup {None} /\ Last(s) \in Int \cup {None}
    <2> SUFFICES ASSUME s # <<>> PROVE Head(s) \in Int \cup {None} /\ Last(s) \in Int \cup {None}
      OBVIOUS
    <2> DEFINE N == Int \cup {None}
    <2> HIDE DEF N
    <2>1. s \in Seq(N) /\ s # <<>>
      BY <1>2 DEF N
    <2>2. Len(s) \in Nat \ {0} /\ s[1] \in N /\ s[Len(s)] \in N /\ Head(s) = s[1]
      BY <2>1
    <2> QED  BY <2>2 DEF Last, N
  <1>7. Counted(i) <=> p \in Reported(d, c)
    <2> HIDE DEF d, p
    <2> QED  BY <1>1, <1>5 DEF Reported, s
  <1>8. Counted(i) => Distance(i) = Last(s) - Head(s) /\ Distance(i) \in Int
    <2> SUFFICES ASSUME Counted(i) PROVE Distance(i) = Last(s) - Head(s) /\ Distance(i) \in Int
      OBVIOUS
    <2>1. PICK a, b : a = Head(s) /\ b = Last(s)
      OBVIOUS
    <2>2. a \in Int /\ b \in Int /\ read[2 * i - 1] = a /\ read[2 * i] = b
      BY <1>4, <1>5, <1>6, <2>1, NumberAssumption
    <2>3. Distance(i) = read[2 * i] - read[2 * i - 1]
      BY DEF Distance
    <2>4. Distance(i) = b - a /\ Distance(i) \in Int
      BY <2>2, <2>3
    <2> QED  BY <2>1, <2>4
  <1> QED  BY <1>7, <1>8 DEF Advance, s

\* Per device and carrier the sum is over the paths the carrier is reported on,
\* each of them once.
LEMMA TotalsAreConsumed ==
    ASSUME AsksInv, FetchInv, outcome = "measured"
    PROVE  /\ DOMAIN Totals = {k \in KeysOf(DOMAIN group) : Reported(k[1], k[2]) # {}}
           /\ \A k \in DOMAIN Totals : Totals[k].value = Consumed(k[1], k[2]) /\ Totals[k].value \in Int
  <1> DEFINE Of(i)  == <<asks[i].device, asks[i].column.carrier>>
             name(i) == asks[i].column.name
             C      == {i \in DOMAIN asks : Counted(i)}
             T      == {Of(i) : i \in C}
             f      == [i \in C |-> Distance(i)]
             Mine(k) == {i \in C : Of(i) = k}
  <1>1. /\ DOMAIN Totals = T
        /\ \A k \in T : Totals[k].value = SumFunctionOnSet(f, Mine(k))
    BY DEF Totals
  <1>2. \A i \in DOMAIN asks :
           /\ asks[i].device \in DOMAIN group /\ asks[i].column.carrier \in Carrier
           /\ name(i) \in Drawn(asks[i].device, asks[i].column.carrier)
    BY AskIsDrawn
  <1>3. \A i \in DOMAIN asks :
           /\ Counted(i) <=> name(i) \in Reported(asks[i].device, asks[i].column.carrier)
           /\ Counted(i) => Distance(i) = Advance(asks[i].device, name(i)) /\ Distance(i) \in Int
    BY DistanceIsAdvance
  \* A path that is reported is asked about.
  <1>4. ASSUME NEW d \in DOMAIN group, NEW c \in Carrier, NEW p \in Reported(d, c)
        PROVE  \E i \in Mine(<<d, c>>) : name(i) = p
    <2>1. p \in Drawn(d, c)
      BY DEF Reported
    <2>2. PICK i \in DOMAIN asks :
             asks[i].device = d /\ asks[i].column.carrier = c /\ asks[i].column.name = p
      BY <2>1, DrawnIsAsked
    <2> QED  BY <1>3, <2>2
  <1>5. T = {k \in KeysOf(DOMAIN group) : Reported(k[1], k[2]) # {}}
    <2>1. ASSUME NEW i \in C
          PROVE  Of(i) \in KeysOf(DOMAIN group) /\ Reported(Of(i)[1], Of(i)[2]) # {}
      <3>1. asks[i].device \in DOMAIN group /\ asks[i].column.carrier \in Carrier
        BY <1>2
      <3>2. name(i) \in Reported(asks[i].device, asks[i].column.carrier)
        BY <1>3
      <3> QED  BY <3>1, <3>2 DEF KeysOf
    <2>2. ASSUME NEW d \in DOMAIN group, NEW c \in Carrier, Reported(d, c) # {}
          PROVE  <<d, c>> \in T
      BY <1>4, <2>2
    <2>3. \A k \in KeysOf(DOMAIN group) :
             \E d \in DOMAIN group, c \in Carrier : k = <<d, c>> /\ k[1] = d /\ k[2] = c
      BY DEF KeysOf
    <2>4. ASSUME NEW k \in T PROVE k \in KeysOf(DOMAIN group) /\ Reported(k[1], k[2]) # {}
      BY <2>1
    <2>5. ASSUME NEW k \in KeysOf(DOMAIN group), Reported(k[1], k[2]) # {} PROVE k \in T
      <3> HIDE DEF T
      <3> QED  BY <2>2, <2>3, <2>5
    <2> HIDE DEF T
    <2> QED  BY <2>4, <2>5
  <1>6. ASSUME NEW k \in T
        PROVE  SumFunctionOnSet(f, Mine(k)) = Consumed(k[1], k[2]) /\ SumFunctionOnSet(f, Mine(k)) \in Int
    <2>1. PICK d \in DOMAIN group, c \in Carrier : k = <<d, c>> /\ k[1] = d /\ k[2] = c
      BY <1>5 DEF KeysOf
    <2> DEFINE S == Mine(k)
               R == Reported(d, c)
               b == [i \in S |-> name(i)]
               h == [p \in R |-> Advance(d, p)]
    <2>2. IsFiniteSet(S)
      <3>1. S \subseteq 1..Len(asks) /\ Len(asks) \in Nat
        BY DEF AsksInv
      <3>2. IsFiniteSet(1..Len(asks))
        BY <3>1, FS_Interval
      <3> HIDE DEF S
      <3> QED  BY <3>1, <3>2, FS_Subset
    <2>3. \A i \in S : i \in DOMAIN asks /\ Counted(i) /\ asks[i].device = d /\ asks[i].column.carrier = c
      BY <2>1
    <2>4. \A i \in S : name(i) \in R
      BY <1>3, <2>3
    <2>5. \A p \in R : \E i \in S : name(i) = p
      BY <1>4, <2>1
    <2>6. \A i, j \in S : name(i) = name(j) => i = j
      BY <2>3, AskIsOnly
    <2>7. \A i \in S : i \in C /\ f[i] \in Int /\ f[i] = Advance(d, name(i))
      BY <1>3, <2>3
    <2> HIDE DEF S, R, Mine, name, C
    <2>8. b \in Bijection(S, R)
      BY <2>4, <2>5, <2>6 DEF Bijection, Injection, Surjection, IsInjective
    <2>9. \A i \in S : f[i] = h[b[i]]
      BY <2>4, <2>7
    <2>10. Figures(f, S)
      BY <2>7 DEF Figures
    <2> HIDE DEF b, f, h
    <2>11. Iter(f, S)[S] = Iter(h, R)[R]
      BY <2>2, <2>8, <2>9, <2>10, IterRenamed
    <2>12. SumFunctionOnSet(f, S) = SumFunctionOnSet(h, R)
      BY <2>11, SumIsIter
    <2>13. SumFunctionOnSet(f, S) \in Int
      BY <2>2, <2>10, SumType
    <2> QED  BY <2>1, <2>12, <2>13 DEF Consumed, S, R, h
  <1> HIDE DEF T, Mine, f
  <1> QED  BY <1>1, <1>5, <1>6

LEMMA ResultIsTotals ==
    ASSUME AsksInv, FetchInv, outcome = "measured"
    PROVE  DOMAIN result = DOMAIN Totals /\ \A k \in DOMAIN result : result[k] = Totals[k]
  <1>1. result = Over(cached, Totals) /\ DOMAIN cached = {}
    BY DEF AsksInv, FetchInv
  <1> QED  BY <1>1 DEF Over

\* What the structure of a group is built from is what its meters counted over
\* the window: of every device and carrier that reported, of no other, each path
\* once, whatever the batches and whatever an answer repeats, reorders or adds
\* (Fetch, build, readingOf).
THEOREM ReadingsAreConsumption == Spec => []MeasuredIsConsumption
  <1>1. AsksInv /\ FetchInv => MeasuredIsConsumption
    BY TotalsAreConsumed, ResultIsTotals DEF MeasuredIsConsumption
  <1> QED  BY TypeInit, TypeNext, StretchInit, StretchNext, AsksInit, AsksNext,
              FetchInit, FetchNext, <1>1, PTL DEF Spec

-----------------------------------------------------------------------------
(* What the report says of it *)

\* A device is placed by a reading as soon as one of its carriers has one.
LEMMA SomeLeads ==
    ASSUME NEW P, IsFiniteSet(P), NEW f, \A c \in P : c \in Int /\ f[c] \in Int
    PROVE  (\E c \in P : f[c] > 0) =>
              \E c \in P : f[c] > 0 /\ \A k \in P : f[c] > f[k] \/ (f[c] = f[k] /\ c <= k)
  <1> DEFINE Q == {c \in P : f[c] > 0}
             R == {kl \in Q \X Q : f[kl[1]] > f[kl[2]] \/ (f[kl[1]] = f[kl[2]] /\ kl[1] < kl[2])}
  <1> SUFFICES ASSUME NEW o \in P, f[o] > 0
               PROVE  \E c \in P : f[c] > 0 /\ \A k \in P : f[c] > f[k] \/ (f[c] = f[k] /\ c <= k)
    OBVIOUS
  <1>1. IsFiniteSet(Q) /\ Q # {}
    BY FS_Subset
  <1>2. \A k, l \in Q : <<k, l>> \in R <=> f[k] > f[l] \/ (f[k] = f[l] /\ k < l)
    OBVIOUS
  <1>3. \A c \in Q : c \in P /\ c \in Int /\ f[c] \in Int /\ f[c] > 0
    OBVIOUS
  <1> HIDE DEF R
  <1>4. \A k \in Q : <<k, k>> \notin R
    BY <1>2, <1>3
  <1>5. \A k, l, m \in Q : <<k, l>> \in R /\ <<l, m>> \in R => <<k, m>> \in R
    BY <1>2, <1>3
  <1>6. \A c \in P : c \notin Q => f[c] <= 0
    OBVIOUS
  <1> HIDE DEF Q
  <1>7. PICK c \in Q : \A k \in Q : <<k, c>> \notin R
    BY <1>1, <1>4, <1>5, TopExists
  <1>8. \A k \in Q : f[c] > f[k] \/ (f[c] = f[k] /\ c <= k)
    <2> SUFFICES ASSUME NEW k \in Q PROVE f[c] > f[k] \/ (f[c] = f[k] /\ c <= k)
      OBVIOUS
    <2>1. ~(f[k] > f[c] \/ (f[k] = f[c] /\ k < c))
      BY <1>2, <1>7
    <2>2. c \in Int /\ k \in Int /\ f[c] \in Int /\ f[k] \in Int
      BY <1>3
    <2> QED  BY <2>1, <2>2
  <1>9. \A k \in P : f[c] > f[k] \/ (f[c] = f[k] /\ c <= k)
    BY <1>3, <1>6, <1>8
  <1> QED  BY <1>3, <1>9

\* The devices listed as without a reading are the ones the heuristic hung up
\* without one (withoutReading of pkg/reconcile, primaryOf of pkg/structure).
THEOREM ReportIsOfTree == Spec => []ReportExplainsTree
  <1>1. AsksInv /\ FetchInv => ReportExplainsTree
    <2> SUFFICES ASSUME AsksInv, FetchInv, outcome = "measured", NEW d \in DOMAIN group
                 PROVE  d \in WithoutReading(DOMAIN group, result) <=> ~Heuristic!Reads(d)
      BY DEF ReportExplainsTree, WithoutReading
    <2> DEFINE P == CarriersOf(group[d].variables)
               f == [c \in P |-> IF <<d, c>> \in DOMAIN result THEN result[<<d, c>>].value ELSE 0]
               L == {c \in P : /\ f[c] > 0
                               /\ \A k \in P : f[c] > f[k] \/ (f[c] = f[k] /\ c <= k)}
    <2>1. IsFiniteSet(P) /\ \A c \in P : c \in Carrier /\ c \in Int
      <3> DEFINE V == group[d].variables
                 g == [c \in Columns(V) |-> c.carrier]
      <3>1. IsFiniteSet(Columns(V)) /\ \A c \in Columns(V) : c.carrier \in Carrier
        BY ColumnsFinite, DeviceAssumption DEF AsksInv
      <3>2. g \in Surjection(Columns(V), P)
        BY DEF Surjection, CarriersOf
      <3>3. IsFiniteSet(P)
        <4> HIDE DEF g, P
        <4> QED  BY <3>1, <3>2, FS_Surjection
      <3>4. \A c \in Carrier : c \in Int
        BY CarrierAssumption
      <3> QED  BY <3>1, <3>3, <3>4 DEF CarriersOf
    <2>2. \A k \in DOMAIN result : result[k].value \in Int
      BY TotalsAreConsumed, ResultIsTotals
    <2>3. \A c \in P : f[c] \in Int
      BY <2>2
    <2>4. Heuristic!Leading(d) = L
      BY DEF Heuristic!Leading
    <2>5. Heuristic!Reads(d) <=> L # {}
      <3>1. L # {} => (CHOOSE c \in L : TRUE) \in P
        OBVIOUS
      <3>2. \A c \in P : c # None
        BY <2>1, NumberAssumption
      <3> HIDE DEF L, P, f
      <3> QED  BY <2>4, <3>1, <3>2 DEF Heuristic!Reads, Heuristic!PrimaryCarrier
    <2>6. L # {} <=> \E c \in P : f[c] > 0
      <3> HIDE DEF f, P
      <3> QED  BY <2>1, <2>3, SomeLeads
    <2>7. d \in WithoutReading(DOMAIN group, result) <=> ~\E c \in P : f[c] > 0
      BY DEF WithoutReading
    <2> QED  BY <2>5, <2>6, <2>7
  <1> QED  BY TypeInit, TypeNext, StretchInit, StretchNext, AsksInit, AsksNext,
              FetchInit, FetchNext, <1>1, PTL DEF Spec

=============================================================================
