----------------------------- MODULE Store_proofs -----------------------------
(***************************************************************************)
(* The sharing of graphs, for any number of graphs and groups, any page    *)
(* size and whatever others do between two calls: whose rights change, and *)
(* what is withdrawn before a graph is forgotten.                          *)
(***************************************************************************)
EXTENDS Store, Counting_proofs

-----------------------------------------------------------------------------
(* What the listing finds *)

\* keepLower keeps one of those it is offered.
LEMMA LowerRange ==
    ASSUME NEW previous \in Graph \cup {None}, NEW S \in SUBSET Graph
    PROVE  Lower(previous, S) \in S \cup {previous}
  <1> DEFINE T == (S \cup {previous}) \ {None}
  <1>1. CASE S \cup {previous} = {None}
    BY <1>1 DEF Lower
  <1>2. CASE S \cup {previous} # {None}
    <2>1. T \in SUBSET Nat /\ T # {}
      BY <1>2, GraphAssumption
    <2>2. Min(T) \in T
      <3> HIDE DEF T
      <3> QED  BY <2>1, LowestExists DEF Min
    <2> QED  BY <1>2, <2>2 DEF Lower
  <1> QED  BY <1>1, <1>2

-----------------------------------------------------------------------------
(* Types *)

LEMMA NewRightsType == NewRights \in [Subject -> Right]
  BY DEF NewRights, Subject, Right

LEMMA WantType == \A g : Want(g) \in Right
  BY DEF Want, Right

LEMMA SaveType ==
    ASSUME TypeOK, NEW i \in Graph, NEW graph \in GraphRecord, Save(i, graph)
    PROVE  /\ graphs' \in [Graph -> GraphRecord \cup {None}]
           /\ rights' \in [Graph -> [Subject -> Right] \cup {None}]
           /\ \A j \in Graph : graphs'[j] = None <=> rights'[j] = None
           /\ Stored' \subseteq used' /\ used' \subseteq Graph
           /\ echo' \in BOOLEAN /\ steady' \subseteq Graph
  <1>1. graphs' = [graphs EXCEPT ![i] = graph] /\ graph # None
    BY NoneAssumption DEF Save
  <1>2. rights' = IF graphs[i] = None THEN [rights EXCEPT ![i] = NewRights] ELSE rights
    BY DEF Save
  <1>3. NewRights # None /\ NewRights \in [Subject -> Right]
    BY NewRightsType, NoneAssumption
  <1>4. Stored' \subseteq Stored \cup {i}
    BY <1>1 DEF Stored, TypeOK
  <1> QED  BY <1>1, <1>2, <1>3, <1>4 DEF TypeOK, Save

LEMMA TypeInit == Init => TypeOK
  <1> SUFFICES ASSUME Init PROVE TypeOK
    OBVIOUS
  <1>1. graphs \in [Graph -> GraphRecord \cup {None}]
    BY InitialAssumption DEF Init
  <1>2. /\ rights \in [Graph -> [Subject -> Right] \cup {None}]
        /\ \A i \in Graph : graphs[i] = None <=> rights[i] = None
    BY <1>1, NewRightsType, NoneAssumption DEF Init
  <1>3. Stored \subseteq Graph
    BY DEF Stored
  <1>4. /\ byId = [g \in Group |-> None] /\ byPath = [g \in Group |-> None]
        /\ seen = [i \in Graph |-> {}] /\ todo = {} /\ shrunk = [k \in Key |-> FALSE]
        /\ steady = {} /\ touched = {} /\ used = Stored
    BY DEF Init
  <1>5. /\ echo = FALSE /\ writable \in BOOLEAN /\ phase = "idle" /\ key = "id" /\ offset = 0
        /\ current = None /\ target = None /\ next = None /\ outside = 0 /\ failures = 0
    BY DEF Init
  <1>6. byId \in [Group -> Graph \cup {None}] /\ byPath \in [Group -> Graph \cup {None}] /\ seen \in [Graph -> SUBSET Key]
    BY <1>4
  <1>7. shrunk \in [Key -> BOOLEAN]
    BY <1>4
  <1>8. outside \in 0..MaxOutside /\ failures \in 0..MaxFailures /\ offset \in Nat /\ key \in Key
    BY <1>5, BoundAssumption DEF Key
  <1> QED  BY <1>1, <1>2, <1>3, <1>4, <1>5, <1>6, <1>7, <1>8 DEF TypeOK

LEMMA TypeNext == TypeOK /\ [Next]_vars => TypeOK'
  <1> SUFFICES ASSUME TypeOK, [Next]_vars PROVE TypeOK'
    OBVIOUS
  <1> USE DEF TypeOK, shareVars, history
  <1>1. CASE Begin
    BY <1>1 DEF Begin, Stored, Key
  <1>2. CASE ListPage
    <2>1. \A g \in Group : byId'[g] \in Graph \cup {None} /\ byPath'[g] \in Graph \cup {None}
      <3> SUFFICES ASSUME NEW g \in Group
                   PROVE  byId'[g] \in Graph \cup {None} /\ byPath'[g] \in Graph \cup {None}
        OBVIOUS
      <3>1. Page \subseteq Graph
        BY DEF Page, Stored
      <3>2. \A S \in SUBSET Graph : /\ Lower(byId[g], S) \in Graph \cup {None}
                                    /\ Lower(byPath[g], S) \in Graph \cup {None}
        <4>1. byId[g] \in Graph \cup {None} /\ byPath[g] \in Graph \cup {None}
          OBVIOUS
        <4> HIDE DEF TypeOK
        <4>2. ASSUME NEW S \in SUBSET Graph
              PROVE  Lower(byId[g], S) \in S \cup {byId[g]} /\ Lower(byPath[g], S) \in S \cup {byPath[g]}
          BY <4>1, LowerRange
        <4> QED  BY <4>1, <4>2
      <3> QED  BY <1>2, <3>1, <3>2 DEF ListPage, Index
    <2>2. byId' \in [Group -> Graph \cup {None}] /\ byPath' \in [Group -> Graph \cup {None}]
      BY <1>2, <2>1 DEF ListPage, Index
    <2>3. seen' \in [Graph -> SUBSET Key]
      <3>1. \A i \in Page : graphs[i] \in GraphRecord
        BY DEF Page, Stored
      <3>2. \A i \in Page : graphs[i].keys \in SUBSET Key
        BY <3>1 DEF GraphRecord
      <3>3. seen' = [i \in Graph |-> IF i \in Page /\ "id" \in graphs[i].keys
                                     THEN graphs[i].keys ELSE seen[i]]
        BY <1>2 DEF ListPage
      <3>4. seen \in [Graph -> SUBSET Key]
        OBVIOUS
      <3> HIDE DEF TypeOK
      <3> QED  BY <3>2, <3>3, <3>4
    <2>4. offset' \in Nat /\ key' \in Key /\ todo' \subseteq Group /\ phase' \in {"list", "work"}
      BY <1>2, PageAssumption DEF ListPage, Key
    <2> QED  BY <1>2, <2>2, <2>3, <2>4 DEF ListPage, Stored
  <1>3. CASE ListFails
    BY <1>3, BoundAssumption DEF ListFails, listVars, Stored
  <1>4. ASSUME NEW g \in Group, TakeListed(g) PROVE TypeOK'
    <2>1. Existing(g) \in Graph
      BY <1>4 DEF TakeListed, Existing
    <2>2. [group |-> g, keys |-> Key] \in GraphRecord
      BY DEF GraphRecord
    <2>3. /\ graphs' \in [Graph -> GraphRecord \cup {None}]
          /\ rights' \in [Graph -> [Subject -> Right] \cup {None}]
          /\ \A j \in Graph : graphs'[j] = None <=> rights'[j] = None
          /\ Stored' \subseteq used' /\ used' \subseteq Graph
          /\ echo' \in BOOLEAN /\ steady' \subseteq Graph
      <3>1. CASE Save(Existing(g), [group |-> g, keys |-> Key])
        BY <2>1, <2>2, <3>1, SaveType
      <3>2. CASE Unsaved
        BY <3>2 DEF Unsaved, Stored
      <3> QED  BY <1>4, <3>1, <3>2 DEF TakeListed
    <2> QED  BY <1>4, <2>1, <2>3, GroupAssumption, GraphAssumption DEF TakeListed, listVars
  <1>5. ASSUME NEW g \in Group, TakeNew(g) PROVE TypeOK'
    <2>1. [group |-> g, keys |-> Key] \in GraphRecord
      BY DEF GraphRecord
    <2>2. CASE Unsaved /\ UNCHANGED <<current, target, phase>>
      BY <1>5, <2>2 DEF TakeNew, Unsaved, Stored, listVars
    <2>3. ASSUME NEW i \in Graph \ used, Save(i, [group |-> g, keys |-> Key]),
                 current' = g, target' = i, phase' = "share"
          PROVE  TypeOK'
      <3>1. /\ graphs' \in [Graph -> GraphRecord \cup {None}]
            /\ rights' \in [Graph -> [Subject -> Right] \cup {None}]
            /\ \A j \in Graph : graphs'[j] = None <=> rights'[j] = None
            /\ Stored' \subseteq used' /\ used' \subseteq Graph
            /\ echo' \in BOOLEAN /\ steady' \subseteq Graph
        BY <2>1, <2>3, SaveType
      <3> QED  BY <1>5, <2>3, <3>1, GroupAssumption, GraphAssumption DEF TakeNew, listVars
    <2> QED  BY <1>5, <2>2, <2>3 DEF TakeNew
  <1>6. ASSUME NEW g \in Group, SaveFails(g) PROVE TypeOK'
    BY <1>6, BoundAssumption DEF SaveFails, listVars, Stored
  <1>7. CASE ReadRights
    <2>1. rights[target] \in [Subject -> Right] /\ target \in Graph
      BY <1>7 DEF ReadRights
    <2>2. Rewritten(rights[target]) \in [Subject -> Right]
      BY <2>1, WantType DEF Rewritten, Right
    <2>3. next' \in [Subject -> Right] \cup {None} /\ (phase' = "grant" => next' # None)
      BY <1>7, <2>2, NoneAssumption DEF ReadRights, Shared
    <2> QED  BY <1>7, <2>3 DEF ReadRights, Shared, listVars, Stored
  <1>8. ASSUME NotShared PROVE graphs' = graphs /\ phase' = "work" /\ (failures' \in 0..MaxFailures => TypeOK')
    BY <1>8 DEF NotShared, listVars, Stored
  <1>9. CASE ShareFails
    BY <1>8, <1>9, BoundAssumption DEF ShareFails, ShareFailsCall
  <1>10. CASE WriteRights
    BY <1>10 DEF WriteRights, Shared, listVars, Stored
  <1>11. CASE Forget
    <2>1. [group |-> current, keys |-> {}] \in GraphRecord /\ target \in Graph
      BY <1>11 DEF GraphRecord, Forget
    <2>2. /\ graphs' \in [Graph -> GraphRecord \cup {None}]
          /\ rights' \in [Graph -> [Subject -> Right] \cup {None}]
          /\ \A j \in Graph : graphs'[j] = None <=> rights'[j] = None
          /\ Stored' \subseteq used' /\ used' \subseteq Graph
          /\ echo' \in BOOLEAN /\ steady' \subseteq Graph
      <3>1. CASE Save(target, [group |-> current, keys |-> {}])
        BY <2>1, <3>1, SaveType
      <3>2. CASE Unsaved
        BY <3>2 DEF Unsaved, Stored
      <3> QED  BY <1>11, <3>1, <3>2 DEF Forget
    <2> QED  BY <1>11, <2>2 DEF Forget, listVars
  <1>12. CASE End
    BY <1>12 DEF End, listVars, Stored
  <1>13. ASSUME NEW i \in Graph, Delete(i) PROVE TypeOK'
    BY <1>13, BoundAssumption DEF Delete, OutsideStep, Leaves, listVars, Stored
  <1>14. ASSUME NEW i \in Graph, NEW keys \in SUBSET Key, Strip(i, keys) PROVE TypeOK'
    <2>1. graphs[i] \in GraphRecord
      BY <1>14 DEF Strip, Stored
    <2>2. graphs' = [graphs EXCEPT ![i] = [graphs[i] EXCEPT !.keys = keys]]
      BY <1>14 DEF Strip
    <2>3. [graphs[i] EXCEPT !.keys = keys] \in GraphRecord
      BY <2>1 DEF GraphRecord
    <2>4. /\ graphs' \in [Graph -> GraphRecord \cup {None}] /\ rights' = rights
          /\ \A j \in Graph : graphs'[j] = None <=> rights'[j] = None
          /\ Stored' = Stored
      BY <1>14, <2>2, <2>3, NoneAssumption DEF Strip, Stored
    <2> QED  BY <1>14, <2>4, BoundAssumption DEF Strip, OutsideStep, Leaves, listVars
  <1>15. ASSUME NEW i \in Graph, NEW j \in Graph, Copy(i, j) PROVE TypeOK'
    <2>1. NewRights # None /\ NewRights \in [Subject -> Right]
      BY NewRightsType, NoneAssumption
    <2>2. /\ graphs' \in [Graph -> GraphRecord \cup {None}]
          /\ rights' \in [Graph -> [Subject -> Right] \cup {None}]
          /\ \A h \in Graph : graphs'[h] = None <=> rights'[h] = None
          /\ Stored' \subseteq used' /\ used' \subseteq Graph
      BY <1>15, <2>1 DEF Copy, Stored
    <2> QED  BY <1>15, <2>2, BoundAssumption DEF Copy, OutsideStep, listVars
  <1>16. ASSUME NEW i \in Graph, NEW s \in Subject, NEW r \in Right, Regrant(i, s, r) PROVE TypeOK'
    <2>1. rights[i] \in [Subject -> Right]
      BY <1>16 DEF Regrant, Stored
    <2>2. rights' = [rights EXCEPT ![i] = [rights[i] EXCEPT ![s] = r]]
      BY <1>16 DEF Regrant
    <2>3. [rights[i] EXCEPT ![s] = r] \in [Subject -> Right]
      BY <2>1
    <2>4. /\ rights' \in [Graph -> [Subject -> Right] \cup {None}] /\ graphs' = graphs
          /\ \A h \in Graph : graphs'[h] = None <=> rights'[h] = None
      BY <1>16, <2>2, <2>3, NoneAssumption DEF Regrant, Stored
    <2> QED  BY <1>16, <2>4, BoundAssumption DEF Regrant, OutsideStep, listVars, Stored
  <1>17. CASE Others
    BY <1>13, <1>14, <1>15, <1>16, <1>17, GrantAssumption DEF Others
  <1>18. CASE NoResource \/ WriteGone
    BY <1>8, <1>18 DEF NoResource, WriteGone
  <1>19. CASE UNCHANGED vars
    BY <1>19 DEF vars, listVars, Stored
  <1> QED  BY <1>1, <1>2, <1>3, <1>4, <1>5, <1>6, <1>7, <1>9, <1>10, <1>11, <1>12, <1>17, <1>18, <1>19
            DEF Next, Pass

\* The graphs, their rights and the pass keep their shape, whatever others do
\* between two calls of the store.
THEOREM TypeCorrect == Spec => []TypeOK
  BY TypeInit, TypeNext, PTL DEF Spec

-----------------------------------------------------------------------------
(* What is listed is found *)

\* The graphs a listing by the key holds, and where it has found the graph.
Hits(k) == {i \in Stored : k \in graphs[i].keys}

Caught(i) ==
    LET found == IF "id" \in graphs[i].keys THEN byId[graphs[i].group] ELSE byPath[graphs[i].group]
    IN  found # None /\ found <= i

\* The listing by the key has been where the graph now is.
Passed(i, k) ==
    \/ phase # "list"
    \/ key = "path" /\ k = "id"
    \/ key = k /\ RankIn(Hits(k), i) < offset

\* A graph nobody touched, in a listing that lost none between two pages, is
\* found once that listing has been where it is.
WholeInv ==
    /\ steady \subseteq Stored
    /\ phase # "idle" =>
          \A i \in steady : \A k \in graphs[i].keys : ~shrunk[k] /\ Passed(i, k) => Caught(i)

LEMMA HitsType == ASSUME TypeOK PROVE \A k : Hits(k) \in SUBSET Nat
  BY GraphAssumption DEF Hits, Stored

\* keepLower keeps nothing higher than what it is offered.
LEMMA LowerBelow ==
    ASSUME NEW previous \in Graph \cup {None}, NEW S \in SUBSET Graph
    PROVE  /\ previous # None => Lower(previous, S) # None /\ Lower(previous, S) <= previous
           /\ \A i \in S : Lower(previous, S) # None /\ Lower(previous, S) <= i
  <1> DEFINE T == (S \cup {previous}) \ {None}
  <1>1. T \in SUBSET Nat /\ None \notin T
    BY GraphAssumption
  <1>2. \A i \in S : i \in T
    BY GraphAssumption
  <1>3. T # {} => Min(T) \in T /\ \A i \in T : Min(T) <= i
    <2> HIDE DEF T
    <2> QED  BY <1>1, LowestExists DEF Min
  <1>4. T # {} => Lower(previous, S) = Min(T)
    BY DEF Lower
  <1>5. previous # None => previous \in T
    OBVIOUS
  <1> HIDE DEF T
  <1> QED  BY <1>1, <1>2, <1>3, <1>4, <1>5

\* A page catches what is on it, and lets go of nothing.
LEMMA PageCatches ==
    ASSUME TypeOK, ListPage, NEW i \in Stored, i \in Page \/ Caught(i)
    PROVE  Caught(i)'
  <1> DEFINE g == graphs[i].group
             S == {j \in Page : graphs[j].group = g /\ "id" \in graphs[j].keys}
             T == {j \in Page : graphs[j].group = g /\ "id" \notin graphs[j].keys}
  <1>1. graphs' = graphs /\ Index
    BY DEF ListPage
  <1>2. i \in Graph /\ g \in Group
    BY DEF TypeOK, Stored, GraphRecord
  <1>3. byId'[g] = Lower(byId[g], S) /\ byPath'[g] = Lower(byPath[g], T)
    BY <1>1, <1>2 DEF Index
  <1>4. byId[g] \in Graph \cup {None} /\ byPath[g] \in Graph \cup {None}
    BY <1>2 DEF TypeOK
  <1>5. S \in SUBSET Graph /\ T \in SUBSET Graph
    BY DEF Page, Stored
  <1>6. i \in Page => (IF "id" \in graphs[i].keys THEN i \in S ELSE i \in T)
    OBVIOUS
  <1>7. ASSUME i \notin Page
        PROVE  IF "id" \in graphs[i].keys THEN byId[g] # None /\ byId[g] <= i
                                          ELSE byPath[g] # None /\ byPath[g] <= i
    BY <1>7 DEF Caught
  <1> SUFFICES IF "id" \in graphs[i].keys THEN byId'[g] # None /\ byId'[g] <= i
                                          ELSE byPath'[g] # None /\ byPath'[g] <= i
    BY <1>1 DEF Caught
  <1> HIDE DEF S, T, g
  <1>8. /\ byId[g] # None => byId'[g] # None /\ byId'[g] <= byId[g]
        /\ \A j \in S : byId'[g] # None /\ byId'[g] <= j
    BY <1>3, <1>4, <1>5, LowerBelow
  <1>9. /\ byPath[g] # None => byPath'[g] # None /\ byPath'[g] <= byPath[g]
        /\ \A j \in T : byPath'[g] # None /\ byPath'[g] <= j
    BY <1>3, <1>4, <1>5, LowerBelow
  <1>10. byId'[g] \in Graph \cup {None} /\ byPath'[g] \in Graph \cup {None}
    <2>1. byId'[g] \in S \cup {byId[g]} /\ byPath'[g] \in T \cup {byPath[g]}
      BY <1>3, <1>4, <1>5, LowerRange
    <2> QED  BY <1>4, <1>5, <2>1
  <1>11. i \in Nat /\ \A j \in Graph : j \in Nat
    BY <1>2, GraphAssumption
  <1> QED  BY <1>4, <1>6, <1>7, <1>8, <1>9, <1>10, <1>11

LEMMA ListPageWhole == ASSUME TypeOK, WholeInv, ListPage PROVE WholeInv'
  <1>1. UNCHANGED <<graphs, steady, shrunk>> /\ phase = "list"
    BY DEF ListPage, history
  <1>2. Stored' = Stored /\ steady' \subseteq Stored'
    BY <1>1 DEF Stored, WholeInv
  <1>3. \A k : Hits(k)' = Hits(k)
    BY <1>1, <1>2 DEF Hits
  <1>4. Page = {j \in Hits(key) : RankIn(Hits(key), j) >= offset /\ RankIn(Hits(key), j) < offset + PageSize}
    BY DEF Page, Hits, RankIn, Under
  <1>5. offset \in Nat /\ PageSize \in Nat /\ key \in {"id", "path"}
    BY PageAssumption DEF TypeOK, Key
  <1> SUFFICES ASSUME NEW i \in steady, NEW k \in graphs[i].keys, ~shrunk[k], Passed(i, k)'
               PROVE  Caught(i)'
    BY <1>1, <1>2 DEF WholeInv
  <1>6. i \in Stored /\ graphs[i].keys \subseteq Key
    BY DEF WholeInv, Stored, TypeOK, GraphRecord
  <1>7. i \in Hits(k)
    BY <1>6 DEF Hits
  <1>8. RankIn(Hits(k), i) \in Nat
    BY <1>7, HitsType, RankType
  <1>9. CASE k # key
    <2>1. key = "path" /\ k = "id"
      BY <1>1, <1>3, <1>5, <1>6, <1>8, <1>9 DEF ListPage, Passed, Key
    <2>2. Caught(i)
      BY <1>1, <2>1 DEF WholeInv, Passed
    <2> QED  BY <1>6, <2>2, PageCatches
  <1>10. CASE k = key
    <2>1. RankIn(Hits(k), i) < offset + PageSize
      <3>1. CASE Cardinality(Page) = PageSize
        BY <1>1, <1>3, <1>5, <1>10, <3>1 DEF ListPage, Passed
      <3>2. CASE Cardinality(Page) # PageSize
        <4>1. RankIn(Hits(k), i) >= offset + PageSize => Cardinality(Page) = PageSize
          <5> DEFINE H == Hits(k)
          <5>1. H \in SUBSET Nat /\ i \in H
            BY <1>7, HitsType
          <5>2. Page = {j \in H : RankIn(H, j) >= offset /\ RankIn(H, j) < offset + PageSize}
            BY <1>4, <1>10
          <5> HIDE DEF H
          <5>3. RankIn(H, i) >= offset + PageSize => Cardinality(Page) = PageSize
            BY <1>5, <5>1, <5>2, PageIsFull
          <5> QED  BY <5>3 DEF H
        <4> QED  BY <1>5, <1>8, <3>2, <4>1
      <3> QED  BY <3>1, <3>2
    <2>2. CASE RankIn(Hits(k), i) < offset
      <3>1. Caught(i)
        BY <1>1, <1>10, <2>2 DEF WholeInv, Passed
      <3> QED  BY <1>6, <3>1, PageCatches
    <2>3. CASE RankIn(Hits(k), i) >= offset
      <3>1. i \in Page
        BY <1>4, <1>7, <1>10, <2>1, <2>3
      <3> QED  BY <1>6, <3>1, PageCatches
    <2> QED  BY <1>5, <1>8, <2>2, <2>3
  <1> QED  BY <1>9, <1>10

\* What others do: of the untouched graphs a listing that lost none still has
\* those it has not passed before it.
LEMMA OthersWhole ==
    ASSUME TypeOK, TypeOK', WholeInv, UNCHANGED <<phase, listVars>>, steady' \subseteq steady,
           \A i \in steady' : graphs'[i] = graphs[i],
           \A k \in Key : shrunk[k] => shrunk'[k],
           phase = "list" /\ offset > 0 => shrunk'[key] \/ Hits(key) \subseteq Hits(key)'
    PROVE  WholeInv'
  <1>1. byId' = byId /\ byPath' = byPath /\ key' = key /\ offset' = offset /\ phase' = phase
    BY DEF listVars
  <1>2. \A i \in steady' : i \in steady /\ i \in Stored /\ i \in Stored' /\ graphs[i].keys \subseteq Key
    BY DEF WholeInv, Stored, TypeOK, GraphRecord
  <1>3. \A i \in steady' : Caught(i) => Caught(i)'
    BY <1>1 DEF Caught
  <1> SUFFICES ASSUME phase # "idle", NEW i \in steady', NEW k \in graphs[i].keys, ~shrunk'[k], Passed(i, k)'
               PROVE  Caught(i)
    BY <1>1, <1>2, <1>3 DEF WholeInv
  <1>4. k \in Key /\ ~shrunk[k]
    BY <1>2
  <1>5. CASE phase # "list"
    BY <1>2, <1>4, <1>5 DEF WholeInv, Passed
  <1>6. CASE key = "path" /\ k = "id"
    BY <1>2, <1>4, <1>6 DEF WholeInv, Passed
  <1>7. CASE phase = "list" /\ key = k
    <2>1. i \in Hits(k) /\ i \in Hits(k)' /\ Hits(k) \in SUBSET Nat /\ Hits(k)' \in SUBSET Nat
      <3>1. Hits(k)' \in SUBSET Nat
        BY GraphAssumption DEF Hits, Stored
      <3> QED  BY <1>2, <3>1, HitsType DEF Hits
    <2>2. RankIn(Hits(k)', i) \in Nat /\ RankIn(Hits(k), i) \in Nat /\ i \in Nat
      BY <2>1, RankType
    <2>3. RankIn(Hits(k)', i) < offset
      BY <1>1, <1>4, <1>7 DEF Passed, Key
    <2>4. offset > 0
      BY <2>2, <2>3 DEF TypeOK
    <2>5. Under(Hits(k), i) \subseteq Hits(k)'
      <3>1. Hits(key)' = Hits(k)'
        BY <1>1, <1>7 DEF Hits
      <3>2. Hits(k) \subseteq Hits(k)'
        BY <1>4, <1>7, <2>4, <3>1
      <3> QED  BY <3>2 DEF Under
    <2>6. RankIn(Hits(k), i) <= RankIn(Hits(k)', i)
      BY <2>1, <2>2, <2>5, RankGrows
    <2>7. RankIn(Hits(k), i) < offset
      BY <2>2, <2>3, <2>6 DEF TypeOK
    <2> QED  BY <1>2, <1>4, <1>7, <2>7 DEF WholeInv, Passed
  <1>8. phase # "list" \/ (key = "path" /\ k = "id") \/ key = k
    BY <1>1 DEF Passed
  <1> QED  BY <1>5, <1>7, <1>8, <1>6

\* Away from the listing only the graphs that are written are touched.
LEMMA WritingWhole ==
    ASSUME TypeOK, WholeInv, UNCHANGED <<listVars, shrunk>>, phase \notin {"idle", "list"},
           \/ graphs' = graphs /\ steady' = steady
           \/ \E j \in Graph : \E g : g # None /\ graphs' = [graphs EXCEPT ![j] = g] /\ steady' = steady \ {j}
    PROVE  WholeInv'
  <1>1. byId' = byId /\ byPath' = byPath
    BY DEF listVars
  <1>2. \A i \in steady' : i \in steady /\ graphs'[i] = graphs[i] /\ i \in Stored /\ i \in Stored'
    BY DEF WholeInv, Stored, TypeOK
  <1>3. \A i \in steady' : Caught(i) => Caught(i)'
    BY <1>1, <1>2 DEF Caught
  <1>4. \A i \in steady : \A k \in graphs[i].keys : ~shrunk[k] => Caught(i)
    BY DEF WholeInv, Passed
  <1>5. \A i \in steady' : \A k \in graphs'[i].keys : ~shrunk'[k] => Caught(i)'
    BY <1>2, <1>3, <1>4
  <1> QED  BY <1>2, <1>5 DEF WholeInv

LEMMA WholeInit == Init => WholeInv
  BY DEF Init, WholeInv

LEMMA WholeNext == TypeOK /\ WholeInv /\ [Next]_vars => WholeInv'
  <1> SUFFICES ASSUME TypeOK, WholeInv, [Next]_vars PROVE WholeInv'
    OBVIOUS
  <1>0. TypeOK'
    BY TypeNext
  <1>1. CASE Begin
    <2>1. graphs' = graphs /\ steady' = Stored /\ phase' = "list" /\ key' = "id" /\ offset' = 0
      BY <1>1 DEF Begin
    <2>2. Stored' = Stored
      BY <2>1 DEF Stored
    <2>3. ASSUME NEW i \in steady', NEW k \in graphs'[i].keys, Passed(i, k)' PROVE FALSE
      <3>1. i \in Nat /\ Hits(k)' \in SUBSET Nat
        BY <2>1, <2>2, GraphAssumption DEF Hits, Stored
      <3>2. RankIn(Hits(k)', i) \in Nat
        BY <3>1, RankType
      <3> QED  BY <2>1, <2>3, <3>2 DEF Passed
    <2> QED  BY <2>1, <2>2, <2>3 DEF WholeInv
  <1>2. CASE ListPage
    BY <1>2, ListPageWhole
  <1>3. CASE ListFails
    BY <1>3 DEF ListFails, history, WholeInv, Stored
  <1>4. ASSUME NEW g \in Group, TakeListed(g) PROVE WholeInv'
    <2>1. Existing(g) \in Graph
      BY <1>4 DEF TakeListed, Existing, TypeOK
    <2>2. [group |-> g, keys |-> Key] # None
      BY NoneAssumption DEF GraphRecord
    <2> QED  BY <1>4, <2>1, <2>2, WritingWhole DEF TakeListed, Save, Unsaved
  <1>5. ASSUME NEW g \in Group, TakeNew(g) PROVE WholeInv'
    <2>2. [group |-> g, keys |-> Key] # None
      BY NoneAssumption DEF GraphRecord
    <2> QED  BY <1>5, <2>2, WritingWhole DEF TakeNew, Save, Unsaved
  <1>6. CASE Forget
    <2>1. target \in Graph /\ [group |-> current, keys |-> {}] # None
      BY <1>6, NoneAssumption, GroupAssumption DEF Forget, TypeOK, GraphRecord
    <2> QED  BY <1>6, <2>1, WritingWhole DEF Forget, Save, Unsaved
  <1>7. CASE ReadRights \/ NoResource \/ ShareFails \/ WriteRights \/ WriteGone \/ End
    <2>1. UNCHANGED <<listVars, history, graphs>> /\ phase \notin {"idle", "list"}
      BY <1>7 DEF ReadRights, NoResource, ShareFails, ShareFailsCall, WriteRights, WriteGone, End, NotShared
    <2> QED  BY <2>1, WritingWhole DEF history
  <1>8. ASSUME NEW g \in Group, SaveFails(g) PROVE WholeInv'
    <2>1. UNCHANGED <<listVars, history, graphs>> /\ phase \notin {"idle", "list"}
      BY <1>8 DEF SaveFails
    <2> QED  BY <2>1, WritingWhole DEF history
  <1>9. ASSUME NEW i \in Graph, Delete(i) PROVE WholeInv'
    <2>1. UNCHANGED <<phase, listVars>> /\ graphs' = [graphs EXCEPT ![i] = None] /\ steady' = steady \ {i}
      BY <1>9 DEF Delete, OutsideStep, Leaves
    <2>2. shrunk' = [k \in Key |-> shrunk[k] \/
                       (phase = "list" /\ offset > 0 /\ key = k /\ k \in graphs[i].keys)]
      BY <1>9 DEF Delete, Leaves
    <2>3. key \in Key
      BY DEF TypeOK
    <2>4. i \notin Hits(key) => Hits(key) \subseteq Hits(key)'
      BY <1>0, <2>1 DEF Hits, Stored, TypeOK, listVars
    <2>5. i \in Hits(key) /\ phase = "list" /\ offset > 0 => shrunk'[key]
      BY <2>2, <2>3 DEF Hits
    <2>6. \A j \in steady' : graphs'[j] = graphs[j]
      BY <2>1 DEF WholeInv, Stored, TypeOK
    <2> QED  BY <1>0, <2>1, <2>2, <2>4, <2>5, <2>6, OthersWhole
  <1>10. ASSUME NEW i \in Graph, NEW keys \in SUBSET Key, Strip(i, keys) PROVE WholeInv'
    <2>1. /\ UNCHANGED <<phase, listVars>> /\ steady' = steady \ {i}
          /\ graphs' = [graphs EXCEPT ![i] = [graphs[i] EXCEPT !.keys = keys]]
      BY <1>10 DEF Strip, OutsideStep, Leaves
    <2>2. shrunk' = [k \in Key |-> shrunk[k] \/
                       (phase = "list" /\ offset > 0 /\ key = k /\ k \in graphs[i].keys)]
      BY <1>10 DEF Strip, Leaves
    <2>3. key \in Key
      BY DEF TypeOK
    <2>4. i \notin Hits(key) => Hits(key) \subseteq Hits(key)'
      BY <1>0, <2>1 DEF Hits, Stored, TypeOK, listVars
    <2>5. i \in Hits(key) /\ phase = "list" /\ offset > 0 => shrunk'[key]
      BY <2>2, <2>3 DEF Hits
    <2>6. \A j \in steady' : graphs'[j] = graphs[j]
      BY <2>1 DEF WholeInv, Stored, TypeOK
    <2> QED  BY <1>0, <2>1, <2>2, <2>4, <2>5, <2>6, OthersWhole
  \* A copy only puts those behind it further back.
  <1>11. ASSUME NEW i \in Graph, NEW j \in Graph, Copy(i, j) PROVE WholeInv'
    <2>1. /\ UNCHANGED <<phase, listVars, steady, shrunk>> /\ j \notin Stored
          /\ graphs' = [graphs EXCEPT ![j] = graphs[i]]
      BY <1>11 DEF Copy, OutsideStep, history, TypeOK
    <2>2. \A h \in Stored : graphs'[h] = graphs[h] /\ h \in Stored'
      BY <2>1 DEF Stored, TypeOK
    <2>3. Hits(key) \subseteq Hits(key)'
      BY <2>1, <2>2 DEF Hits, listVars
    <2>4. \A h \in steady' : graphs'[h] = graphs[h]
      BY <2>1, <2>2 DEF WholeInv
    <2> QED  BY <1>0, <2>1, <2>3, <2>4, OthersWhole
  <1>12. ASSUME NEW i \in Graph, NEW s \in Subject, NEW r \in Right, Regrant(i, s, r) PROVE WholeInv'
    <2>1. UNCHANGED <<phase, listVars, steady, shrunk, graphs>>
      BY <1>12 DEF Regrant, OutsideStep, history
    <2>2. Hits(key)' = Hits(key)
      BY <2>1 DEF Hits, Stored, listVars
    <2> QED  BY <1>0, <2>1, <2>2, OthersWhole
  <1>13. CASE UNCHANGED vars
    <2>1. UNCHANGED <<phase, listVars, steady, shrunk, graphs>>
      BY <1>13 DEF vars, history
    <2>2. Hits(key)' = Hits(key)
      BY <2>1 DEF Hits, Stored, listVars
    <2> QED  BY <1>0, <2>1, <2>2, OthersWhole
  <1>14. CASE Others
    BY <1>9, <1>10, <1>11, <1>12, <1>14, GrantAssumption DEF Others
  <1> QED  BY <1>1, <1>2, <1>3, <1>4, <1>5, <1>6, <1>7, <1>8, <1>13, <1>14 DEF Next, Pass

\* A listing misses a graph only if it lost another between two pages in every
\* listing the graph belongs in, however many graphs, pages and calls of others
\* there are (Defaults, collect, keepLower).
THEOREM ListingsAreWhole == Spec => []ListingIsWhole
  <1>1. WholeInv => ListingIsWhole
    BY DEF WholeInv, ListingIsWhole, Passed, Caught
  <1> QED  BY TypeInit, TypeNext, WholeInit, WholeNext, <1>1, PTL DEF Spec

-----------------------------------------------------------------------------
(* What a listing says of a graph stays true of it *)

\* The graphs the listing found for a group.
Found(g) == {byId[g], byPath[g]} \ {None}

\* No graph is found for two groups, and none that an id will be given to anew.
\* What is found for a group is a graph of it, if it is still there; one of a
\* group that is gone has lost keys since it was listed, and gained none.
ListInv ==
    /\ \A g \in Group : Found(g) \subseteq used
    /\ \A g, h \in Group : g # h => Found(g) \cap Found(h) = {}
    /\ \A g \in Group : \A i \in Found(g) : graphs[i] # None => graphs[i].group = g
    /\ \A g \in Group : g \in Dissolved =>
          \A i \in Graph : graphs[i] # None =>
             /\ byId[g] = i => graphs[i].keys \subseteq seen[i]
             /\ byPath[g] = i => graphs[i].keys \subseteq {"path"}

LEMMA ListInit == Init => ListInv
  BY GraphAssumption DEF Init, ListInv, Found

\* A step that leaves the listing alone, forgets no id, and adds no key to a
\* graph found for a group that is gone.
LEMMA ListKept ==
    ASSUME TypeOK, ListInv, UNCHANGED listVars, used \subseteq used',
           \A g \in Group : \A i \in Found(g) : graphs'[i] # None =>
               /\ graphs'[i].group = g
               /\ g \in Dissolved =>
                    \/ graphs'[i].keys = {}
                    \/ graphs[i] # None /\ graphs'[i].keys \subseteq graphs[i].keys
    PROVE  ListInv'
  <1>1. byId' = byId /\ byPath' = byPath /\ seen' = seen
    BY DEF listVars
  <1>2. \A g \in Group : Found(g)' = Found(g)
    BY <1>1 DEF Found
  <1>3. \A g \in Group : \A i \in Graph : byId[g] = i \/ byPath[g] = i => i \in Found(g)
    BY GraphAssumption DEF Found
  <1>4. ASSUME NEW g \in Group, g \in Dissolved, NEW i \in Graph, graphs'[i] # None
        PROVE  /\ byId[g] = i => graphs'[i].keys \subseteq seen[i]
               /\ byPath[g] = i => graphs'[i].keys \subseteq {"path"}
    BY <1>3, <1>4 DEF ListInv
  <1> QED  BY <1>1, <1>2, <1>4 DEF ListInv

\* A page adds graphs to the group they are of.
LEMMA ListPageInv == TypeOK /\ ListInv /\ ListPage => ListInv'
  <1> SUFFICES ASSUME TypeOK, ListInv, ListPage PROVE ListInv'
    OBVIOUS
  <1>1. UNCHANGED <<graphs, used>> /\ Index
    BY DEF ListPage
  <1>2. seen' = [i \in Graph |-> IF i \in Page /\ "id" \in graphs[i].keys
                                 THEN graphs[i].keys ELSE seen[i]]
    BY DEF ListPage
  <1>3. \A i \in Page : i \in Graph /\ graphs[i] # None /\ i \in used
    BY DEF Page, Stored, TypeOK
  <1>4. \A g \in Group : \A i \in Found(g)' : i \in Found(g) \/ (i \in Page /\ graphs[i].group = g)
    <2> SUFFICES ASSUME NEW g \in Group, NEW i \in Found(g)'
                 PROVE  i \in Found(g) \/ (i \in Page /\ graphs[i].group = g)
      OBVIOUS
    <2> DEFINE S == {j \in Page : graphs[j].group = g /\ "id" \in graphs[j].keys}
               T == {j \in Page : graphs[j].group = g /\ "id" \notin graphs[j].keys}
    <2>1. byId'[g] = Lower(byId[g], S) /\ byPath'[g] = Lower(byPath[g], T)
      BY <1>1 DEF Index
    <2>2. byId[g] \in Graph \cup {None} /\ byPath[g] \in Graph \cup {None}
      BY DEF TypeOK
    <2>3. S \in SUBSET Graph /\ T \in SUBSET Graph
      BY <1>3
    <2>4. Lower(byId[g], S) \in S \cup {byId[g]}
      <3> HIDE DEF S, T
      <3> QED  BY <2>2, <2>3, LowerRange
    <2>5. Lower(byPath[g], T) \in T \cup {byPath[g]}
      <3> HIDE DEF S, T
      <3> QED  BY <2>2, <2>3, LowerRange
    <2> QED  BY <2>1, <2>4, <2>5 DEF Found
  <1>5. \A g \in Group : \A i \in Found(g) : i \in Graph
    BY DEF Found, TypeOK
  <1>6. \A g \in Group : Found(g)' \subseteq used
    BY <1>3, <1>4 DEF ListInv
  <1>7. \A g \in Group : \A i \in Found(g)' : graphs[i] # None => graphs[i].group = g
    BY <1>4 DEF ListInv
  <1>8. \A g, h \in Group : g # h => Found(g)' \cap Found(h)' = {}
    BY <1>3, <1>4 DEF ListInv
  <1>9. ASSUME NEW g \in Group, g \in Dissolved, NEW i \in Graph, graphs[i] # None
        PROVE  /\ byId'[g] = i => graphs[i].keys \subseteq seen'[i]
               /\ byPath'[g] = i => graphs[i].keys \subseteq {"path"}
    <2> DEFINE S == {j \in Page : graphs[j].group = g /\ "id" \in graphs[j].keys}
               T == {j \in Page : graphs[j].group = g /\ "id" \notin graphs[j].keys}
    <2>1. byId'[g] = Lower(byId[g], S) /\ byPath'[g] = Lower(byPath[g], T)
      BY <1>1 DEF Index
    <2>2. byId[g] \in Graph \cup {None} /\ byPath[g] \in Graph \cup {None}
      BY DEF TypeOK
    <2>3. S \in SUBSET Graph /\ T \in SUBSET Graph
      BY <1>3
    <2>4. byId'[g] \in S \cup {byId[g]} /\ byPath'[g] \in T \cup {byPath[g]}
      <3> HIDE DEF S, T
      <3> QED  BY <2>1, <2>2, <2>3, LowerRange
    <2>5. graphs[i].keys \subseteq Key
      BY <1>9 DEF TypeOK, GraphRecord
    <2>6. byId'[g] = i => graphs[i].keys \subseteq seen'[i]
      BY <1>2, <1>9, <2>4 DEF ListInv
    <2>7. byPath'[g] = i => graphs[i].keys \subseteq {"path"}
      BY <1>9, <2>4, <2>5 DEF ListInv, Key
    <2> QED  BY <2>6, <2>7
  <1> QED  BY <1>1, <1>6, <1>7, <1>8, <1>9 DEF ListInv

-----------------------------------------------------------------------------
(* Between the reading of the rights and their writing *)

\* What is about to be written differs from what is there in the two entries of
\* the service and in what others changed since it was read; a graph that is
\* about to be struck from its group has lost the group's access.
ShareInv ==
    /\ phase \in {"share", "grant", "forget"} =>
          target \in used /\ (current \in Dissolved => target = Existing(current))
    /\ phase = "grant" =>
          /\ next["member"] = Want(current)
          /\ rights[target] # None =>
                \A s \in Subject : next[s] # rights[target][s] => s \in {"member", "owner"} \cup touched
    /\ phase = "forget" =>
          /\ current \in Dissolved
          /\ writable /\ graphs[target] # None /\ "path" \in graphs[target].keys /\ rights[target] # None
                => rights[target]["member"] = "none" \/ "member" \in touched

Inv == TypeOK /\ ListInv /\ ShareInv

LEMMA ShareInit == Init => ShareInv
  BY DEF Init, ShareInv

LEMMA FoundInGraph == ASSUME TypeOK PROVE \A g \in Group : Found(g) \subseteq Graph
  BY DEF TypeOK, Found

\* Between two calls of a pass that work on no graph yet.
LEMMA ShareElsewhere ==
    ASSUME phase' \notin {"share", "grant", "forget"}
    PROVE  ShareInv'
  BY DEF ShareInv

LEMMA TakeListedInv == ASSUME Inv, NEW g \in Group, TakeListed(g) PROVE ListInv' /\ ShareInv'
  <1> DEFINE i == Existing(g)
  <1>1. i \in Graph /\ i \in Found(g) /\ i \in used
    BY GraphAssumption DEF TakeListed, Existing, Found, Inv, TypeOK, ListInv
  <1>2. \A h \in Group : i \in Found(h) => h = g
    BY <1>1 DEF Inv, ListInv
  <1>3. UNCHANGED listVars /\ current' = g /\ target' = i /\ phase' = "share"
    BY DEF TakeListed
  <1>4. \/ graphs' = graphs /\ used' = used
        \/ g \notin Dissolved /\ graphs' = [graphs EXCEPT ![i] = [group |-> g, keys |-> Key]] /\ used' = used \cup {i}
    BY DEF TakeListed, Save, Unsaved, Adopts
  <1> HIDE DEF i
  <1>5. ASSUME NEW h \in Group, NEW j \in Found(h), graphs'[j] # None
        PROVE  /\ graphs'[j].group = h
               /\ h \in Dissolved =>
                    \/ graphs'[j].keys = {}
                    \/ graphs[j] # None /\ graphs'[j].keys \subseteq graphs[j].keys
    <2>1. CASE graphs'[j] = graphs[j]
      BY <1>5, <2>1 DEF Inv, ListInv
    <2>2. CASE graphs'[j] # graphs[j]
      <3>1. j = i /\ g \notin Dissolved /\ graphs' = [graphs EXCEPT ![i] = [group |-> g, keys |-> Key]]
        BY <1>4, <2>2, FoundInGraph DEF Inv, TypeOK
      <3>2. h = g
        BY <1>2, <1>5, <3>1
      <3> QED  BY <1>1, <3>1, <3>2 DEF Inv, TypeOK
    <2> QED  BY <2>1, <2>2
  <1>6. ListInv'
    BY <1>3, <1>4, <1>5, ListKept DEF Inv
  <1>7. Existing(g)' = i
    BY <1>3 DEF Existing, listVars, i
  <1> QED  BY <1>1, <1>3, <1>4, <1>6, <1>7 DEF ShareInv

LEMMA TakeNewInv == ASSUME Inv, NEW g \in Group, TakeNew(g) PROVE ListInv' /\ ShareInv'
  <1>1. UNCHANGED listVars /\ phase = "work"
    BY DEF TakeNew
  <1>2. CASE Unsaved /\ UNCHANGED <<current, target, phase>>
    <2>1. graphs' = graphs /\ used' = used
      BY <1>2 DEF Unsaved
    <2>2. ListInv'
      BY <1>1, <2>1, ListKept DEF Inv, ListInv
    <2> QED  BY <1>1, <1>2, <2>2 DEF ShareInv
  <1>3. ASSUME NEW i \in Graph \ used, Save(i, [group |-> g, keys |-> Key]),
               g \notin Dissolved, current' = g, target' = i, phase' = "share"
        PROVE  ListInv' /\ ShareInv'
    <2>1. graphs' = [graphs EXCEPT ![i] = [group |-> g, keys |-> Key]] /\ used' = used \cup {i}
      BY <1>3 DEF Save
    <2>2. \A h \in Group : \A j \in Found(h) : j # i
      BY DEF Inv, ListInv
    <2>3. \A h \in Group : \A j \in Found(h) : graphs'[j] = graphs[j]
      BY <2>1, <2>2, FoundInGraph DEF Inv, TypeOK
    <2>4. ListInv'
      BY <1>1, <2>1, <2>3, ListKept DEF Inv, ListInv
    <2> QED  BY <1>3, <2>1, <2>4 DEF ShareInv
  <1> QED  BY <1>2, <1>3 DEF TakeNew

LEMMA ReadRightsInv == ASSUME Inv, ReadRights PROVE ListInv' /\ ShareInv'
  <1>1. /\ UNCHANGED <<graphs, used, rights, writable, listVars, current, target>>
        /\ phase = "share" /\ rights[target] # None /\ touched' = {}
    BY DEF ReadRights
  <1>2. ListInv'
    BY <1>1, ListKept DEF Inv, ListInv
  <1>3. Existing(current)' = Existing(current)
    BY <1>1 DEF Existing, listVars
  <1>4. target \in used /\ (current \in Dissolved => target = Existing(current))
    BY <1>1 DEF Inv, ShareInv
  <1>5. current \in Group /\ target \in Graph /\ rights[target] \in [Subject -> Right]
    BY <1>1 DEF Inv, TypeOK
  <1>6. CASE phase' = "grant"
    <2>1. next' = Rewritten(rights[target])
      BY <1>6 DEF ReadRights, Shared
    <2>2. next'["member"] = Want(current)
      BY <1>5, <2>1 DEF Rewritten, Subject
    <2>3. \A s \in Subject : next'[s] # rights[target][s] => s \in {"member", "owner"}
      BY <1>5, <2>1 DEF Rewritten
    <2>4. Want(current)' = Want(current)
      BY <1>1 DEF Want
    <2> QED  BY <1>1, <1>2, <1>3, <1>4, <1>6, <2>2, <2>3, <2>4 DEF ShareInv
  <1>7. CASE phase' = "forget"
    <2>1. current \in Dissolved /\ (Agrees(rights[target]) \/ ~writable)
      BY <1>7 DEF ReadRights, Shared
    <2>2. graphs[target] # None => graphs[target].keys \subseteq Listed(current)
      BY <1>4, <1>5, <2>1 DEF Inv, ListInv, Existing, Listed
    <2>3. writable /\ graphs[target] # None /\ "path" \in graphs[target].keys => rights[target]["member"] = "none"
      BY <2>1, <2>2 DEF Agrees, Want
    <2> QED  BY <1>1, <1>2, <1>3, <1>4, <1>7, <2>1, <2>3 DEF ShareInv
  <1>8. phase' \in {"grant", "forget", "work"}
    BY DEF ReadRights, Shared
  <1> QED  BY <1>2, <1>6, <1>7, <1>8, ShareElsewhere

LEMMA WriteRightsInv == ASSUME Inv, WriteRights PROVE ListInv' /\ ShareInv'
  <1>1. /\ UNCHANGED <<graphs, used, writable, listVars, current, target, touched>>
        /\ phase = "grant" /\ rights' = [rights EXCEPT ![target] = next]
    BY DEF WriteRights, shareVars
  <1>2. ListInv'
    BY <1>1, ListKept DEF Inv, ListInv
  <1>3. /\ target \in used /\ next["member"] = Want(current)
        /\ current \in Dissolved => target = Existing(current)
    BY <1>1 DEF Inv, ShareInv
  <1>4. CASE phase' = "forget"
    <2>1. current \in Dissolved
      BY <1>4 DEF WriteRights, Shared
    <2>2. rights'[target]["member"] = "none"
      BY <1>1, <1>3, <2>1 DEF Want, Inv, TypeOK
    <2>3. Existing(current)' = Existing(current)
      BY <1>1 DEF Existing, listVars
    <2> QED  BY <1>1, <1>2, <1>3, <1>4, <2>1, <2>2, <2>3 DEF ShareInv
  <1>5. phase' \in {"forget", "work"}
    BY DEF WriteRights, Shared
  <1> QED  BY <1>2, <1>4, <1>5, ShareElsewhere

LEMMA ForgetInv == ASSUME Inv, Forget PROVE ListInv' /\ ShareInv'
  <1>1. UNCHANGED listVars /\ phase = "forget" /\ phase' = "work"
    BY DEF Forget
  <1>2. target \in Graph /\ target \in used /\ current \in Group /\ target \in Found(current)
    BY <1>1, GraphAssumption DEF Inv, ShareInv, TypeOK, Existing, Found
  <1>3. \A h \in Group : target \in Found(h) => h = current
    BY <1>2 DEF Inv, ListInv
  <1>4. \/ graphs' = graphs /\ used' = used
        \/ graphs' = [graphs EXCEPT ![target] = [group |-> current, keys |-> {}]] /\ used' = used \cup {target}
    BY DEF Forget, Save, Unsaved
  <1>5. ASSUME NEW h \in Group, NEW j \in Found(h), graphs'[j] # None
        PROVE  /\ graphs'[j].group = h
               /\ h \in Dissolved =>
                    \/ graphs'[j].keys = {}
                    \/ graphs[j] # None /\ graphs'[j].keys \subseteq graphs[j].keys
    <2>1. CASE graphs'[j] = graphs[j]
      BY <1>5, <2>1 DEF Inv, ListInv
    <2>2. CASE graphs'[j] # graphs[j]
      <3>1. j = target /\ graphs' = [graphs EXCEPT ![target] = [group |-> current, keys |-> {}]]
        BY <1>4, <2>2, FoundInGraph DEF Inv, TypeOK
      <3> QED  BY <1>2, <1>3, <1>5, <3>1 DEF Inv, TypeOK
    <2> QED  BY <2>1, <2>2
  <1>6. ListInv'
    BY <1>1, <1>4, <1>5, ListKept DEF Inv
  <1> QED  BY <1>1, <1>6, ShareElsewhere

\* A step of others that leaves the rights of the graph at hand alone.
LEMMA ShareKept ==
    ASSUME Inv, UNCHANGED <<phase, current, target, next, writable, listVars>>,
           used \subseteq used', touched \subseteq touched',
           phase \in {"share", "grant", "forget"} =>
              /\ rights'[target] # None => rights[target] # None /\ rights'[target] = rights[target]
              /\ graphs'[target] # None =>
                    graphs[target] # None /\ graphs'[target].keys \subseteq graphs[target].keys
    PROVE  ShareInv'
  <1>1. \A g : Existing(g)' = Existing(g)
    BY DEF Existing, listVars
  <1>2. ShareInv
    BY DEF Inv
  <1>3. phase \in {"share", "grant", "forget"} =>
           target \in used' /\ (current \in Dissolved => target = Existing(current)')
    BY <1>1, <1>2 DEF ShareInv
  <1>4. phase = "grant" =>
          /\ next["member"] = Want(current)
          /\ rights'[target] # None =>
                \A s \in Subject : next[s] # rights'[target][s] => s \in {"member", "owner"} \cup touched'
    BY <1>2 DEF ShareInv
  <1>5. phase = "forget" =>
          /\ current \in Dissolved
          /\ writable /\ graphs'[target] # None /\ "path" \in graphs'[target].keys /\ rights'[target] # None
                => rights'[target]["member"] = "none" \/ "member" \in touched'
    BY <1>2 DEF ShareInv
  <1>6. Want(current)' = Want(current)
    BY DEF Want
  <1> QED  BY <1>3, <1>4, <1>5, <1>6 DEF ShareInv

LEMMA OthersInv == ASSUME Inv, Others PROVE ListInv' /\ ShareInv'
  <1>0. phase \in {"share", "grant", "forget"} => target \in Graph /\ target \in used
    BY DEF Inv, TypeOK, ShareInv
  <1>1. ASSUME NEW i \in Graph, Delete(i) PROVE ListInv' /\ ShareInv'
    <2>1. /\ UNCHANGED <<phase, current, target, next, writable, listVars, used, touched>>
          /\ graphs' = [graphs EXCEPT ![i] = None] /\ rights' = [rights EXCEPT ![i] = None]
      BY <1>1 DEF Delete, OutsideStep, shareVars
    <2>2. \A j \in Graph : graphs'[j] # None => graphs'[j] = graphs[j]
      BY <2>1 DEF Inv, TypeOK
    <2>3. ListInv'
      BY <2>1, <2>2, ListKept, FoundInGraph DEF Inv, ListInv
    <2>4. \A j \in Graph : rights'[j] # None => rights'[j] = rights[j]
      BY <2>1 DEF Inv, TypeOK
    <2> QED  BY <1>0, <2>1, <2>2, <2>3, <2>4, ShareKept
  <1>2. ASSUME NEW i \in Graph, NEW keys \in SUBSET Key, Strip(i, keys) PROVE ListInv' /\ ShareInv'
    <2>1. /\ UNCHANGED <<phase, current, target, next, writable, listVars, used, touched, rights>>
          /\ graphs' = [graphs EXCEPT ![i] = [graphs[i] EXCEPT !.keys = keys]]
          /\ graphs[i] # None /\ keys \subseteq graphs[i].keys
      BY <1>2 DEF Strip, OutsideStep, shareVars, Stored
    <2>2. \A j \in Graph : graphs'[j] # None => graphs[j] # None
      BY <2>1 DEF Inv, TypeOK
    <2>3. \A j \in Graph : graphs[j] # None =>
             graphs'[j].group = graphs[j].group /\ graphs'[j].keys \subseteq graphs[j].keys
      BY <2>1 DEF Inv, TypeOK, GraphRecord
    <2>4. ListInv'
      BY <2>1, <2>2, <2>3, ListKept, FoundInGraph DEF Inv, ListInv
    <2> QED  BY <1>0, <2>1, <2>2, <2>3, <2>4, ShareKept
  <1>3. ASSUME NEW i \in Graph, NEW j \in Graph, Copy(i, j) PROVE ListInv' /\ ShareInv'
    <2>1. /\ UNCHANGED <<phase, current, target, next, writable, listVars, touched>>
          /\ graphs' = [graphs EXCEPT ![j] = graphs[i]] /\ rights' = [rights EXCEPT ![j] = NewRights]
          /\ used' = used \cup {j} /\ j \notin used
      BY <1>3 DEF Copy, OutsideStep, shareVars
    <2>2. \A k \in used : graphs'[k] = graphs[k] /\ rights'[k] = rights[k]
      BY <2>1 DEF Inv, TypeOK
    <2>3. ListInv'
      BY <2>1, <2>2, ListKept DEF Inv, ListInv
    <2> QED  BY <1>0, <2>1, <2>2, <2>3, ShareKept
  \* A right that changes is remembered, while it matters.
  <1>4. ASSUME NEW i \in Graph, NEW s \in Subject, NEW r \in Right, Regrant(i, s, r)
        PROVE  ListInv' /\ ShareInv'
    <2>1. /\ UNCHANGED <<phase, current, target, next, writable, listVars, used, graphs>>
          /\ rights' = [rights EXCEPT ![i] = [rights[i] EXCEPT ![s] = r]]
          /\ touched' = IF phase \in {"grant", "forget"} /\ i = target THEN touched \cup {s} ELSE touched
          /\ rights[i] \in [Subject -> Right]
      BY <1>4 DEF Regrant, OutsideStep, shareVars, Stored, Inv, TypeOK
    <2>2. ListInv'
      BY <2>1, ListKept DEF Inv, ListInv
    <2>3. CASE i # target
      <3>1. phase \in {"share", "grant", "forget"} => rights'[target] = rights[target]
        BY <1>0, <2>1, <2>3 DEF Inv, TypeOK
      <3> QED  BY <2>1, <2>2, <2>3, <3>1, ShareKept
    <2>4. CASE i = target
      <3>1. rights'[target] = [rights[target] EXCEPT ![s] = r] /\ rights[target] # None
        BY <2>1, <2>4, NoneAssumption DEF Inv, TypeOK
      <3>2. \A u \in Subject : u # s => rights'[target][u] = rights[target][u]
        BY <2>1, <2>4, <3>1
      <3>4. ShareInv
        BY DEF Inv
      <3>5. phase \in {"share", "grant", "forget"} =>
               target \in used /\ (current \in Dissolved => target = Existing(current)')
        BY <2>1, <3>4 DEF ShareInv, Existing, listVars
      <3>6. phase = "grant" =>
              /\ next["member"] = Want(current)
              /\ \A u \in Subject : next[u] # rights'[target][u] => u \in {"member", "owner"} \cup touched'
        BY <2>1, <2>4, <3>1, <3>2, <3>4 DEF ShareInv
      <3>7. phase = "forget" =>
              /\ current \in Dissolved
              /\ writable /\ graphs[target] # None /\ "path" \in graphs[target].keys
                    => rights'[target]["member"] = "none" \/ "member" \in touched'
        BY <2>1, <2>4, <3>1, <3>2, <3>4 DEF ShareInv, Subject
      <3>8. Want(current)' = Want(current)
        BY <2>1 DEF Want
      <3>9. ShareInv'
        BY <2>1, <3>5, <3>6, <3>7, <3>8 DEF ShareInv
      <3> QED  BY <2>2, <3>9
    <2> QED  BY <2>3, <2>4
  <1> QED  BY <1>1, <1>2, <1>3, <1>4, GrantAssumption DEF Others

LEMMA InvInit == Init => Inv
  BY TypeInit, ListInit, ShareInit DEF Inv

LEMMA InvNext == Inv /\ [Next]_vars => Inv'
  <1> SUFFICES ASSUME Inv, [Next]_vars PROVE Inv'
    OBVIOUS
  <1>0. TypeOK'
    BY TypeNext DEF Inv
  <1> SUFFICES ListInv' /\ ShareInv'
    BY <1>0 DEF Inv
  <1>1. CASE Begin
    <2>1. ListInv'
      BY <1>1, GraphAssumption DEF Begin, ListInv, Found
    <2> QED  BY <1>1, <2>1, ShareElsewhere DEF Begin
  <1>2. CASE ListPage
    <2>1. phase' \in {"list", "work"}
      BY <1>2 DEF ListPage
    <2> QED  BY <1>2, <2>1, ListPageInv, ShareElsewhere DEF Inv
  <1>3. CASE ListFails \/ NoResource \/ ShareFails \/ WriteGone \/ End
    <2>1. UNCHANGED <<graphs, used, listVars>> /\ phase' \in {"idle", "work"}
      BY <1>3 DEF ListFails, NoResource, ShareFails, WriteGone, End, NotShared
    <2>2. ListInv'
      BY <2>1, ListKept DEF Inv, ListInv
    <2> QED  BY <2>1, <2>2, ShareElsewhere
  <1>4. ASSUME NEW g \in Group, SaveFails(g) PROVE ListInv' /\ ShareInv'
    <2>1. UNCHANGED <<graphs, used, listVars, phase>> /\ phase = "work"
      BY <1>4 DEF SaveFails
    <2>2. ListInv'
      BY <2>1, ListKept DEF Inv, ListInv
    <2> QED  BY <2>1, <2>2, ShareElsewhere
  <1>5. CASE UNCHANGED vars
    BY <1>5 DEF vars, listVars, shareVars, Inv, ListInv, ShareInv, Found, Existing, Want
  <1> QED  BY <1>1, <1>2, <1>3, <1>4, <1>5, TakeListedInv, TakeNewInv, ReadRightsInv, WriteRightsInv,
              ForgetInv, OthersInv DEF Next, Pass

\* Whose rights a sharing changes, for any number of graphs and grants: the
\* group's, the owner's, and those changed meanwhile (setGroupPermission).
THEOREM OnlyItsOwnEntryChanges == Spec => OnlyItsOwnEntry
  <1> DEFINE Own == \A i \in Graph : outside' = outside /\ rights[i] # None =>
                       \A s \in Subject : rights'[i][s] # rights[i][s] =>
                          i = target /\ s \in {"member", "owner"} \cup touched
  <1>1. Inv /\ [Next]_vars => Own
    <2> SUFFICES ASSUME Inv, [Next]_vars, NEW i \in Graph, outside' = outside, rights[i] # None,
                        NEW s \in Subject, rights'[i][s] # rights[i][s]
                 PROVE  i = target /\ s \in {"member", "owner"} \cup touched
      OBVIOUS
    <2>1. graphs[i] # None
      BY DEF Inv, TypeOK
    \* Saving a graph that is there leaves its rights alone.
    <2>2. ASSUME NEW j \in Graph, NEW g, Save(j, g) PROVE rights'[i] = rights[i]
      BY <2>1, <2>2 DEF Save, Inv, TypeOK
    <2>3. CASE WriteRights
      <3>1. rights' = [rights EXCEPT ![target] = next] /\ phase = "grant"
        BY <2>3 DEF WriteRights
      <3>2. i = target
        BY <3>1 DEF Inv, TypeOK
      <3>3. rights'[i] = next
        BY <3>1, <3>2 DEF Inv, TypeOK
      <3> QED  BY <3>1, <3>2, <3>3 DEF Inv, ShareInv
    <2>4. ASSUME NEW g \in Group, TakeListed(g) PROVE rights'[i] = rights[i]
      <3>1. Existing(g) \in Graph
        BY <2>4 DEF TakeListed, Existing, Inv, TypeOK
      <3> QED  BY <2>2, <2>4, <3>1 DEF TakeListed, Unsaved
    <2>5. ASSUME NEW g \in Group, TakeNew(g) PROVE rights'[i] = rights[i]
      BY <2>2, <2>5 DEF TakeNew, Unsaved
    <2>6. CASE Forget
      <3>1. target \in Graph
        BY <2>6 DEF Forget, Inv, TypeOK
      <3> QED  BY <2>2, <2>6, <3>1 DEF Forget, Unsaved
    <2>7. CASE Others
      <3>1. outside \in Nat /\ outside' = outside + 1
        BY <2>7, BoundAssumption DEF Others, Delete, Strip, Copy, Regrant, OutsideStep, Inv, TypeOK
      <3> QED  BY <3>1
    <2>8. CASE Begin \/ ListPage \/ ListFails \/ ReadRights \/ NoResource \/ ShareFails \/ WriteGone \/ End
      BY <2>8 DEF Begin, ListPage, ListFails, ReadRights, NoResource, ShareFails, WriteGone, End, NotShared
    <2>9. ASSUME NEW g \in Group, SaveFails(g) PROVE rights'[i] = rights[i]
      BY <2>9 DEF SaveFails
    <2>10. CASE UNCHANGED vars
      BY <2>10 DEF vars
    <2> QED  BY <2>3, <2>4, <2>5, <2>6, <2>7, <2>8, <2>9, <2>10 DEF Next, Pass
  <1>2. Inv /\ [Next]_vars => [Own]_vars
    BY <1>1
  <1> QED  BY InvInit, InvNext, <1>2, PTL DEF Spec, OnlyItsOwnEntry

\* Before a graph forgets the path of a group that is gone, that path has lost
\* its access, whatever fails and whatever others do meanwhile (orphan).
THEOREM WithdrawalComesFirst == Spec => WithdrawnBeforeForgotten
  <1> DEFINE First == \A i \in Graph :
                /\ outside' = outside /\ graphs[i] # None /\ "path" \in graphs[i].keys
                /\ graphs'[i] # None /\ graphs'[i].keys = {} /\ rights[i] # None
                => i = target /\ (rights[i]["member"] = "none" \/ "member" \in touched)
  <1>1. Inv /\ [Next]_vars => First
    <2> SUFFICES ASSUME Inv, [Next]_vars, NEW i \in Graph,
                        outside' = outside, graphs[i] # None, "path" \in graphs[i].keys,
                        graphs'[i] # None, graphs'[i].keys = {}, rights[i] # None
                 PROVE  i = target /\ (rights[i]["member"] = "none" \/ "member" \in touched)
      OBVIOUS
    <2>1. graphs'[i] # graphs[i]
      OBVIOUS
    <2>2. ASSUME NEW j \in Graph, NEW g, Save(j, [group |-> g, keys |-> Key]) PROVE FALSE
      <3>1. graphs' = [graphs EXCEPT ![j] = [group |-> g, keys |-> Key]]
        BY <2>2 DEF Save
      <3>2. i = j /\ graphs'[i].keys = Key
        BY <2>1, <3>1 DEF Inv, TypeOK
      <3> QED  BY <3>2 DEF Key
    <2>3. CASE Forget
      <3>1. graphs' = [graphs EXCEPT ![target] = [group |-> current, keys |-> {}]] /\ writable /\ phase = "forget"
        BY <2>1, <2>3 DEF Forget, Save, Unsaved
      <3>2. i = target
        BY <2>1, <3>1 DEF Inv, TypeOK
      <3> QED  BY <3>1, <3>2 DEF Inv, ShareInv
    <2>4. ASSUME NEW g \in Group, TakeListed(g) PROVE FALSE
      <3>1. Existing(g) \in Graph
        BY <2>4 DEF TakeListed, Existing, Inv, TypeOK
      <3> QED  BY <2>1, <2>2, <2>4, <3>1 DEF TakeListed, Unsaved
    <2>5. ASSUME NEW g \in Group, TakeNew(g) PROVE FALSE
      BY <2>1, <2>2, <2>5 DEF TakeNew, Unsaved
    <2>6. CASE Others
      <3>1. outside \in Nat /\ outside' = outside + 1
        BY <2>6, BoundAssumption DEF Others, Delete, Strip, Copy, Regrant, OutsideStep, Inv, TypeOK
      <3> QED  BY <3>1
    <2>7. CASE Begin \/ ListPage \/ ListFails \/ ReadRights \/ NoResource \/ ShareFails \/ WriteRights \/ WriteGone \/ End
      BY <2>1, <2>7 DEF Begin, ListPage, ListFails, ReadRights, NoResource, ShareFails, WriteRights, WriteGone, End, NotShared
    <2>8. ASSUME NEW g \in Group, SaveFails(g) PROVE FALSE
      BY <2>1, <2>8 DEF SaveFails
    <2>9. CASE UNCHANGED vars
      BY <2>1, <2>9 DEF vars
    <2> QED  BY <2>3, <2>4, <2>5, <2>6, <2>7, <2>8, <2>9 DEF Next, Pass
  <1>2. Inv /\ [Next]_vars => [First]_vars
    BY <1>1
  <1> QED  BY InvInit, InvNext, <1>2, PTL DEF Spec, WithdrawnBeforeForgotten

=============================================================================
