--------------------------- MODULE Reconcile_proofs ---------------------------
(***************************************************************************)
(* What a reconciliation never does, for any number of groups, devices and *)
(* graphs and any number of outside events.                                *)
(***************************************************************************)
EXTENDS Reconcile, Counting_proofs

-----------------------------------------------------------------------------
(* What the lookups return *)

\* keepLower picks one of the graphs, if there is one.
LEMMA KeepLowerPicks ==
  ASSUME NEW S \in SUBSET GraphId
  PROVE  /\ S # {} => KeepLower(S) \in S
         /\ S = {} <=> KeepLower(S) = None
  <1>1. S # {} => \E i \in S : \A j \in S : i <= j
    BY LowestExists, GraphIdAssumption
  <1>2. S # {} => KeepLower(S) \in S
    BY <1>1 DEF KeepLower
  <1>3. S # {} => KeepLower(S) # None
    BY <1>2, NoneAssumption
  <1> QED  BY <1>2, <1>3 DEF KeepLower

LEMMA ByIdFinds ==
  ASSUME NEW g
  PROVE  /\ ById(g) # None => ById(g) \in GraphId /\ seen[ById(g)] # None /\ seen[ById(g)].gid = g
         /\ ById(g) = None => \A i \in GraphId : seen[i] # None => seen[i].gid # g
  <1> DEFINE S == {i \in GraphId : seen[i] # None /\ seen[i].gid = g}
  <1>1. S \in SUBSET GraphId /\ ById(g) = KeepLower(S)
    BY DEF ById
  <1>2. /\ S # {} => ById(g) \in S
        /\ S = {} <=> ById(g) = None
    BY <1>1, KeepLowerPicks
  <1> QED  BY <1>2

LEMMA ByPathFinds ==
  ASSUME NEW p, ByPath(p) # None
  PROVE  /\ ByPath(p) \in GraphId /\ seen[ByPath(p)] # None
         /\ seen[ByPath(p)].gid = None /\ seen[ByPath(p)].path = p
  <1> DEFINE S == {i \in GraphId : seen[i] # None /\ seen[i].gid = None /\ seen[i].path = p}
  <1>1. S \in SUBSET GraphId /\ ByPath(p) = KeepLower(S)
    BY DEF ByPath
  <1>2. /\ S # {} => ByPath(p) \in S
        /\ S = {} <=> ByPath(p) = None
    BY <1>1, KeepLowerPicks
  <1> QED  BY <1>2

\* A group's graph is listed, and says so by the group's id or by its path.
LEMMA ExistingIsListed ==
  ASSUME NEW p, Existing(p) # None
  PROVE  /\ Existing(p) \in GraphId /\ seen[Existing(p)] # None
         /\ \/ groupAt[p] # None /\ seen[Existing(p)].gid = groupAt[p]
            \/ seen[Existing(p)].gid = None /\ seen[Existing(p)].path = p
  BY ByIdFinds, ByPathFinds DEF Existing

LEMMA OrphansAreListed ==
  \A i \in Orphans :
     /\ i \in GraphId /\ seen[i] # None
     /\ \/ \E g \in Group : seen[i].gid = g
        \/ \E p \in Path : seen[i].path = p
  BY ByIdFinds, ByPathFinds DEF Orphans

LEMMA TreeAnswers ==
  /\ Tree \in [Path -> Group \cup {None}]
  /\ \A p \in Path : Tree[p] # None =>
        p \in Allowed /\ Tree[p] \in Group /\ realm[Tree[p]] = p
  BY DEF Tree

\* A mistaken answer shows some groups where they are, or none.
LEMMA MistakenAnswers ==
  ASSUME NEW kind, NEW tree \in Mistaken(kind)
  PROVE  /\ tree \in [Path -> Group \cup {None}]
         /\ \A p \in Path : tree[p] # None => tree[p] = Tree[p]
  BY TreeAnswers DEF Mistaken, NoGroups

-----------------------------------------------------------------------------
(* Types.  A pass works on graphs it has listed, and writes whole graphs. *)

WorkInv ==
    /\ pc \in {"save", "share", "unshare"} => cur.path \in Path
    /\ pc \in {"save", "withdraw", "clear"} => cur.doc \in Doc
    /\ pc \in {"share", "unshare", "withdraw", "clear"} => cur.id \in GraphId
    /\ \A i \in lost : seen[i] # None
    /\ lost # {} => pc \in {"orphans", "withdraw", "clear"}

LEMMA InitWork == Init => TypeOK /\ WorkInv
  <1> SUFFICES ASSUME Init PROVE TypeOK /\ WorkInv
    OBVIOUS
  <1> USE DEF Init, Started, NoGroups, NoDevices, NoGraphs, NoWork
  <1>1. realm \in [Group -> Path \cup {None, Gone}] /\ rights \in [Device -> SUBSET Path]
    BY InitialAssumption
  <1>2. doc \in [GraphId -> Doc \cup {None}] /\ share \in [GraphId -> SUBSET Path]
    BY InitialAssumption DEF Unshared
  <1>3. cur \in Work /\ budget \in [Outside -> Nat]
    BY BudgetAssumption DEF Work
  <1> QED  BY <1>1, <1>2, <1>3 DEF TypeOK, WorkInv, States, Resting

LEMMA SpendKeeps ==
  ASSUME budget \in [Outside -> Nat], NEW kind \in Outside, Spend(kind)
  PROVE  budget' \in [Outside -> Nat]
  <1>1. "any" \in Outside
    BY DEF Outside
  <1>2. budget[kind] - 1 \in Nat /\ budget["any"] - 1 \in Nat
    BY <1>1 DEF Spend
  <1> QED  BY <1>1, <1>2 DEF Spend

\* What Leave leaves behind.
LEMMA LeaveKeeps ==
  ASSUME NEW state \in {"select", "drain"}, Leave(state)
  PROVE  /\ pc' \in States /\ back' \in {"select", "drain"} /\ sweep' \in BOOLEAN
         /\ seen' \in [GraphId -> Doc \cup {None}]
         /\ todo' \in SUBSET Path /\ lost' \in SUBSET GraphId
         /\ cur' \in Work
         /\ WorkInv'
  BY DEF Leave, NoGraphs, NoWork, Work, States, Resting, WorkInv

LEMMA NameIsName == \A p \in Path : GroupName(p) \in Generated /\ GroupName(p) \in Name
  BY DEF Name, Generated

LEMMA OldIsWhole ==
  ASSUME TypeOK, NEW p, Existing(p) # None
  PROVE  seen[Existing(p)] \in Doc /\ Existing(p) \in GraphId
  BY ExistingIsListed DEF TypeOK

LEMMA UpdatedIsWhole ==
  ASSUME TypeOK, NEW p \in Path, NEW old \in Doc, NEW stuck
  PROVE  Updated(old, p, stuck) \in Doc
  <1>1. Renamed(old, p) \in Name
    BY NameIsName DEF Renamed, Doc
  <1>2. old.nodes \in SUBSET Device /\ Missing(old, p) \in SUBSET Device
    BY DEF Missing, DevicesOfGroup, Doc
  <1>3. groupAt[p] \in Group \cup {None}
    BY DEF TypeOK
  <1>4. Updated(old, p, stuck).nodes \in SUBSET Device
    BY <1>2 DEF Updated
  <1> QED  BY <1>1, <1>3, <1>4, NameIsName DEF Updated, Doc

LEMMA StoreKeeps ==
  ASSUME TypeOK, cur.doc \in Doc, NEW i \in GraphId, Store(i)
  PROVE  doc' \in [GraphId -> Doc \cup {None}]
  BY DEF Store, TypeOK

LEMMA NextKeepsTypes == TypeOK /\ WorkInv /\ [Next]_vars => TypeOK' /\ WorkInv'
  <1> SUFFICES ASSUME TypeOK, WorkInv, [Next]_vars PROVE TypeOK' /\ WorkInv'
    OBVIOUS
  <1>0. CASE UNCHANGED vars
    BY <1>0 DEF TypeOK, WorkInv, States, Resting, world, wishes, view, control, pass, vars
  <1>1. ASSUME NEW i \in GraphId, ResolveGraph(i) PROVE TypeOK' /\ WorkInv'
    <2>1. doc[i] # None => doc[i].path \in Path \cup {None}
      BY DEF TypeOK, Doc
    <2>2. requested' \in SUBSET Path
      BY <1>1, <2>1 DEF ResolveGraph, TypeOK
    <2> QED
      BY <1>1, <2>2 DEF ResolveGraph, TypeOK, WorkInv, world, view, control, pass
  <1>2. ASSUME NEW p \in Path, Update(p) PROVE TypeOK' /\ WorkInv'
    <2> DEFINE old == seen[Existing(p)]
    <2>1. old \in Doc /\ Existing(p) \in GraphId
      BY <1>2, OldIsWhole DEF Update
    <2>2. PICK stuck \in SUBSET Departed(old, p) :
             /\ IF stuck = {} THEN UNCHANGED budget ELSE Spend("fail")
             /\ cur' = [id |-> Existing(p), path |-> p,
                        prev |-> IF Moved(old, p) THEN old.path ELSE None,
                        doc |-> Updated(old, p, stuck)]
             /\ pc' = IF Changed(old, p, stuck) THEN "save" ELSE "share"
      BY <1>2 DEF Update
    <2>3. Updated(old, p, stuck) \in Doc /\ old.path \in Path \cup {None}
      BY <2>1, UpdatedIsWhole DEF Doc
    <2>4. cur' \in Work /\ cur'.path \in Path /\ cur'.doc \in Doc /\ cur'.id \in GraphId
      BY <2>1, <2>2, <2>3 DEF Work
    <2>5. budget' \in [Outside -> Nat]
      BY <2>2, SpendKeeps DEF TypeOK, Outside
    <2> HIDE DEF old
    <2> QED
      BY <1>2, <2>2, <2>4, <2>5 DEF Update, TypeOK, WorkInv, States, Resting, Resting, world, wishes, view
  <1>3. ASSUME NEW i \in GraphId, Orphan(i) PROVE TypeOK' /\ WorkInv'
    <2>1. i \in GraphId /\ seen[i] \in Doc
      BY <1>3 DEF Orphan, TypeOK, WorkInv
    <2>2. [seen[i] EXCEPT !.gid = None, !.path = None] \in Doc /\ seen[i].path \in Path \cup {None}
      BY <2>1 DEF Doc
    <2>3. cur' \in Work /\ cur'.doc \in Doc /\ cur'.id \in GraphId
      BY <1>3, <2>1, <2>2 DEF Orphan, Work
    <2> QED
      BY <1>3, <2>3 DEF Orphan, TypeOK, WorkInv, States, Resting, world, wishes, view
  <1> USE DEF TypeOK, WorkInv, States, Resting, world, wishes, view, control, pass, vars
  <1>4. ASSUME SafetyNet PROVE TypeOK' /\ WorkInv'
    BY <1>4 DEF SafetyNet
  <1>5. ASSUME PollGroups PROVE TypeOK' /\ WorkInv'
    BY <1>5, TreeAnswers DEF PollGroups
  <1>6. ASSUME Receive PROVE TypeOK' /\ WorkInv'
    BY <1>6 DEF Receive
  <1>7. ASSUME NEW d \in Device, ResolveDevice(d) PROVE TypeOK' /\ WorkInv'
    BY <1>7 DEF ResolveDevice
  <1>8. ASSUME Resolved PROVE TypeOK' /\ WorkInv'
    BY <1>8 DEF Resolved
  <1>9. ASSUME Woken PROVE TypeOK' /\ WorkInv'
    BY <1>9 DEF Woken
  <1>10. ASSUME DrainTake PROVE TypeOK' /\ WorkInv'
    BY <1>10 DEF DrainTake
  <1>11. ASSUME ReadGroups PROVE TypeOK' /\ WorkInv'
    BY <1>11, TreeAnswers DEF ReadGroups
  <1>12. ASSUME ReadMistaken PROVE TypeOK' /\ WorkInv'
    BY <1>12, SpendKeeps, MistakenAnswers DEF ReadMistaken, Outside
  <1>12a. ASSUME PollMistaken PROVE TypeOK' /\ WorkInv'
    BY <1>12a, SpendKeeps, MistakenAnswers DEF PollMistaken, Outside
  <1>13. ASSUME ReadDevices PROVE TypeOK' /\ WorkInv'
    BY <1>13 DEF ReadDevices
  <1>14. ASSUME ReadFailed PROVE TypeOK' /\ WorkInv'
    BY <1>14, SpendKeeps, LeaveKeeps DEF ReadFailed, Outside
  <1>15. ASSUME Defaults PROVE TypeOK' /\ WorkInv'
    BY <1>15 DEF Defaults
  <1>16. ASSUME DefaultsFailed PROVE TypeOK' /\ WorkInv'
    BY <1>16, SpendKeeps, LeaveKeeps DEF DefaultsFailed, Outside
  <1>17. ASSUME NEW p \in Path, NothingToDo(p) PROVE TypeOK' /\ WorkInv'
    BY <1>17 DEF NothingToDo
  <1>18. ASSUME NEW p \in Path, Create(p) PROVE TypeOK' /\ WorkInv'
    BY <1>18, NameIsName DEF Create, Doc, Work, DevicesOfGroup
  <1>19. ASSUME NEW p \in Path, GroupFailed(p) PROVE TypeOK' /\ WorkInv'
    BY <1>19, SpendKeeps DEF GroupFailed, Outside
  <1>20. ASSUME NEW i \in GraphId, Save(i) PROVE TypeOK' /\ WorkInv'
    BY <1>20, StoreKeeps DEF Save, Work
  <1>21. ASSUME NEW i \in GraphId, SaveFailed(i) PROVE TypeOK' /\ WorkInv'
    BY <1>21, StoreKeeps, SpendKeeps DEF SaveFailed, NextGroup, NoWork, Work, Outside
  <1>22. ASSUME Share PROVE TypeOK' /\ WorkInv'
    BY <1>22 DEF Share, Grant, NextGroup, NoWork, Work
  <1>23. ASSUME ShareFailed PROVE TypeOK' /\ WorkInv'
    BY <1>23, SpendKeeps DEF ShareFailed, Grant, NextGroup, NoWork, Work, Outside
  <1>24. ASSUME Unshare PROVE TypeOK' /\ WorkInv'
    BY <1>24 DEF Unshare, Withdraw, NextGroup, NoWork, Work
  <1>25. ASSUME UnshareFailed PROVE TypeOK' /\ WorkInv'
    BY <1>25, SpendKeeps DEF UnshareFailed, Withdraw, NextGroup, NoWork, Work, Outside
  <1>26. ASSUME PassDone PROVE TypeOK' /\ WorkInv'
    BY <1>26, LeaveKeeps, OrphansAreListed DEF PassDone
  <1>27. ASSUME OrphanUnshare PROVE TypeOK' /\ WorkInv'
    BY <1>27 DEF OrphanUnshare, Withdraw
  <1>28. ASSUME OrphanUnshareFailed PROVE TypeOK' /\ WorkInv'
    BY <1>28, SpendKeeps DEF OrphanUnshareFailed, Withdraw, NoWork, Work, Outside
  <1>29. ASSUME OrphanSave PROVE TypeOK' /\ WorkInv'
    BY <1>29, StoreKeeps DEF OrphanSave, NoWork, Work
  <1>30. ASSUME OrphanSaveFailed PROVE TypeOK' /\ WorkInv'
    BY <1>30, StoreKeeps, SpendKeeps DEF OrphanSaveFailed, NoWork, Work, Outside
  <1>31. ASSUME OrphansDone PROVE TypeOK' /\ WorkInv'
    BY <1>31, LeaveKeeps DEF OrphansDone
  <1>32. ASSUME NEW g \in Group, NEW p \in Path, RenameGroup(g, p) PROVE TypeOK' /\ WorkInv'
    BY <1>32, SpendKeeps DEF RenameGroup, Place, Outside
  <1>33. ASSUME NEW g \in Group, NEW p \in Path, CreateGroup(g, p) PROVE TypeOK' /\ WorkInv'
    BY <1>33, SpendKeeps DEF CreateGroup, Place, Outside
  <1>34. ASSUME NEW g \in Group, DeleteGroup(g) PROVE TypeOK' /\ WorkInv'
    BY <1>34, SpendKeeps DEF DeleteGroup, Outside
  <1>35. ASSUME NEW d \in Device, NEW S \in SUBSET Path, Regrant(d, S) PROVE TypeOK' /\ WorkInv'
    BY <1>35, SpendKeeps DEF Regrant, Outside
  <1>36. ASSUME NEW i \in GraphId, UserEdit(i) PROVE TypeOK' /\ WorkInv'
    BY <1>36, SpendKeeps, NoneAssumption DEF UserEdit, Doc, Name, Outside
  <1>37. ASSUME NEW i \in GraphId, UserErase(i) PROVE TypeOK' /\ WorkInv'
    BY <1>37, SpendKeeps DEF UserErase, Outside
  <1>38. ASSUME NEW i \in GraphId, NEW p \in Path, UserRevoke(i, p) PROVE TypeOK' /\ WorkInv'
    BY <1>38, SpendKeeps DEF UserRevoke, Outside
  <1>39. ASSUME WishAll PROVE TypeOK' /\ WorkInv'
    BY <1>39, SpendKeeps DEF WishAll, Outside
  <1>40. ASSUME NEW p \in Path, WishGroup(p) PROVE TypeOK' /\ WorkInv'
    BY <1>40, SpendKeeps DEF WishGroup, Outside
  <1>41. ASSUME Crash PROVE TypeOK' /\ WorkInv'
    BY <1>41, SpendKeeps DEF Crash, NoGroups, NoDevices, NoGraphs, NoWork, Work, Outside
  <1> HIDE DEF TypeOK, WorkInv, States, Resting, world, wishes, view, control, pass, vars
  <1> QED
    BY <1>0, <1>1, <1>2, <1>3, <1>4, <1>5, <1>6, <1>7, <1>8, <1>9, <1>10,
       <1>11, <1>12, <1>12a, <1>13, <1>14, <1>15, <1>16, <1>17, <1>18, <1>19, <1>20,
       <1>21, <1>22, <1>23, <1>24, <1>25, <1>26, <1>27, <1>28, <1>29, <1>30,
       <1>31, <1>32, <1>33, <1>34, <1>35, <1>36, <1>37, <1>38, <1>39, <1>40,
       <1>41
    DEF Next, Service, Working, Failing, Idle, Others

LEMMA TypesHold == Spec => [](TypeOK /\ WorkInv)
  BY InitWork, NextKeepsTypes, PTL DEF Spec

\* Whatever happens outside and inside, every variable keeps its type: a pass
\* only works on graphs it has listed, and every graph it writes is whole.
THEOREM TypeCorrect == Spec => []TypeOK
  BY TypesHold, PTL

-----------------------------------------------------------------------------
(* One graph per group.  A pass decides from its listing, which ages: what  *)
(* it does not know is what it has saved itself, and that belongs to groups *)
(* it is done with.                                                         *)

SameGroupSameGraph(s) ==
    \A i, j \in GraphId :
       s[i] # None /\ s[j] # None /\ s[i].gid # None /\ s[i].gid = s[j].gid => i = j

OnePathPerGroup ==
    \A p, q \in Path : groupAt[p] # None /\ groupAt[p] = groupAt[q] => p = q

Passing == {"pass", "save", "share", "unshare"}

\* The graph of a group the pass has yet to come to is in the listing.
StillToDoIsListed ==
    pc \in Passing =>
       \A p \in todo, i \in GraphId :
          groupAt[p] # None /\ doc[i] # None /\ doc[i].gid = groupAt[p]
          => seen[i] # None /\ seen[i].gid = groupAt[p]

\* What is about to be stored is of a group that is done with, and nothing
\* else in the repository is of that group.
SavedIsTheOnlyOne ==
    pc = "save" =>
       /\ cur.path \notin todo /\ groupAt[cur.path] # None
       /\ cur.doc.gid = groupAt[cur.path]
       /\ \A i \in GraphId : doc[i] # None /\ doc[i].gid = cur.doc.gid => i = cur.id

ClearedHasNone == pc \in {"withdraw", "clear"} => cur.doc.gid = None

OneInv ==
    /\ SameGroupSameGraph(doc) /\ SameGroupSameGraph(seen)
    /\ OnePathPerGroup /\ StillToDoIsListed /\ SavedIsTheOnlyOne /\ ClearedHasNone

LEMMA InitOne == Init => OneInv
  <1> SUFFICES ASSUME Init PROVE OneInv
    OBVIOUS
  <1> USE DEF Init, Started
  <1>1. SameGroupSameGraph(doc)
    BY InitialAssumption DEF SameGroupSameGraph
  <1>2. SameGroupSameGraph(seen) /\ OnePathPerGroup
    BY DEF SameGroupSameGraph, OnePathPerGroup, NoGraphs, NoGroups
  <1> QED
    BY <1>1, <1>2 DEF OneInv, StillToDoIsListed, Passing, SavedIsTheOnlyOne,
       ClearedHasNone

\* Keycloak's answer names a group once.
LEMMA TreeIsOnePathPerGroup ==
  ASSUME groupAt' = Tree
  PROVE  OnePathPerGroup'
  BY TreeAnswers DEF OnePathPerGroup

LEMMA MistakenIsOnePathPerGroup ==
  ASSUME NEW kind, groupAt' \in Mistaken(kind)
  PROVE  OnePathPerGroup'
  <1>1. \A p \in Path : groupAt'[p] # None => groupAt'[p] = Tree[p]
    BY MistakenAnswers
  <1>2. \A p \in Path : groupAt'[p] # None => realm[groupAt'[p]] = p
    BY <1>1, TreeAnswers
  <1> QED  BY <1>2 DEF OnePathPerGroup

LEMMA LeaveForgets ==
  ASSUME NEW state \in {"select", "drain"}, Leave(state)
  PROVE  /\ SameGroupSameGraph(seen)' /\ pc' = state
  BY DEF Leave, NoGraphs, SameGroupSameGraph

LEMMA BackIsIdle == TypeOK => back \in {"select", "drain"}
  BY DEF TypeOK

\* If the pass finds no graph of a group's id, there is none; if it finds one,
\* there is no other.
LEMMA FoundIsTheOnlyOne ==
  ASSUME OneInv, pc = "pass", NEW p \in todo, groupAt[p] # None,
         NEW i \in GraphId, doc[i] # None, doc[i].gid = groupAt[p]
  PROVE  i = Existing(p)
  <1>1. seen[i] # None /\ seen[i].gid = groupAt[p]
    BY DEF OneInv, StillToDoIsListed, Passing
  <1>2. ById(groupAt[p]) \in GraphId /\ seen[ById(groupAt[p])] # None
        /\ seen[ById(groupAt[p])].gid = groupAt[p] /\ ById(groupAt[p]) # None
    BY <1>1, ByIdFinds
  <1>3. ById(groupAt[p]) = i
    BY <1>1, <1>2 DEF OneInv, SameGroupSameGraph
  <1> QED  BY <1>2, <1>3 DEF Existing

\* A save, refused or not, keeps what the repository promises.
LEMMA StoreKeepsOne ==
  ASSUME TypeOK, WorkInv, OneInv, NEW i \in GraphId, pc = "save", Store(i)
  PROVE  /\ SameGroupSameGraph(doc)'
         /\ \A p \in todo, j \in GraphId :
               groupAt[p] # None /\ doc'[j] # None /\ doc'[j].gid = groupAt[p]
               => seen[j] # None /\ seen[j].gid = groupAt[p]
  <1>1. /\ doc' = [doc EXCEPT ![i] = cur.doc]
        /\ cur.id = None \/ cur.id = i
        /\ cur.id = None => doc[i] = None
    BY NoneAssumption DEF Store
  <1>2. doc'[i] = cur.doc /\ \A j \in GraphId : j # i => doc'[j] = doc[j]
    BY <1>1 DEF TypeOK
  <1>3. \A j \in GraphId : doc[j] # None /\ doc[j].gid = cur.doc.gid => j = i
    BY <1>1, NoneAssumption DEF OneInv, SavedIsTheOnlyOne
  <1>4. SameGroupSameGraph(doc)'
    BY <1>2, <1>3 DEF OneInv, SameGroupSameGraph
  <1>5. ASSUME NEW p \in todo, groupAt[p] # None
        PROVE  cur.doc.gid # groupAt[p]
    BY <1>5 DEF OneInv, SavedIsTheOnlyOne, OnePathPerGroup, TypeOK, WorkInv
  <1>6. \A p \in todo, j \in GraphId :
           groupAt[p] # None /\ doc'[j] # None /\ doc'[j].gid = groupAt[p]
           => seen[j] # None /\ seen[j].gid = groupAt[p]
    BY <1>2, <1>5 DEF OneInv, StillToDoIsListed, Passing
  <1> QED  BY <1>4, <1>6

\* A graph without a group is in nobody's way.
LEMMA ClearKeepsOne ==
  ASSUME TypeOK, WorkInv, OneInv, pc = "clear", Store(cur.id)
  PROVE  SameGroupSameGraph(doc)'
  <1>1. cur.id \in GraphId /\ cur.doc.gid = None /\ doc' = [doc EXCEPT ![cur.id] = cur.doc]
    BY NoneAssumption DEF WorkInv, OneInv, ClearedHasNone, Store
  <1>2. doc'[cur.id] = cur.doc /\ \A j \in GraphId : j # cur.id => doc'[j] = doc[j]
    BY <1>1 DEF TypeOK
  <1> QED  BY <1>1, <1>2 DEF OneInv, SameGroupSameGraph

LEMMA NextKeepsOne == TypeOK /\ WorkInv /\ OneInv /\ [Next]_vars => OneInv'
  <1> SUFFICES ASSUME TypeOK, WorkInv, OneInv, [Next]_vars PROVE OneInv'
    OBVIOUS
  <1>0. CASE UNCHANGED vars
    BY <1>0 DEF OneInv, SameGroupSameGraph, OnePathPerGroup, Passing,
       StillToDoIsListed, SavedIsTheOnlyOne, ClearedHasNone, world, wishes, view,
       control, pass, vars
  <1>1. ASSUME NEW p \in Path, Create(p) PROVE OneInv'
    <2>1. /\ pc = "pass" /\ p \in todo /\ todo' = todo \ {p}
          /\ groupAt[p] # None /\ pc' = "save"
          /\ cur'.id = None /\ cur'.path = p /\ cur'.doc.gid = groupAt[p]
          /\ UNCHANGED <<doc, seen, groupAt>>
      BY <1>1 DEF Create, world, view
    <2>2. \A j \in GraphId : doc[j] # None /\ doc[j].gid = groupAt[p] => FALSE
      BY <1>1, <2>1, FoundIsTheOnlyOne, NoneAssumption DEF Create
    <2> QED
      BY <2>1, <2>2 DEF OneInv, SameGroupSameGraph, OnePathPerGroup, Passing,
         StillToDoIsListed, SavedIsTheOnlyOne, ClearedHasNone
  <1>2. ASSUME NEW p \in Path, Update(p) PROVE OneInv'
    <2> DEFINE i == Existing(p)
    <2>1. /\ pc = "pass" /\ p \in todo /\ todo' = todo \ {p}
          /\ groupAt[p] # None /\ pc' \in {"save", "share"}
          /\ cur'.id = i /\ cur'.path = p /\ cur'.doc.gid = groupAt[p]
          /\ UNCHANGED <<doc, seen, groupAt>>
      BY <1>2 DEF Update, Updated, world, view
    <2>2. \A j \in GraphId : doc[j] # None /\ doc[j].gid = groupAt[p] => j = i
      BY <2>1, FoundIsTheOnlyOne
    <2> HIDE DEF i
    <2> QED
      BY <2>1, <2>2 DEF OneInv, SameGroupSameGraph, OnePathPerGroup, Passing,
         StillToDoIsListed, SavedIsTheOnlyOne, ClearedHasNone
  <1>3. ASSUME NEW i \in GraphId, Orphan(i) PROVE OneInv'
    <2>1. seen[i] \in Doc
      BY <1>3 DEF Orphan, TypeOK, WorkInv
    <2>2. cur'.doc.gid = None /\ pc' = "withdraw"
      BY <1>3, <2>1 DEF Orphan, Doc
    <2> QED
      BY <1>3, <2>2 DEF Orphan, OneInv, SameGroupSameGraph, OnePathPerGroup, Passing,
         StillToDoIsListed, SavedIsTheOnlyOne, ClearedHasNone, world, wishes, view,
         control, pass, vars
  <1>4. ASSUME NEW i \in GraphId, UserEdit(i) PROVE OneInv'
    <2>1. \A j \in GraphId : doc'[j] # None => doc[j] # None
      BY <1>4 DEF UserEdit, TypeOK, Doc
    <2>2. \A j \in GraphId : doc[j] # None => doc'[j].gid \in {doc[j].gid, None}
      BY <1>4 DEF UserEdit, TypeOK, Doc
    <2> QED
      BY <1>4, <2>1, <2>2
      DEF OneInv, SameGroupSameGraph, OnePathPerGroup, Passing, StillToDoIsListed,
         SavedIsTheOnlyOne, ClearedHasNone, world, wishes, view, control, pass, vars,
         UserEdit
  <1> USE DEF OneInv, SameGroupSameGraph, OnePathPerGroup, Passing, StillToDoIsListed,
     SavedIsTheOnlyOne, ClearedHasNone, world, wishes, view, control, pass, vars
  <1>5. ASSUME SafetyNet PROVE OneInv'
    BY <1>5 DEF SafetyNet
  <1>6. ASSUME PollGroups PROVE OneInv'
    BY <1>6, TreeIsOnePathPerGroup DEF PollGroups
  <1>7. ASSUME Receive PROVE OneInv'
    BY <1>7 DEF Receive
  <1>8. ASSUME NEW d \in Device, ResolveDevice(d) PROVE OneInv'
    BY <1>8 DEF ResolveDevice
  <1>9. ASSUME NEW i \in GraphId, ResolveGraph(i) PROVE OneInv'
    BY <1>9 DEF ResolveGraph
  <1>10. ASSUME Resolved PROVE OneInv'
    BY <1>10 DEF Resolved
  <1>11. ASSUME Woken PROVE OneInv'
    BY <1>11 DEF Woken
  <1>12. ASSUME DrainTake PROVE OneInv'
    BY <1>12 DEF DrainTake
  <1>13. ASSUME ReadGroups PROVE OneInv'
    BY <1>13, TreeIsOnePathPerGroup DEF ReadGroups
  <1>14. ASSUME ReadMistaken PROVE OneInv'
    BY <1>14, MistakenIsOnePathPerGroup DEF ReadMistaken
  <1>14a. ASSUME PollMistaken PROVE OneInv'
    BY <1>14a, MistakenIsOnePathPerGroup DEF PollMistaken
  <1>15. ASSUME ReadDevices PROVE OneInv'
    BY <1>15 DEF ReadDevices
  <1>16. ASSUME ReadFailed PROVE OneInv'
    BY <1>16, LeaveForgets, BackIsIdle DEF ReadFailed
  <1>17. ASSUME Defaults PROVE OneInv'
    BY <1>17 DEF Defaults
  <1>18. ASSUME DefaultsFailed PROVE OneInv'
    BY <1>18, LeaveForgets, BackIsIdle DEF DefaultsFailed
  <1>19. ASSUME NEW p \in Path, NothingToDo(p) PROVE OneInv'
    BY <1>19 DEF NothingToDo
  <1>20. ASSUME NEW p \in Path, GroupFailed(p) PROVE OneInv'
    BY <1>20 DEF GroupFailed
  <1>21. ASSUME NEW i \in GraphId, Save(i) PROVE OneInv'
    BY <1>21, StoreKeepsOne DEF Save
  <1>22. ASSUME NEW i \in GraphId, SaveFailed(i) PROVE OneInv'
    BY <1>22, StoreKeepsOne DEF SaveFailed, NextGroup
  <1>23. ASSUME Share PROVE OneInv'
    BY <1>23 DEF Share, NextGroup
  <1>24. ASSUME ShareFailed PROVE OneInv'
    BY <1>24 DEF ShareFailed, NextGroup
  <1>25. ASSUME Unshare PROVE OneInv'
    BY <1>25 DEF Unshare, NextGroup
  <1>26. ASSUME UnshareFailed PROVE OneInv'
    BY <1>26 DEF UnshareFailed, NextGroup
  <1>27. ASSUME PassDone PROVE OneInv'
    BY <1>27, LeaveForgets, BackIsIdle DEF PassDone
  <1>28. ASSUME OrphanUnshare PROVE OneInv'
    BY <1>28 DEF OrphanUnshare
  <1>29. ASSUME OrphanUnshareFailed PROVE OneInv'
    BY <1>29 DEF OrphanUnshareFailed
  <1>30. ASSUME OrphanSave PROVE OneInv'
    BY <1>30, ClearKeepsOne DEF OrphanSave
  <1>31. ASSUME OrphanSaveFailed PROVE OneInv'
    BY <1>31, ClearKeepsOne DEF OrphanSaveFailed
  <1>32. ASSUME OrphansDone PROVE OneInv'
    BY <1>32, LeaveForgets, BackIsIdle DEF OrphansDone
  <1>33. ASSUME NEW g \in Group, NEW p \in Path, RenameGroup(g, p) PROVE OneInv'
    BY <1>33 DEF RenameGroup, Place
  <1>34. ASSUME NEW g \in Group, NEW p \in Path, CreateGroup(g, p) PROVE OneInv'
    BY <1>34 DEF CreateGroup, Place
  <1>35. ASSUME NEW g \in Group, DeleteGroup(g) PROVE OneInv'
    BY <1>35 DEF DeleteGroup
  <1>36. ASSUME NEW d \in Device, NEW S \in SUBSET Path, Regrant(d, S) PROVE OneInv'
    BY <1>36 DEF Regrant
  <1>37. ASSUME NEW i \in GraphId, UserErase(i) PROVE OneInv'
    BY <1>37 DEF UserErase, TypeOK
  <1>38. ASSUME NEW i \in GraphId, NEW p \in Path, UserRevoke(i, p) PROVE OneInv'
    BY <1>38 DEF UserRevoke
  <1>39. ASSUME WishAll PROVE OneInv'
    BY <1>39 DEF WishAll
  <1>40. ASSUME NEW p \in Path, WishGroup(p) PROVE OneInv'
    BY <1>40 DEF WishGroup
  <1>41. ASSUME Crash PROVE OneInv'
    BY <1>41 DEF Crash, NoGroups, NoGraphs
  <1> HIDE DEF OneInv, SameGroupSameGraph, OnePathPerGroup, Passing,
     StillToDoIsListed, SavedIsTheOnlyOne, ClearedHasNone, world, wishes, view,
     control, pass, vars
  <1> QED
    BY <1>0, <1>1, <1>2, <1>3, <1>4, <1>5, <1>6, <1>7, <1>8, <1>9, <1>10,
       <1>11, <1>12, <1>13, <1>14, <1>14a, <1>15, <1>16, <1>17, <1>18, <1>19, <1>20,
       <1>21, <1>22, <1>23, <1>24, <1>25, <1>26, <1>27, <1>28, <1>29, <1>30,
       <1>31, <1>32, <1>33, <1>34, <1>35, <1>36, <1>37, <1>38, <1>39, <1>40,
       <1>41
    DEF Next, Service, Working, Failing, Idle, Others

\* A group never gets a second default graph, whatever fails, crashes, is
\* renamed, deleted or edited between the listing and the write.
THEOREM GroupsHaveOneGraph == Spec => []OneGraphPerGroup
  <1>1. Spec => []OneInv
    BY InitOne, NextKeepsOne, TypesHold, PTL DEF Spec
  <1>2. OneInv => OneGraphPerGroup
    BY NoneAssumption DEF OneInv, SameGroupSameGraph, OneGraphPerGroup, GraphsOf
  <1> QED  BY <1>1, <1>2, PTL

-----------------------------------------------------------------------------
(* Other people's graphs.  What the service touches was listed with a       *)
(* provenance attribute, and between the listing and the write nobody but   *)
(* the service takes them away, unless users edit under a pass.             *)

IsForeign(d) == d # None /\ Foreign(d)

\* What a graph of ours is held to.  With users who edit under a pass it is
\* ours by the listing only.
Known(i) == IF EditsDuringPass THEN seen[i] ELSE doc[i]

ListedStaysOurs ==
    pc \in Passing =>
       \A i \in GraphId : seen[i] # None /\ ~IsForeign(seen[i]) => ~IsForeign(Known(i))

TouchedIsOurs ==
    /\ pc = "save" => ~IsForeign(cur.doc)
    /\ pc \in {"save", "share", "unshare", "withdraw", "clear"} /\ cur.id # None
         => ~IsForeign(Known(cur.id))

LostIsOurs ==
    /\ pc \in {"orphans", "withdraw", "clear"} => \A i \in lost : ~IsForeign(Known(i))
    /\ pc \in {"withdraw", "clear"} => cur.id \notin lost

OursInv == ListedStaysOurs /\ TouchedIsOurs /\ LostIsOurs

LEMMA InitOurs == Init => OursInv
  BY DEF Init, Started, OursInv, ListedStaysOurs, TouchedIsOurs, LostIsOurs, Passing

LEMMA ExistingIsOurs ==
  ASSUME NEW p \in Path, Existing(p) # None
  PROVE  ~IsForeign(seen[Existing(p)])
  BY ExistingIsListed, NoneAssumption DEF IsForeign, Foreign

LEMMA OrphansAreOurs == \A i \in Orphans : seen[i] # None /\ ~IsForeign(seen[i])
  BY OrphansAreListed, NoneAssumption DEF IsForeign, Foreign

\* A write of a graph of ours, or of a new one.
LEMMA StoreChangesOne ==
  ASSUME TypeOK, NEW i \in GraphId, Store(i)
  PROVE  /\ doc'[i] = cur.doc
         /\ \A j \in GraphId : j # i => doc'[j] = doc[j]
         /\ cur.id = i \/ (cur.id = None /\ doc[i] = None /\ seen[i] = None)
  BY DEF Store, TypeOK

LEMMA NextKeepsOurs == TypeOK /\ WorkInv /\ OursInv /\ [Next]_vars => OursInv'
  <1> SUFFICES ASSUME TypeOK, WorkInv, OursInv, [Next]_vars PROVE OursInv'
    OBVIOUS
  <1>0. CASE UNCHANGED vars
    BY <1>0 DEF OursInv, Known, ListedStaysOurs, TouchedIsOurs, LostIsOurs, Passing,
       world, wishes, view, control, pass, vars
  <1>1. ASSUME NEW p \in Path, Create(p) PROVE OursInv'
    <2>1. /\ pc = "pass" /\ pc' = "save" /\ cur'.id = None /\ cur'.doc.path = p
          /\ UNCHANGED <<doc, seen, lost>>
      BY <1>1 DEF Create, world
    <2>2. ~IsForeign(cur'.doc)
      BY <2>1, NoneAssumption DEF IsForeign, Foreign
    <2> QED
      BY <2>1, <2>2 DEF OursInv, ListedStaysOurs, TouchedIsOurs, LostIsOurs, Passing,
         Known
  <1>2. ASSUME NEW p \in Path, Update(p) PROVE OursInv'
    <2> DEFINE i == Existing(p)
    <2>1. /\ i # None /\ pc = "pass" /\ pc' \in {"save", "share"}
          /\ cur'.id = i /\ cur'.doc.path = p
          /\ UNCHANGED <<doc, seen, lost>>
      BY <1>2 DEF Update, Updated, world
    <2>2. i \in GraphId /\ seen[i] # None /\ ~IsForeign(seen[i])
      BY <2>1, ExistingIsListed, ExistingIsOurs
    <2>3. ~IsForeign(Known(i))
      BY <2>1, <2>2 DEF OursInv, ListedStaysOurs, Passing
    <2>4. ~IsForeign(cur'.doc)
      BY <2>1, NoneAssumption DEF IsForeign, Foreign
    <2> HIDE DEF i
    <2> QED
      BY <2>1, <2>3, <2>4 DEF OursInv, ListedStaysOurs, TouchedIsOurs, LostIsOurs,
         Passing, Known
  <1>3. ASSUME NEW i \in GraphId, Save(i) PROVE OursInv'
    <2>1. /\ doc'[i] = cur.doc /\ \A j \in GraphId : j # i => doc'[j] = doc[j]
          /\ ~IsForeign(cur.doc)
          /\ cur.id = i \/ seen[i] = None
      BY <1>3, StoreChangesOne DEF Save, OursInv, TouchedIsOurs
    <2>2. pc = "save" /\ pc' = "share" /\ UNCHANGED <<seen, lost>> /\ cur'.id = i
      BY <1>3 DEF Save, TypeOK, Work
    <2>3. ~IsForeign(Known(i))'
      BY <2>1, <2>2, NoneAssumption DEF Known, IsForeign, OursInv, TouchedIsOurs
    <2>4. \A j \in GraphId : ~IsForeign(Known(j)) => ~IsForeign(Known(j))'
      BY <2>1, <2>2, <2>3 DEF Known
    <2> QED
      BY <2>2, <2>3, <2>4 DEF OursInv, ListedStaysOurs, TouchedIsOurs, LostIsOurs, Passing
  <1>4. ASSUME NEW i \in GraphId, SaveFailed(i) PROVE OursInv'
    <2>1. \A j \in GraphId : ~IsForeign(doc[j]) => ~IsForeign(doc'[j])
      BY <1>4, StoreChangesOne DEF SaveFailed, OursInv, TouchedIsOurs
    <2>2. pc = "save" /\ pc' = "pass" /\ UNCHANGED <<seen, lost>>
      BY <1>4 DEF SaveFailed, NextGroup
    <2>3. \A j \in GraphId : ~IsForeign(Known(j)) => ~IsForeign(Known(j))'
      BY <2>1, <2>2 DEF Known
    <2> QED
      BY <2>2, <2>3 DEF OursInv, ListedStaysOurs, TouchedIsOurs, LostIsOurs, Passing
  <1>5. ASSUME PassDone PROVE OursInv'
    <2>1. CASE sweep /\ groupAt # NoGroups
      <3>1. \A i \in Orphans : ~IsForeign(Known(i))
        BY <1>5, OrphansAreOurs, OrphansAreListed DEF PassDone, OursInv,
           ListedStaysOurs, Passing
      <3> QED
        BY <1>5, <2>1, <3>1
        DEF PassDone, OursInv, ListedStaysOurs, TouchedIsOurs, LostIsOurs, Passing,
           Known, world
    <2>2. CASE ~(sweep /\ groupAt # NoGroups)
      BY <1>5, <2>2, BackIsIdle
      DEF PassDone, Leave, OursInv, ListedStaysOurs, TouchedIsOurs, LostIsOurs,
         Passing, Known, world
    <2> QED  BY <2>1, <2>2
  <1>6. ASSUME OrphanSave PROVE OursInv'
    <2>1. cur.id \in GraphId
      BY <1>6 DEF OrphanSave, WorkInv
    <2>2. \A j \in GraphId : j # cur.id => doc'[j] = doc[j]
      BY <1>6, <2>1, StoreChangesOne DEF OrphanSave
    <2>3. /\ pc = "clear" /\ pc' = "orphans" /\ UNCHANGED <<seen, lost>>
          /\ lost \subseteq GraphId
      BY <1>6 DEF OrphanSave, TypeOK
    <2> QED
      BY <2>2, <2>3
      DEF OursInv, ListedStaysOurs, TouchedIsOurs, LostIsOurs, Passing, Known
  <1>7. ASSUME OrphanSaveFailed PROVE OursInv'
    <2>1. cur.id \in GraphId
      BY <1>7 DEF OrphanSaveFailed, WorkInv
    <2>2. \A j \in GraphId : j # cur.id => doc'[j] = doc[j]
      BY <1>7, <2>1, StoreChangesOne DEF OrphanSaveFailed
    <2>3. /\ pc = "clear" /\ pc' = "orphans" /\ UNCHANGED <<seen, lost>>
          /\ lost \subseteq GraphId
      BY <1>7 DEF OrphanSaveFailed, TypeOK
    <2> QED
      BY <2>2, <2>3
      DEF OursInv, ListedStaysOurs, TouchedIsOurs, LostIsOurs, Passing, Known
  <1>8. ASSUME NEW i \in GraphId, UserEdit(i) PROVE OursInv'
    <2>1. UNCHANGED <<pc, seen, lost, cur>>
      BY <1>8 DEF UserEdit, control, pass
    <2>2. CASE EditsDuringPass
      BY <2>1, <2>2 DEF OursInv, ListedStaysOurs, TouchedIsOurs, LostIsOurs, Passing, Known
    <2>3. CASE pc \in Resting
      BY <2>1, <2>3
      DEF Resting, OursInv, ListedStaysOurs, TouchedIsOurs, LostIsOurs, Passing
    <2> QED  BY <1>8, <2>2, <2>3 DEF UserEdit
  <1>9. ASSUME NEW i \in GraphId, UserErase(i) PROVE OursInv'
    <2>2. \A j \in GraphId : ~IsForeign(doc[j]) => ~IsForeign(doc'[j])
      BY <1>9 DEF UserErase, TypeOK, IsForeign
    <2>3. /\ UNCHANGED <<pc, seen, lost, cur>>
          /\ lost \subseteq GraphId
          /\ pc \in {"save", "share", "unshare", "withdraw", "clear"} /\ cur.id # None
               => cur.id \in GraphId
      BY <1>9 DEF UserErase, control, pass, TypeOK, Work
    <2>4. \A j \in GraphId : ~IsForeign(Known(j)) => ~IsForeign(Known(j))'
      BY <2>2, <2>3 DEF Known
    <2> QED
      BY <2>3, <2>4 DEF OursInv, ListedStaysOurs, TouchedIsOurs, LostIsOurs, Passing
  <1> USE DEF OursInv, Known, ListedStaysOurs, TouchedIsOurs, LostIsOurs, Passing,
     world, wishes, view, control, pass, vars
  <1>10. ASSUME SafetyNet PROVE OursInv'
    BY <1>10 DEF SafetyNet
  <1>11. ASSUME PollGroups PROVE OursInv'
    BY <1>11 DEF PollGroups
  <1>12. ASSUME Receive PROVE OursInv'
    BY <1>12 DEF Receive
  <1>13. ASSUME NEW d \in Device, ResolveDevice(d) PROVE OursInv'
    BY <1>13 DEF ResolveDevice
  <1>14. ASSUME NEW i \in GraphId, ResolveGraph(i) PROVE OursInv'
    BY <1>14 DEF ResolveGraph
  <1>15. ASSUME Resolved PROVE OursInv'
    BY <1>15 DEF Resolved
  <1>16. ASSUME Woken PROVE OursInv'
    BY <1>16 DEF Woken
  <1>17. ASSUME DrainTake PROVE OursInv'
    BY <1>17 DEF DrainTake
  <1>18. ASSUME ReadGroups PROVE OursInv'
    BY <1>18 DEF ReadGroups
  <1>19. ASSUME ReadMistaken PROVE OursInv'
    BY <1>19 DEF ReadMistaken
  <1>19a. ASSUME PollMistaken PROVE OursInv'
    BY <1>19a DEF PollMistaken
  <1>20. ASSUME ReadDevices PROVE OursInv'
    BY <1>20 DEF ReadDevices
  <1>21. ASSUME ReadFailed PROVE OursInv'
    BY <1>21, BackIsIdle DEF ReadFailed, Leave
  <1>22. ASSUME Defaults PROVE OursInv'
    BY <1>22 DEF Defaults
  <1>23. ASSUME DefaultsFailed PROVE OursInv'
    BY <1>23, BackIsIdle DEF DefaultsFailed, Leave
  <1>24. ASSUME NEW p \in Path, NothingToDo(p) PROVE OursInv'
    BY <1>24 DEF NothingToDo
  <1>25. ASSUME NEW p \in Path, GroupFailed(p) PROVE OursInv'
    BY <1>25 DEF GroupFailed
  <1>26. ASSUME Share PROVE OursInv'
    BY <1>26 DEF Share, NextGroup, NoWork
  <1>27. ASSUME ShareFailed PROVE OursInv'
    BY <1>27 DEF ShareFailed, NextGroup, NoWork
  <1>28. ASSUME Unshare PROVE OursInv'
    BY <1>28 DEF Unshare, NextGroup, NoWork
  <1>29. ASSUME UnshareFailed PROVE OursInv'
    BY <1>29 DEF UnshareFailed, NextGroup, NoWork
  <1>30. ASSUME NEW i \in GraphId, Orphan(i) PROVE OursInv'
    BY <1>30 DEF Orphan, WorkInv, TypeOK
  <1>31. ASSUME OrphanUnshare PROVE OursInv'
    BY <1>31 DEF OrphanUnshare
  <1>32. ASSUME OrphanUnshareFailed PROVE OursInv'
    BY <1>32 DEF OrphanUnshareFailed
  <1>33. ASSUME OrphansDone PROVE OursInv'
    BY <1>33, BackIsIdle DEF OrphansDone, Leave
  <1>34. ASSUME NEW g \in Group, NEW p \in Path, RenameGroup(g, p) PROVE OursInv'
    BY <1>34 DEF RenameGroup
  <1>35. ASSUME NEW g \in Group, NEW p \in Path, CreateGroup(g, p) PROVE OursInv'
    BY <1>35 DEF CreateGroup
  <1>36. ASSUME NEW g \in Group, DeleteGroup(g) PROVE OursInv'
    BY <1>36 DEF DeleteGroup
  <1>37. ASSUME NEW d \in Device, NEW S \in SUBSET Path, Regrant(d, S) PROVE OursInv'
    BY <1>37 DEF Regrant
  <1>38. ASSUME NEW i \in GraphId, NEW p \in Path, UserRevoke(i, p) PROVE OursInv'
    BY <1>38 DEF UserRevoke
  <1>39. ASSUME WishAll PROVE OursInv'
    BY <1>39 DEF WishAll
  <1>40. ASSUME NEW p \in Path, WishGroup(p) PROVE OursInv'
    BY <1>40 DEF WishGroup
  <1>41. ASSUME Crash PROVE OursInv'
    BY <1>41 DEF Crash
  <1> HIDE DEF OursInv, Known, ListedStaysOurs, TouchedIsOurs, LostIsOurs, Passing,
     world, wishes, view, control, pass, vars
  <1> QED
    BY <1>0, <1>1, <1>2, <1>3, <1>4, <1>5, <1>6, <1>7, <1>8, <1>9, <1>10,
       <1>11, <1>12, <1>13, <1>14, <1>15, <1>16, <1>17, <1>18, <1>19, <1>19a, <1>20,
       <1>21, <1>22, <1>23, <1>24, <1>25, <1>26, <1>27, <1>28, <1>29, <1>30,
       <1>31, <1>32, <1>33, <1>34, <1>35, <1>36, <1>37, <1>38, <1>39, <1>40,
       <1>41
    DEF Next, Service, Working, Failing, Idle, Others

\* A step of the service on a graph without provenance.
LeavesForeign ==
    \A i \in GraphId :
       /\ Ends({"save", "clear", "share", "unshare", "withdraw"})
       /\ doc[i] # None /\ Foreign(doc[i])
       /\ EditsDuringPass => seen[i] # None /\ Foreign(seen[i])
       => UNCHANGED <<doc[i], share[i]>>

LEMMA StoreLeavesForeign ==
  ASSUME TypeOK, OursInv, pc \in {"save", "clear"}, NEW i \in GraphId, Store(i) \/ UNCHANGED doc,
         UNCHANGED share
  PROVE  LeavesForeign
  <1>1. CASE UNCHANGED doc
    BY <1>1 DEF LeavesForeign
  <1>2. CASE Store(i)
    <2>1. \A j \in GraphId : j # i => doc'[j] = doc[j]
      BY <1>2, StoreChangesOne
    <2>2. (doc[i] = None /\ seen[i] = None) \/ ~IsForeign(Known(i))
      BY <1>2, StoreChangesOne, NoneAssumption DEF OursInv, TouchedIsOurs
    <2> QED  BY <2>1, <2>2 DEF IsForeign, Known, LeavesForeign
  <1> QED  BY <1>1, <1>2

LEMMA ShareLeavesForeign ==
  ASSUME TypeOK, OursInv, pc \in {"share", "unshare", "withdraw"}, NEW p,
         Grant(cur.id, p) \/ Withdraw(cur.id, p) \/ UNCHANGED share, UNCHANGED doc
  PROVE  LeavesForeign
  BY NoneAssumption DEF TypeOK, Work, Grant, Withdraw, OursInv, TouchedIsOurs,
     IsForeign, Known, LeavesForeign

LEMMA NextLeavesForeign == TypeOK /\ WorkInv /\ OursInv /\ [Next]_vars => LeavesForeign
  <1> SUFFICES ASSUME TypeOK, WorkInv, OursInv, [Next]_vars PROVE LeavesForeign
    OBVIOUS
  <1>0. CASE UNCHANGED vars
    BY <1>0 DEF vars, control, world, LeavesForeign, Ends
  <1> USE DEF LeavesForeign, Ends, world, control, view
  <1>1. ASSUME SafetyNet PROVE LeavesForeign
    BY <1>1 DEF SafetyNet
  <1>2. ASSUME PollGroups PROVE LeavesForeign
    BY <1>2 DEF PollGroups
  <1>3. ASSUME Receive PROVE LeavesForeign
    BY <1>3 DEF Receive
  <1>4. ASSUME NEW d \in Device, ResolveDevice(d) PROVE LeavesForeign
    BY <1>4 DEF ResolveDevice
  <1>5. ASSUME NEW i \in GraphId, ResolveGraph(i) PROVE LeavesForeign
    BY <1>5 DEF ResolveGraph
  <1>6. ASSUME Resolved PROVE LeavesForeign
    BY <1>6 DEF Resolved
  <1>7. ASSUME Woken PROVE LeavesForeign
    BY <1>7 DEF Woken
  <1>8. ASSUME DrainTake PROVE LeavesForeign
    BY <1>8 DEF DrainTake
  <1>9. ASSUME ReadGroups PROVE LeavesForeign
    BY <1>9 DEF ReadGroups
  <1>10. ASSUME ReadMistaken PROVE LeavesForeign
    BY <1>10 DEF ReadMistaken
  <1>10a. ASSUME PollMistaken PROVE LeavesForeign
    BY <1>10a DEF PollMistaken
  <1>11. ASSUME ReadDevices PROVE LeavesForeign
    BY <1>11 DEF ReadDevices
  <1>12. ASSUME ReadFailed PROVE LeavesForeign
    BY <1>12 DEF ReadFailed
  <1>13. ASSUME Defaults PROVE LeavesForeign
    BY <1>13 DEF Defaults
  <1>14. ASSUME DefaultsFailed PROVE LeavesForeign
    BY <1>14 DEF DefaultsFailed
  <1>15. ASSUME NEW p \in Path, NothingToDo(p) PROVE LeavesForeign
    BY <1>15 DEF NothingToDo
  <1>16. ASSUME NEW p \in Path, Create(p) PROVE LeavesForeign
    BY <1>16 DEF Create
  <1>17. ASSUME NEW p \in Path, Update(p) PROVE LeavesForeign
    BY <1>17 DEF Update
  <1>18. ASSUME NEW p \in Path, GroupFailed(p) PROVE LeavesForeign
    BY <1>18 DEF GroupFailed
  <1>19. ASSUME NEW i \in GraphId, Save(i) PROVE LeavesForeign
    BY <1>19, StoreLeavesForeign DEF Save
  <1>20. ASSUME NEW i \in GraphId, SaveFailed(i) PROVE LeavesForeign
    BY <1>20, StoreLeavesForeign DEF SaveFailed
  <1>21. ASSUME Share PROVE LeavesForeign
    BY <1>21, ShareLeavesForeign DEF Share
  <1>22. ASSUME ShareFailed PROVE LeavesForeign
    BY <1>22, ShareLeavesForeign DEF ShareFailed
  <1>23. ASSUME Unshare PROVE LeavesForeign
    BY <1>23, ShareLeavesForeign DEF Unshare
  <1>24. ASSUME UnshareFailed PROVE LeavesForeign
    BY <1>24, ShareLeavesForeign DEF UnshareFailed
  <1>25. ASSUME PassDone PROVE LeavesForeign
    BY <1>25 DEF PassDone
  <1>26. ASSUME NEW i \in GraphId, Orphan(i) PROVE LeavesForeign
    BY <1>26 DEF Orphan
  <1>27. ASSUME OrphanUnshare PROVE LeavesForeign
    BY <1>27, ShareLeavesForeign DEF OrphanUnshare
  <1>28. ASSUME OrphanUnshareFailed PROVE LeavesForeign
    BY <1>28, ShareLeavesForeign DEF OrphanUnshareFailed
  <1>29. ASSUME OrphanSave PROVE LeavesForeign
    BY <1>29, StoreLeavesForeign DEF OrphanSave, WorkInv
  <1>30. ASSUME OrphanSaveFailed PROVE LeavesForeign
    BY <1>30, StoreLeavesForeign DEF OrphanSaveFailed, WorkInv
  <1>31. ASSUME OrphansDone PROVE LeavesForeign
    BY <1>31 DEF OrphansDone
  <1>32. ASSUME NEW g \in Group, NEW p \in Path, RenameGroup(g, p) PROVE LeavesForeign
    BY <1>32 DEF RenameGroup
  <1>33. ASSUME NEW g \in Group, NEW p \in Path, CreateGroup(g, p) PROVE LeavesForeign
    BY <1>33 DEF CreateGroup
  <1>34. ASSUME NEW g \in Group, DeleteGroup(g) PROVE LeavesForeign
    BY <1>34 DEF DeleteGroup
  <1>35. ASSUME NEW d \in Device, NEW S \in SUBSET Path, Regrant(d, S) PROVE LeavesForeign
    BY <1>35 DEF Regrant
  <1>36. ASSUME NEW i \in GraphId, UserEdit(i) PROVE LeavesForeign
    BY <1>36 DEF UserEdit
  <1>37. ASSUME NEW i \in GraphId, UserErase(i) PROVE LeavesForeign
    BY <1>37 DEF UserErase
  <1>38. ASSUME NEW i \in GraphId, NEW p \in Path, UserRevoke(i, p) PROVE LeavesForeign
    BY <1>38 DEF UserRevoke
  <1>39. ASSUME WishAll PROVE LeavesForeign
    BY <1>39 DEF WishAll
  <1>40. ASSUME NEW p \in Path, WishGroup(p) PROVE LeavesForeign
    BY <1>40 DEF WishGroup
  <1>41. ASSUME Crash PROVE LeavesForeign
    BY <1>41 DEF Crash
  <1> HIDE DEF LeavesForeign, Ends, world, control, view
  <1> QED
    BY <1>0, <1>1, <1>2, <1>3, <1>4, <1>5, <1>6, <1>7, <1>8, <1>9, <1>10, <1>10a,
       <1>11, <1>12, <1>13, <1>14, <1>15, <1>16, <1>17, <1>18, <1>19, <1>20,
       <1>21, <1>22, <1>23, <1>24, <1>25, <1>26, <1>27, <1>28, <1>29, <1>30,
       <1>31, <1>32, <1>33, <1>34, <1>35, <1>36, <1>37, <1>38, <1>39, <1>40,
       <1>41
    DEF Next, Service, Working, Failing, Idle, Others

\* A graph without provenance attributes is not the service's: it is never
\* written and never shared, unless a pass that still runs has listed it with
\* them and a user has taken them away since.
THEOREM ForeignIsLeftAlone == Spec => ForeignGraphsUntouched
  <1>1. Spec => [](TypeOK /\ WorkInv /\ OursInv)
    BY InitOurs, NextKeepsOurs, TypesHold, PTL DEF Spec
  <1>2. TypeOK /\ WorkInv /\ OursInv /\ [Next]_vars => [LeavesForeign]_vars
    BY NextLeavesForeign
  <1>3. Spec => [][LeavesForeign]_vars
    BY <1>1, <1>2, PTL DEF Spec
  <1> QED  BY <1>3 DEF ForeignGraphsUntouched, LeavesForeign

=============================================================================
