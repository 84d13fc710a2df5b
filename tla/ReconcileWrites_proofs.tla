------------------------ MODULE ReconcileWrites_proofs ------------------------
(***************************************************************************)
(* What the writes of a pass are: made for a difference, without losing a  *)
(* device on the pass that sees a move or on any pass before trouble       *)
(* begins, a name a user chose, or the access of a group that exists.  All *)
(* of it compares what the pass listed with what it is about to write or   *)
(* has written since.                                                      *)
(***************************************************************************)
EXTENDS Reconcile_proofs

-----------------------------------------------------------------------------
(* Which steps touch what *)

LEMMA DocStays ==
  ASSUME [Next]_vars
  PROVE  \/ UNCHANGED doc
         \/ \E i \in GraphId : Save(i) \/ SaveFailed(i) \/ UserEdit(i) \/ UserErase(i)
         \/ OrphanSave \/ OrphanSaveFailed
  <1> USE DEF vars, world
  <1>1. ASSUME Working PROVE UNCHANGED doc \/ OrphanSave \/ \E i \in GraphId : Save(i)
    BY <1>1 DEF Working, Resolved, DrainTake, ReadGroups, ReadDevices, Defaults,
       NothingToDo, Create, Update, Share, ShareFailed, Unshare, UnshareFailed,
       PassDone, Orphan, OrphanUnshare, OrphanUnshareFailed, OrphansDone
  <1>2. ASSUME Failing
        PROVE  UNCHANGED doc \/ OrphanSaveFailed \/ \E i \in GraphId : SaveFailed(i)
    BY <1>2 DEF Failing, ReadMistaken, PollMistaken, ReadFailed, DefaultsFailed, GroupFailed
  <1>3. ASSUME Idle PROVE UNCHANGED doc
    BY <1>3 DEF Idle, SafetyNet, PollGroups, Receive, Woken, ResolveDevice, ResolveGraph
  <1>4. ASSUME Others PROVE UNCHANGED doc \/ \E i \in GraphId : UserEdit(i) \/ UserErase(i)
    BY <1>4 DEF Others, RenameGroup, CreateGroup, DeleteGroup, Regrant, UserRevoke,
       WishAll, WishGroup
  <1>5. ASSUME Crash PROVE UNCHANGED doc
    BY <1>5 DEF Crash
  <1> QED  BY <1>1, <1>2, <1>3, <1>4, <1>5 DEF Next, Service

\* The service's tree is replaced by an answer, emptied, or torn.
TreeTaken(answer) == groupAt' = answer /\ UNCHANGED <<realm, hidden, doc>>

TornTaken == Spend("torn") /\ groupAt' \in Mistaken("torn") /\ UNCHANGED <<realm, hidden, doc>>

LEMMA GroupAtStays ==
  ASSUME [Next]_vars
  PROVE  UNCHANGED groupAt \/ TreeTaken(Tree) \/ TreeTaken(NoGroups) \/ TornTaken
  <1> USE DEF TreeTaken, vars, view, world
  <1>1. ASSUME Working PROVE UNCHANGED groupAt \/ TreeTaken(Tree)
    BY <1>1 DEF Working, Resolved, DrainTake, ReadGroups, ReadDevices, Defaults,
       NothingToDo, Create, Update, Save, Share, ShareFailed, Unshare, UnshareFailed,
       PassDone, Orphan, OrphanUnshare, OrphanUnshareFailed, OrphanSave, OrphansDone
  <1>2. ASSUME Failing PROVE UNCHANGED groupAt \/ TreeTaken(NoGroups) \/ TornTaken
    BY <1>2 DEF TornTaken, Mistaken, Failing, ReadMistaken, PollMistaken, ReadFailed, DefaultsFailed, GroupFailed,
       SaveFailed, OrphanSaveFailed
  <1>3. ASSUME Idle PROVE UNCHANGED groupAt \/ TreeTaken(Tree)
    BY <1>3 DEF Idle, SafetyNet, PollGroups, Receive, Woken, ResolveDevice, ResolveGraph
  <1>4. ASSUME Others PROVE UNCHANGED groupAt
    BY <1>4 DEF Others, RenameGroup, CreateGroup, DeleteGroup, Regrant, UserRevoke,
       UserEdit, UserErase, WishAll, WishGroup
  <1>5. ASSUME Crash PROVE TreeTaken(NoGroups)
    BY <1>5 DEF Crash
  <1>6. CASE UNCHANGED vars
    BY <1>6
  <1> QED  BY <1>1, <1>2, <1>3, <1>4, <1>5, <1>6 DEF Next, Service

LEMMA RealmStays ==
  ASSUME [Next]_vars
  PROVE  \/ UNCHANGED <<realm, hidden>>
         \/ \E g \in Group : \/ DeleteGroup(g)
                             \/ \E p \in Path : RenameGroup(g, p) \/ CreateGroup(g, p)
  <1> USE DEF vars, world
  <1>1. ASSUME Working PROVE UNCHANGED <<realm, hidden>>
    BY <1>1 DEF Working, Resolved, DrainTake, ReadGroups, ReadDevices, Defaults,
       NothingToDo, Create, Update, Save, Share, ShareFailed, Unshare, UnshareFailed,
       PassDone, Orphan, OrphanUnshare, OrphanUnshareFailed, OrphanSave, OrphansDone
  <1>2. ASSUME Failing PROVE UNCHANGED <<realm, hidden>>
    BY <1>2 DEF Failing, ReadMistaken, PollMistaken, ReadFailed, DefaultsFailed, GroupFailed,
       SaveFailed, OrphanSaveFailed
  <1>3. ASSUME Idle PROVE UNCHANGED <<realm, hidden>>
    BY <1>3 DEF Idle, SafetyNet, PollGroups, Receive, Woken, ResolveDevice, ResolveGraph
  <1>4. ASSUME Others, ~UNCHANGED <<realm, hidden>>
        PROVE  \E g \in Group : \/ DeleteGroup(g)
                                \/ \E p \in Path : RenameGroup(g, p) \/ CreateGroup(g, p)
    BY <1>4 DEF Others, Regrant, UserRevoke, UserEdit, UserErase, WishAll, WishGroup
  <1>5. ASSUME Crash PROVE UNCHANGED <<realm, hidden>>
    BY <1>5 DEF Crash
  <1> QED  BY <1>1, <1>2, <1>3, <1>4, <1>5 DEF Next, Service

LEMMA ShareStays ==
  ASSUME [Next]_vars
  PROVE  \/ UNCHANGED share
         \/ Share \/ ShareFailed \/ Unshare \/ UnshareFailed
         \/ OrphanUnshare \/ OrphanUnshareFailed
         \/ \E i \in GraphId : UserErase(i) \/ \E p \in Path : UserRevoke(i, p)
  <1> USE DEF vars, world
  <1>1. ASSUME Working
        PROVE  \/ UNCHANGED share
               \/ Share \/ ShareFailed \/ Unshare \/ UnshareFailed
               \/ OrphanUnshare \/ OrphanUnshareFailed
    BY <1>1 DEF Working, Resolved, DrainTake, ReadGroups, ReadDevices, Defaults,
       NothingToDo, Create, Update, Save, PassDone, Orphan, OrphanSave, OrphansDone
  <1>2. ASSUME Failing PROVE UNCHANGED share
    BY <1>2 DEF Failing, ReadMistaken, PollMistaken, ReadFailed, DefaultsFailed, GroupFailed,
       SaveFailed, OrphanSaveFailed
  <1>3. ASSUME Idle PROVE UNCHANGED share
    BY <1>3 DEF Idle, SafetyNet, PollGroups, Receive, Woken, ResolveDevice, ResolveGraph
  <1>4. ASSUME Others
        PROVE  \/ UNCHANGED share
               \/ \E i \in GraphId : UserErase(i) \/ \E p \in Path : UserRevoke(i, p)
    BY <1>4 DEF Others, RenameGroup, CreateGroup, DeleteGroup, Regrant, UserEdit,
       WishAll, WishGroup
  <1>5. ASSUME Crash PROVE UNCHANGED share
    BY <1>5 DEF Crash
  <1> QED  BY <1>1, <1>2, <1>3, <1>4, <1>5 DEF Next, Service

LEMMA BudgetStays ==
  ASSUME [Next]_vars
  PROVE  UNCHANGED budget \/ \E kind \in Outside : Spend(kind)
  <1> USE DEF vars, Outside
  <1>1. ASSUME Working PROVE UNCHANGED budget \/ \E kind \in Outside : Spend(kind)
    BY <1>1 DEF Working, Resolved, DrainTake, ReadGroups, ReadDevices, Defaults,
       NothingToDo, Create, Update, Save, Share, ShareFailed, Unshare, UnshareFailed,
       PassDone, Orphan, OrphanUnshare, OrphanUnshareFailed, OrphanSave, OrphansDone
  <1>2. ASSUME Failing PROVE UNCHANGED budget \/ \E kind \in Outside : Spend(kind)
    BY <1>2 DEF Failing, ReadMistaken, PollMistaken, ReadFailed, DefaultsFailed, GroupFailed,
       SaveFailed, OrphanSaveFailed
  <1>3. ASSUME Idle PROVE UNCHANGED budget
    BY <1>3 DEF Idle, SafetyNet, PollGroups, Receive, Woken, ResolveDevice, ResolveGraph
  <1>4. ASSUME Others PROVE \E kind \in Outside : Spend(kind)
    BY <1>4 DEF Others, RenameGroup, CreateGroup, DeleteGroup, Regrant, UserEdit,
       UserErase, UserRevoke, WishAll, WishGroup
  <1>5. ASSUME Crash PROVE \E kind \in Outside : Spend(kind)
    BY <1>5 DEF Crash
  <1> QED  BY <1>1, <1>2, <1>3, <1>4, <1>5 DEF Next, Service

Orphaning == {"orphans", "withdraw", "clear"}

\* What the pass has in hand, and where it goes.
PassStep ==
    \/ UNCHANGED <<pc, cur, seen, lost, groupAt>>
    \/ pc' \in Resting
    \/ Defaults
    \/ \E p \in Path : Create(p) \/ Update(p)
    \/ \E i \in GraphId : Save(i) \/ Orphan(i)
    \/ Share /\ cur.prev # None
    \/ OrphanUnshare
    \/ pc \in Passing /\ pc' = "pass" /\ UNCHANGED <<seen, lost, groupAt>>
    \/ /\ pc = "pass" /\ pc' = "orphans" /\ lost' = Orphans /\ groupAt # NoGroups
       /\ UNCHANGED <<seen, groupAt, world>>
    \/ pc \in Orphaning /\ pc' = "orphans" /\ UNCHANGED <<seen, lost, groupAt>>

LEMMA PassSteps ==
  ASSUME TypeOK, [Next]_vars
  PROVE  PassStep
  <1> USE DEF PassStep, vars, view, control, pass
  <1>1. ASSUME Working PROVE PassStep
    BY <1>1, BackIsIdle
    DEF Working, Resolved, DrainTake, ReadGroups, ReadDevices, NothingToDo,
       Share, ShareFailed, Unshare, UnshareFailed, PassDone, Leave, NextGroup,
       OrphanUnshareFailed, OrphanSave, OrphansDone, Resting, Passing, Orphaning
  <1>2. ASSUME Failing PROVE PassStep
    BY <1>2, BackIsIdle
    DEF Failing, ReadMistaken, PollMistaken, ReadFailed, DefaultsFailed, GroupFailed,
       SaveFailed, OrphanSaveFailed, Leave, NextGroup, Resting, Passing, Orphaning
  <1>3. ASSUME Idle PROVE PassStep
    BY <1>3 DEF Idle, SafetyNet, PollGroups, Receive, Woken, ResolveDevice, ResolveGraph,
       Resting
  <1>4. ASSUME Others PROVE PassStep
    BY <1>4 DEF Others, RenameGroup, CreateGroup, DeleteGroup, Regrant, UserRevoke,
       UserEdit, UserErase, WishAll, WishGroup
  <1>5. ASSUME Crash PROVE PassStep
    BY <1>5 DEF Crash, Resting
  <1> HIDE DEF PassStep
  <1>6. CASE UNCHANGED vars
    BY <1>6 DEF PassStep
  <1> QED  BY <1>1, <1>2, <1>3, <1>4, <1>5, <1>6 DEF Next, Service

-----------------------------------------------------------------------------
(* What is about to be written, beside what was listed *)

WriteInv ==
    /\ pc \in {"save", "withdraw", "clear"} /\ cur.id # None =>
          /\ seen[cur.id] # None /\ cur.doc # seen[cur.id]
          /\ cur.doc.root = Own <=> seen[cur.id].root = Own
    /\ pc = "save" =>
          /\ cur.prev # None => cur.id # None /\ seen[cur.id].nodes \subseteq cur.doc.nodes
          /\ cur.id # None /\ cur.doc.gid # seen[cur.id].gid =>
                seen[cur.id].gid = None /\ groupAt[seen[cur.id].path] = cur.doc.gid
    /\ pc \in {"save", "share", "unshare"} => cur.prev # cur.path
    /\ pc \in Orphaning => \A i \in lost : ~IsForeign(seen[i])

LEMMA InitWrite == Init => WriteInv
  BY DEF Init, Started, WriteInv, Orphaning

\* The flag `changed` tells the truth: what it lets through is a difference.
LEMMA ChangedIsDifferent ==
  ASSUME NEW old \in Doc, NEW p \in Path, NEW stuck, Changed(old, p, stuck)
  PROVE  Updated(old, p, stuck) # old
  <1> DEFINE new == Updated(old, p, stuck)
  <1>1. /\ new.gid = groupAt[p] /\ new.path = p /\ new.name = GroupName(p)
        /\ new.root = Renamed(old, p)
        /\ new.nodes = (old.nodes \ (Departed(old, p) \ stuck)) \cup Missing(old, p)
    BY DEF Updated
  <1>2. Departed(old, p) \subseteq old.nodes
        /\ Missing(old, p) \cap old.nodes = {}
        /\ Missing(old, p) \cap Departed(old, p) = {}
    BY DEF Departed, Missing
  <1>3. CASE Departed(old, p) \ stuck # {} \/ Missing(old, p) # {}
    BY <1>1, <1>2, <1>3
  <1>4. CASE old.gid # groupAt[p] \/ old.path # p
    BY <1>1, <1>4
  <1>5. CASE /\ ~(old.name = GroupName(p) /\ old.root = GroupName(p))
             /\ old.root = old.name \/ old.name # GroupName(p)
    BY <1>1, <1>5 DEF Renamed
  <1> QED  BY <1>3, <1>4, <1>5 DEF Changed

LEMMA NextKeepsWrite == TypeOK /\ WorkInv /\ WriteInv /\ [Next]_vars => WriteInv'
  <1> SUFFICES ASSUME TypeOK, WorkInv, WriteInv, [Next]_vars PROVE WriteInv'
    OBVIOUS
  <1>0. PassStep
    BY PassSteps
  <1>1. CASE UNCHANGED <<pc, cur, seen, lost, groupAt>>
    BY <1>1 DEF WriteInv, IsForeign, Orphaning
  <1>2. CASE pc' \in Resting \cup {"pass"}
    BY <1>2 DEF WriteInv, Resting, Orphaning
  <1>3. ASSUME NEW p \in Path, Create(p) PROVE WriteInv'
    BY <1>3, NoneAssumption DEF Create, WriteInv, Orphaning
  <1>4. ASSUME NEW p \in Path, Update(p) PROVE WriteInv'
    <2> DEFINE i == Existing(p)
               old == seen[i]
    <2>1. PICK stuck \in SUBSET Departed(old, p) :
             /\ cur' = [id |-> i, path |-> p,
                        prev |-> IF Moved(old, p) THEN old.path ELSE None,
                        doc |-> Updated(old, p, stuck)]
             /\ pc' = IF Changed(old, p, stuck) THEN "save" ELSE "share"
      BY <1>4 DEF Update
    <2>2. old \in Doc /\ i \in GraphId /\ i # None /\ old # None
      BY <1>4, OldIsWhole, NoneAssumption DEF Update
    <2>3. /\ cur'.id = i /\ cur'.path = p /\ cur'.doc = Updated(old, p, stuck)
          /\ cur'.prev = IF Moved(old, p) THEN old.path ELSE None
          /\ UNCHANGED <<seen, groupAt>>
      BY <1>4, <2>1 DEF Update, view
    <2>4. pc' = "save" => cur'.doc # old
      BY <2>1, <2>2, <2>3, ChangedIsDifferent
    <2>5. cur'.doc.root = Own <=> old.root = Own
      BY <2>2, <2>3, NameIsName, NoneAssumption DEF Updated, Renamed, Doc
    <2>6. cur'.prev # None => old.nodes \subseteq cur'.doc.nodes
      BY <2>3 DEF Updated, Departed
    <2>7. cur'.doc.gid # old.gid => old.gid = None /\ groupAt[old.path] = cur'.doc.gid
      BY <1>4, <2>3, ExistingIsListed DEF Update, Updated
    <2>8. cur'.prev # cur'.path
      BY <2>3, NoneAssumption DEF Moved
    <2> HIDE DEF i, old
    <2>9. seen'[cur'.id] = old
      BY <2>3 DEF old
    <2> QED
      BY <2>1, <2>2, <2>3, <2>4, <2>5, <2>6, <2>7, <2>8, <2>9 DEF WriteInv, Orphaning
  <1>5. ASSUME NEW i \in GraphId, Save(i) PROVE WriteInv'
    BY <1>5 DEF Save, WriteInv, TypeOK, Work, Orphaning
  <1>6. ASSUME NEW i \in GraphId, Orphan(i) PROVE WriteInv'
    <2>1. /\ seen[i] \in Doc /\ ~IsForeign(seen[i]) /\ seen[i] # None
          /\ UNCHANGED seen /\ lost' \subseteq lost /\ pc' = "withdraw"
          /\ cur'.id = i /\ cur'.doc = [seen[i] EXCEPT !.gid = None, !.path = None]
      BY <1>6 DEF Orphan, TypeOK, WorkInv, WriteInv, Orphaning
    <2>2. cur'.doc.gid = None /\ cur'.doc.path = None /\ cur'.doc.root = seen[i].root
      BY <2>1 DEF Doc
    <2>3. cur'.doc # seen[i]
      BY <2>1, <2>2 DEF IsForeign, Foreign
    <2> QED
      BY <1>6, <2>1, <2>2, <2>3 DEF WriteInv, Orphaning, Orphan
  <1>7. CASE Share /\ cur.prev # None
    BY <1>7 DEF Share, WriteInv, Orphaning, NextGroup
  <1>8. CASE OrphanUnshare
    BY <1>8 DEF OrphanUnshare, WriteInv, Orphaning, pass, IsForeign
  <1>9. CASE /\ pc = "pass" /\ pc' = "orphans" /\ lost' = Orphans /\ UNCHANGED seen
    BY <1>9, OrphansAreOurs DEF WriteInv, Orphaning, IsForeign
  <1>10. CASE pc \in Orphaning /\ pc' = "orphans" /\ UNCHANGED <<seen, lost, groupAt>>
    BY <1>10 DEF WriteInv, Orphaning, IsForeign
  <1>11. Defaults => pc' = "pass"
    BY DEF Defaults
  <1> QED
    BY <1>0, <1>1, <1>2, <1>3, <1>4, <1>5, <1>6, <1>7, <1>8, <1>9, <1>10, <1>11
    DEF PassStep

LEMMA WritesHold == Spec => [](TypeOK /\ WorkInv /\ OneInv /\ WriteInv)
  BY InitWrite, NextKeepsWrite, InitOne, NextKeepsOne, TypesHold, PTL DEF Spec

\* Whatever the pass arrives at, it writes only what is not there already: a
\* write is never its own cause.
THEOREM NoWriteIsIdle == Spec => []NoIdleWrite
  <1>1. WriteInv => NoIdleWrite
    BY DEF WriteInv, NoIdleWrite
  <1> QED  BY <1>1, WritesHold, PTL

\* A write of `save`, as the repository sees it.
LEMMA SaveStores ==
  ASSUME TypeOK, [Next]_vars, pc = "save", pc' # pc, doc' # doc
  PROVE  \E i \in GraphId : Store(i)
  BY DocStays DEF Save, SaveFailed, OrphanSave, OrphanSaveFailed, UserEdit, UserErase, control

\* The pass that notices a move takes no device out of the graph it writes.
THEOREM MovesRemoveNothing == Spec => MoveRemovesNothing
  <1> DEFINE Keeps == Ends({"save"}) /\ cur.prev # None /\ doc' # doc =>
                        seen[cur.id].nodes \subseteq doc'[cur.id].nodes
  <1>1. TypeOK /\ WorkInv /\ WriteInv /\ [Next]_vars => Keeps
    <2> SUFFICES ASSUME TypeOK, WorkInv, WriteInv, [Next]_vars,
                        Ends({"save"}), cur.prev # None, doc' # doc
                 PROVE  seen[cur.id].nodes \subseteq doc'[cur.id].nodes
      OBVIOUS
    <2>1. PICK i \in GraphId : Store(i)
      BY SaveStores DEF Ends
    <2>2. cur.id # None /\ seen[cur.id].nodes \subseteq cur.doc.nodes
      BY DEF Ends, WriteInv
    <2>3. doc'[cur.id] = cur.doc
      BY <2>1, <2>2, StoreChangesOne
    <2> QED  BY <2>2, <2>3
  <1>2. Spec => [][Keeps]_vars
    <2>1. TypeOK /\ WorkInv /\ WriteInv /\ [Next]_vars => [Keeps]_vars
      BY <1>1
    <2> QED  BY <2>1, WritesHold, PTL DEF Spec
  <1> QED  BY <1>2 DEF MoveRemovesNothing

-----------------------------------------------------------------------------
(* The access of a group that exists *)

\* Where the group ids in the repository come from.
LEMMA GidsStay ==
  ASSUME TypeOK, WorkInv, OneInv, [Next]_vars,
         NEW i \in GraphId, doc'[i] # None, doc'[i].gid # None
  PROVE  \/ doc[i] # None /\ doc'[i].gid = doc[i].gid
         \/ /\ pc = "save" /\ doc'[i].gid = cur.doc.gid
            /\ cur.id = i \/ (cur.id = None /\ seen[i] = None)
            /\ cur.path \in Path /\ groupAt[cur.path] = doc'[i].gid
  <1>1. CASE UNCHANGED doc
    BY <1>1
  <1>2. ASSUME NEW j \in GraphId, pc = "save", Store(j)
        PROVE  \/ doc[i] # None /\ doc'[i].gid = doc[i].gid
               \/ /\ pc = "save" /\ doc'[i].gid = cur.doc.gid
                  /\ cur.id = i \/ (cur.id = None /\ seen[i] = None)
                  /\ cur.path \in Path /\ groupAt[cur.path] = doc'[i].gid
    <2>1. doc'[j] = cur.doc /\ (i # j => doc'[i] = doc[i])
      BY <1>2, StoreChangesOne
    <2>2. cur.id = j \/ (cur.id = None /\ seen[j] = None)
      BY <1>2 DEF Store
    <2>3. cur.path \in Path /\ groupAt[cur.path] = cur.doc.gid
      BY <1>2 DEF OneInv, SavedIsTheOnlyOne, WorkInv
    <2> QED  BY <1>2, <2>1, <2>2, <2>3
  <1>3. ASSUME pc = "clear", Store(cur.id)
        PROVE  doc[i] # None /\ doc'[i].gid = doc[i].gid
    <2>1. cur.id \in GraphId /\ cur.doc.gid = None
      BY <1>3 DEF WorkInv, OneInv, ClearedHasNone
    <2> QED  BY <1>3, <2>1, StoreChangesOne
  <1>4. ASSUME NEW j \in GraphId, UserEdit(j) \/ UserErase(j)
        PROVE  doc[i] # None /\ doc'[i].gid = doc[i].gid
    BY <1>4 DEF UserEdit, UserErase, TypeOK, Doc
  <1> QED
    BY <1>1, <1>2, <1>3, <1>4, DocStays DEF Save, SaveFailed, OrphanSave, OrphanSaveFailed

\* What is spent does not come back.
LEMMA BudgetFalls ==
  ASSUME TypeOK, [Next]_vars, NEW kind \in Outside \ {"any"}
  PROVE  /\ budget'[kind] <= budget[kind]
         /\ Spend(kind) => budget'[kind] < budget[kind]
         /\ budget[kind] \in Nat /\ budget'[kind] \in Nat /\ Budget[kind] \in Nat
  <1>1. kind \in Outside /\ "any" \in Outside /\ kind # "any"
    BY DEF Outside
  <1>2. budget \in [Outside -> Nat] /\ Budget \in [Outside -> Nat]
    BY BudgetAssumption DEF TypeOK
  <1>3. ASSUME NEW k \in Outside, Spend(k)
        PROVE  /\ budget'[kind] <= budget[kind]
               /\ k = kind => budget'[kind] < budget[kind]
               /\ budget'[kind] \in Nat
    <2>1. budget' \in [Outside -> Nat]
      BY <1>2, <1>3, SpendKeeps
    <2> QED  BY <1>1, <1>2, <1>3, <2>1 DEF Spend
  <1> QED  BY <1>1, <1>2, <1>3, BudgetStays

\* No walk of the tree has come back torn.
Whole == budget["torn"] = Budget["torn"]

\* Every group that is named anywhere has existed; if the trees were whole, one
\* that the service's tree does not show, unless it shows nothing at all, exists
\* no more or has been hidden by the filter.
KnownGroups ==
    /\ budget["torn"] <= Budget["torn"]
    /\ \A g, h \in Group : realm[g] \in Path /\ realm[g] = realm[h] => g = h
    /\ \A g \in Group : realm[g] \in Path \ Allowed => g \in hidden
    /\ \A p \in Path : groupAt[p] # None => realm[groupAt[p]] # None
    /\ \A i \in GraphId : doc[i] # None /\ doc[i].gid # None =>
          /\ realm[doc[i].gid] # None
          /\ Whole /\ groupAt # NoGroups /\ (\A p \in Path : groupAt[p] # doc[i].gid)
                => realm[doc[i].gid] = Gone \/ doc[i].gid \in hidden

\* A graph that has another group than it was listed with had none then, and
\* the path of the group it has now.
AdoptedByPath ==
    pc \in Passing =>
       \A i \in GraphId :
          /\ seen[i] # None /\ doc[i] # None /\ doc[i].gid # None
          /\ doc[i].gid # seen[i].gid
          => seen[i].gid = None /\ groupAt[seen[i].path] = doc[i].gid

OfNoGroup(i) ==
    doc[i] # None /\ doc[i].gid # None => \A p \in Path : groupAt[p] # doc[i].gid

\* What is being orphaned belongs to no group of a tree that has some.
LostHaveNoGroup ==
    pc \in Orphaning =>
       /\ groupAt # NoGroups
       /\ \A i \in lost : OfNoGroup(i)
       /\ pc = "withdraw" => OfNoGroup(cur.id)

\* Before the old path is withdrawn, the new one has been granted.
NewPathGranted ==
    /\ budget["revoke"] <= Budget["revoke"]
    /\ pc = "unshare" /\ budget["revoke"] = Budget["revoke"] =>
          doc[cur.id] = None \/ cur.path \in share[cur.id]

AccessInv == KnownGroups /\ AdoptedByPath /\ LostHaveNoGroup /\ NewPathGranted

LEMMA InitAccess == Init => AccessInv
  <1> SUFFICES ASSUME Init PROVE AccessInv
    OBVIOUS
  <1>1. KnownGroups
    BY InitialAssumption, NoneAssumption, BudgetAssumption
    DEF Init, Started, KnownGroups, NoGroups, Outside
  <1>2. NewPathGranted
    BY BudgetAssumption DEF Init, Started, NewPathGranted, Outside
  <1> QED
    BY <1>1, <1>2
    DEF Init, Started, AccessInv, AdoptedByPath, LostHaveNoGroup, Passing, Orphaning

\* A tree that shows some groups shows every group there is, the hidden ones apart.
LEMMA TreeShowsAll ==
  ASSUME TypeOK, KnownGroups, NEW g \in Group, \A p \in Path : Tree[p] # g
  PROVE  realm[g] \in {None, Gone} \/ g \in hidden
  <1> SUFFICES ASSUME realm[g] \in Allowed PROVE FALSE
    BY DEF TypeOK, KnownGroups
  <1>1. \A h \in Group : realm[h] = realm[g] => h = g
    BY AllowedAssumption DEF KnownGroups
  <1>2. Tree[realm[g]] = g
    BY <1>1, AllowedAssumption DEF Tree
  <1> QED  BY <1>2, AllowedAssumption

LEMMA NextKeepsKnown ==
  TypeOK /\ WorkInv /\ OneInv /\ KnownGroups /\ [Next]_vars => KnownGroups'
  <1> SUFFICES ASSUME TypeOK, WorkInv, OneInv, KnownGroups, [Next]_vars
               PROVE  KnownGroups'
    OBVIOUS
  <1>0. /\ \A p \in Path : groupAt[p] \in Group \cup {None}
        /\ \A i \in GraphId : doc[i] # None => doc[i].gid \in Group \cup {None}
        /\ \A g \in Group : realm[g] \in Path \cup {None, Gone}
    BY DEF TypeOK, Doc
  <1>00. budget'["torn"] <= Budget["torn"] /\ (Whole' => Whole /\ ~Spend("torn"))
    <2>1. /\ budget'["torn"] <= budget["torn"]
          /\ Spend("torn") => budget'["torn"] < budget["torn"]
          /\ {budget["torn"], budget'["torn"], Budget["torn"]} \subseteq Nat
      BY BudgetFalls DEF Outside
    <2> QED  BY <2>1 DEF KnownGroups, Whole
  <1>1. CASE TreeTaken(NoGroups)
    BY <1>00, <1>1 DEF TreeTaken, KnownGroups, NoGroups
  <1>2. CASE TreeTaken(Tree)
    <2>1. \A p \in Path : groupAt'[p] # None => realm'[groupAt'[p]] # None
      BY <1>2, TreeAnswers, NoneAssumption DEF TreeTaken
    <2>2. ASSUME NEW i \in GraphId, doc[i] # None, doc[i].gid # None,
                 \A p \in Path : Tree[p] # doc[i].gid
          PROVE  realm[doc[i].gid] = Gone \/ doc[i].gid \in hidden
      BY <1>0, <2>2, TreeShowsAll DEF KnownGroups
    <2> QED  BY <1>00, <1>2, <2>1, <2>2 DEF TreeTaken, KnownGroups
  <1>5. CASE TornTaken
    <2>1. ~Whole'
      BY <1>00, <1>5 DEF TornTaken
    <2>2. \A p \in Path : groupAt'[p] # None => groupAt'[p] = Tree[p]
      BY <1>5, MistakenAnswers DEF TornTaken
    <2>3. \A p \in Path : groupAt'[p] # None => realm'[groupAt'[p]] # None
      BY <1>5, <2>2, TreeAnswers, NoneAssumption DEF TornTaken
    <2> QED  BY <1>00, <1>5, <2>1, <2>3 DEF TornTaken, KnownGroups
  <1>3. CASE UNCHANGED <<groupAt, realm, hidden>>
    <2>1. ASSUME NEW i \in GraphId, doc'[i] # None, doc'[i].gid # None
          PROVE  /\ realm[doc'[i].gid] # None
                 /\ Whole /\ groupAt # NoGroups /\ (\A p \in Path : groupAt[p] # doc'[i].gid)
                       => realm[doc'[i].gid] = Gone \/ doc'[i].gid \in hidden
      BY <2>1, GidsStay DEF KnownGroups
    <2> QED  BY <1>00, <1>3, <2>1 DEF KnownGroups
  <1>4. ASSUME UNCHANGED groupAt, NEW g \in Group,
               \/ DeleteGroup(g)
               \/ \E p \in Path : RenameGroup(g, p) \/ CreateGroup(g, p)
        PROVE  KnownGroups'
    <2>1. UNCHANGED doc
      BY <1>4 DEF DeleteGroup, RenameGroup, CreateGroup
    <2>2. /\ realm[g] # Gone
          /\ realm'[g] \in Path \cup {Gone}
          /\ realm'[g] \in Path => \A h \in Group : realm[h] # realm'[g]
          /\ \A h \in Group : h # g => realm'[h] = realm[h]
          /\ hidden \subseteq hidden'
          /\ realm'[g] \in Path \ Allowed => g \in hidden'
      BY <1>4, NoneAssumption DEF DeleteGroup, RenameGroup, CreateGroup, Place, TypeOK
    <2>3. \A h, k \in Group : realm'[h] \in Path /\ realm'[h] = realm'[k] => h = k
      BY <2>2 DEF KnownGroups
    <2>4. \A h \in Group : realm[h] # None => realm'[h] # None
      BY <2>2, NoneAssumption
    <2>5. \A h \in Group : realm[h] = Gone => realm'[h] = Gone
      BY <2>2
    <2>6. \A p \in Path : groupAt[p] # None => realm'[groupAt[p]] # None
      BY <1>0, <2>4 DEF KnownGroups
    <2>7. ASSUME NEW i \in GraphId, doc[i] # None, doc[i].gid # None
          PROVE  /\ realm'[doc[i].gid] # None
                 /\ Whole /\ groupAt # NoGroups /\ (\A p \in Path : groupAt[p] # doc[i].gid)
                       => realm'[doc[i].gid] = Gone \/ doc[i].gid \in hidden'
      BY <1>0, <2>2, <2>4, <2>5, <2>7 DEF KnownGroups
    <2>8. \A h \in Group : realm'[h] \in Path \ Allowed => h \in hidden'
      BY <2>2 DEF KnownGroups
    <2> QED  BY <1>00, <1>4, <2>1, <2>3, <2>6, <2>7, <2>8 DEF KnownGroups
  <1> QED
    BY <1>1, <1>2, <1>3, <1>4, <1>5, GroupAtStays, RealmStays DEF TreeTaken, TornTaken

\* From one state of a pass to the next a graph takes another group only as
\* WriteInv says.
LEMMA AdoptionStays ==
  ASSUME TypeOK, WorkInv, OneInv, WriteInv, AdoptedByPath, [Next]_vars,
         pc \in Passing, UNCHANGED <<seen, groupAt>>,
         NEW i \in GraphId, seen[i] # None, doc'[i] # None, doc'[i].gid # None,
         doc'[i].gid # seen[i].gid
  PROVE  seen[i].gid = None /\ groupAt[seen[i].path] = doc'[i].gid
  <1>1. CASE doc[i] # None /\ doc'[i].gid = doc[i].gid
    BY <1>1 DEF AdoptedByPath
  <1>2. CASE pc = "save" /\ doc'[i].gid = cur.doc.gid /\ cur.id = i
    BY <1>2, NoneAssumption DEF WriteInv
  <1> QED  BY <1>1, <1>2, GidsStay

LEMMA NextKeepsAdopted ==
  TypeOK /\ WorkInv /\ OneInv /\ WriteInv /\ AdoptedByPath /\ [Next]_vars => AdoptedByPath'
  <1> SUFFICES ASSUME TypeOK, WorkInv, OneInv, WriteInv, AdoptedByPath, [Next]_vars,
                      pc' \in Passing
               PROVE  AdoptedByPath'
    BY DEF AdoptedByPath
  <1>1. CASE pc \in Passing /\ UNCHANGED <<seen, groupAt>>
    BY <1>1, AdoptionStays DEF AdoptedByPath
  <1>2. CASE Defaults
    BY <1>2 DEF Defaults, AdoptedByPath, world
  <1>3. \/ Defaults
        \/ pc \in Passing /\ UNCHANGED <<seen, groupAt>>
    BY PassSteps DEF PassStep, Passing, Resting, Orphaning, Create, Update, Save, Orphan,
       Share, OrphanUnshare, view, pass
  <1> QED  BY <1>1, <1>2, <1>3

\* The orphans a pass finds belong to no group of its tree.
LEMMA OrphansHaveNoGroup ==
  ASSUME TypeOK, AdoptedByPath, pc = "pass"
  PROVE  \A i \in Orphans : OfNoGroup(i)
  <1> SUFFICES ASSUME NEW i \in Orphans, doc[i] # None, doc[i].gid # None
               PROVE  \A p \in Path : groupAt[p] # doc[i].gid
    BY DEF OfNoGroup
  <1>0. i \in GraphId /\ seen[i] # None
    BY OrphansAreListed
  <1>1. \/ seen[i].gid # None /\ \A p \in Path : groupAt[p] # seen[i].gid
        \/ /\ seen[i].gid = None /\ seen[i].path \in Path
           /\ groupAt[seen[i].path] = None
    BY ByIdFinds, ByPathFinds, NoneAssumption DEF Orphans
  <1>2. doc[i].gid # seen[i].gid =>
           seen[i].gid = None /\ groupAt[seen[i].path] = doc[i].gid
    BY <1>0 DEF AdoptedByPath, Passing
  <1> QED  BY <1>1, <1>2

LEMMA NextKeepsLost ==
  TypeOK /\ WorkInv /\ OneInv /\ AdoptedByPath /\ LostHaveNoGroup /\ [Next]_vars
     => LostHaveNoGroup'
  <1> SUFFICES ASSUME TypeOK, WorkInv, OneInv, AdoptedByPath, LostHaveNoGroup,
                      [Next]_vars, pc' \in Orphaning
               PROVE  LostHaveNoGroup'
    BY DEF LostHaveNoGroup
  <1>1. CASE /\ pc = "pass" /\ lost' = Orphans /\ groupAt # NoGroups
             /\ UNCHANGED <<groupAt, world>> /\ pc' = "orphans"
    BY <1>1, OrphansHaveNoGroup DEF LostHaveNoGroup, OfNoGroup, world
  <1>2. CASE /\ pc \in Orphaning /\ UNCHANGED groupAt
             /\ lost' \subseteq lost
             /\ pc' = "withdraw" => cur'.id \in lost \/ (pc = "withdraw" /\ cur'.id = cur.id)
    <2>1. ASSUME NEW i \in GraphId, OfNoGroup(i) PROVE OfNoGroup(i)'
      BY <1>2, <2>1, GidsStay DEF OfNoGroup, Orphaning
    <2>2. lost \subseteq GraphId /\ (pc = "withdraw" => cur.id \in GraphId)
      BY DEF TypeOK, WorkInv
    <2> QED  BY <1>2, <2>1, <2>2 DEF LostHaveNoGroup
  <1>3. PassStep
    BY PassSteps
  <1>4. ASSUME NEW i \in GraphId, Orphan(i)
        PROVE  /\ pc \in Orphaning /\ UNCHANGED groupAt
               /\ lost' \subseteq lost
               /\ cur'.id \in lost
    BY <1>4 DEF Orphan, Orphaning, view
  <1> QED
    BY <1>1, <1>2, <1>3, <1>4
    DEF PassStep, Orphaning, Resting, Passing, Create, Update, Save, Share, Defaults,
       OrphanUnshare, view, pass

LEMMA NextKeepsGranted ==
  TypeOK /\ WorkInv /\ NewPathGranted /\ [Next]_vars => NewPathGranted'
  <1> SUFFICES ASSUME TypeOK, WorkInv, NewPathGranted, [Next]_vars
               PROVE  NewPathGranted'
    OBVIOUS
  <1>1. /\ budget'["revoke"] <= Budget["revoke"]
        /\ budget'["revoke"] = Budget["revoke"] =>
              budget["revoke"] = Budget["revoke"] /\ ~Spend("revoke")
    <2>1. /\ budget'["revoke"] <= budget["revoke"]
          /\ Spend("revoke") => budget'["revoke"] < budget["revoke"]
          /\ {budget["revoke"], budget'["revoke"], Budget["revoke"]} \subseteq Nat
      BY BudgetFalls DEF Outside
    <2> QED  BY <2>1 DEF NewPathGranted
  <1> SUFFICES ASSUME pc' = "unshare", budget'["revoke"] = Budget["revoke"]
               PROVE  doc'[cur'.id] = None \/ cur'.path \in share'[cur'.id]
    BY <1>1 DEF NewPathGranted
  <1>2. CASE Share
    <2>1. cur.id \in GraphId /\ cur' = cur
      BY <1>2 DEF Share, NextGroup, WorkInv
    <2>2. share' = [share EXCEPT ![cur.id] = @ \cup {cur.path}]
      BY <1>2 DEF Share, Grant
    <2> QED  BY <2>1, <2>2 DEF TypeOK
  <1>3. CASE UNCHANGED <<pc, cur>>
    <2>0. cur.id \in GraphId
      BY <1>3 DEF WorkInv
    <2>1. doc[cur.id] = None => doc'[cur.id] = None
      <3>1. ASSUME NEW i \in GraphId, UserEdit(i), doc[cur.id] = None
            PROVE  doc'[cur.id] = None
        BY <2>0, <3>1 DEF UserEdit, TypeOK
      <3>2. ASSUME NEW i \in GraphId, UserErase(i), doc[cur.id] = None
            PROVE  doc'[cur.id] = None
        BY <2>0, <3>2 DEF UserErase, TypeOK
      <3> QED
        BY <1>3, <3>1, <3>2, DocStays DEF Save, SaveFailed, OrphanSave, OrphanSaveFailed
    <2>2. ASSUME NEW i \in GraphId, UserErase(i)
          PROVE  doc'[i] = None /\ \A j \in GraphId : j # i => share'[j] = share[j]
      BY <2>2 DEF UserErase, TypeOK
    <2>3. ~ \E i \in GraphId, p \in Path : UserRevoke(i, p)
      BY <1>1 DEF UserRevoke
    <2>4. \/ UNCHANGED share
          \/ \E i \in GraphId : UserErase(i)
      BY <1>3, <2>3, ShareStays
      DEF Share, ShareFailed, Unshare, UnshareFailed, OrphanUnshare,
         OrphanUnshareFailed, NextGroup
    <2> QED  BY <1>1, <1>3, <2>0, <2>1, <2>2, <2>4 DEF NewPathGranted
  <1>4. PassStep
    BY PassSteps
  <1> QED
    BY <1>2, <1>3, <1>4
    DEF PassStep, Orphaning, Resting, Passing, Create, Update, Save, Defaults, Orphan,
       OrphanUnshare

LEMMA AccessHolds == Spec => [](TypeOK /\ WorkInv /\ OneInv /\ WriteInv /\ AccessInv)
  <1>1. TypeOK /\ WorkInv /\ OneInv /\ WriteInv /\ AccessInv /\ [Next]_vars => AccessInv'
    BY NextKeepsKnown, NextKeepsAdopted, NextKeepsLost, NextKeepsGranted DEF AccessInv
  <1> QED  BY <1>1, InitAccess, WritesHold, PTL DEF Spec

\* No withdrawal empties a graph's rights while its group exists and is not one
\* that the filter has hidden.
KeepsAccess ==
    \A i \in GraphId :
       /\ Ends({"unshare", "withdraw"})
       /\ \A kind \in {"revoke", "torn"} : budget[kind] = Budget[kind]
       /\ share[i] # {} /\ share'[i] = {} /\ doc[i] = doc'[i]
       /\ doc[i].gid # None
       => realm[doc[i].gid] = Gone \/ doc[i].gid \in hidden

LEMMA NextKeepsAccess ==
  ASSUME TypeOK, WorkInv, OneInv, WriteInv, AccessInv, [Next]_vars
  PROVE  KeepsAccess
  <1> SUFFICES ASSUME NEW i \in GraphId,
                      pc \in {"unshare", "withdraw"}, pc' # pc,
                      budget["revoke"] = Budget["revoke"], Whole,
                      share[i] # {}, share'[i] = {}, doc[i] = doc'[i],
                      doc[i].gid # None
               PROVE  realm[doc[i].gid] = Gone \/ doc[i].gid \in hidden
    BY DEF KeepsAccess, Ends, Whole
  <1>2. cur.id \in GraphId /\ cur.path \in Path \cup {None}
    BY DEF WorkInv, TypeOK, Work
  <1>3. CASE Unshare \/ UnshareFailed
    <2>1. /\ Withdraw(cur.id, cur.prev) /\ pc = "unshare"
      BY <1>3 DEF Unshare, UnshareFailed
    <2>2. i = cur.id /\ share'[i] = share[i] \ {cur.prev} /\ doc[i] # None
      BY <1>2, <2>1 DEF Withdraw, TypeOK
    <2>3. cur.path \in share[i] /\ cur.prev # cur.path
      BY <2>1, <2>2 DEF AccessInv, NewPathGranted, WriteInv
    <2> QED  BY <2>2, <2>3
  <1>4. CASE OrphanUnshare \/ OrphanUnshareFailed
    <2>1. /\ Withdraw(cur.id, cur.path) /\ pc = "withdraw"
      BY <1>4 DEF OrphanUnshare, OrphanUnshareFailed
    <2>2. i = cur.id /\ doc[i] # None
      BY <1>2, <2>1 DEF Withdraw, TypeOK
    <2>3. groupAt # NoGroups /\ \A p \in Path : groupAt[p] # doc[i].gid
      BY <2>1, <2>2 DEF AccessInv, LostHaveNoGroup, OfNoGroup, Orphaning
    <2> QED  BY <2>2, <2>3 DEF AccessInv, KnownGroups
  <1> QED
    BY <1>3, <1>4, ShareStays
    DEF Share, ShareFailed, UserErase, UserRevoke, control

\* As long as nobody else withdraws rights and every walk of the tree is whole,
\* the service takes the last share of a graph away only when the group of the
\* graph exists no more or has been where the filter hides it, however old its
\* tree and its listing are.
THEOREM AccessIsKept == Spec => GroupKeepsAccess
  <1>1. TypeOK /\ WorkInv /\ OneInv /\ WriteInv /\ AccessInv /\ [Next]_vars
           => [KeepsAccess]_vars
    BY NextKeepsAccess
  <1>2. Spec => [][KeepsAccess]_vars
    BY <1>1, AccessHolds, PTL DEF Spec
  <1> QED  BY <1>2 DEF GroupKeepsAccess, KeepsAccess

-----------------------------------------------------------------------------
(* Names, when nobody edits a graph between the listing and the writes *)

NamesListed ==
    pc \in Passing \cup Orphaning =>
       \A i \in GraphId :
          seen[i] # None /\ doc[i] # None /\ doc[i].root = Own => seen[i].root = Own

\* What a step makes of a graph that carries a user's name.
LEMMA OwnNameWritten ==
  ASSUME TypeOK, WorkInv, WriteInv, pc \in {"save", "clear"},
         NEW j \in GraphId, Store(j), NEW i \in GraphId, seen[i] # None
  PROVE  doc'[i] = doc[i] \/ (i = j /\ (doc'[i].root = Own <=> seen[i].root = Own))
  <1>1. doc'[j] = cur.doc /\ (i # j => doc'[i] = doc[i])
    BY StoreChangesOne
  <1>2. i = j => cur.id = j
    BY DEF Store
  <1>3. i = j => (cur.doc.root = Own <=> seen[i].root = Own)
    BY <1>2, NoneAssumption DEF WriteInv
  <1> QED  BY <1>1, <1>3

LEMMA NextKeepsNames ==
  ~EditsDuringPass /\ TypeOK /\ WorkInv /\ WriteInv /\ NamesListed /\ [Next]_vars
     => NamesListed'
  <1> SUFFICES ASSUME ~EditsDuringPass, TypeOK, WorkInv, WriteInv, NamesListed,
                      [Next]_vars, pc' \in Passing \cup Orphaning
               PROVE  NamesListed'
    BY DEF NamesListed
  <1>1. CASE Defaults
    BY <1>1 DEF Defaults, NamesListed, world
  <1>2. CASE pc \in Passing \cup Orphaning /\ UNCHANGED seen
    <2> SUFFICES ASSUME NEW i \in GraphId, seen[i] # None, doc'[i] # None,
                        doc'[i].root = Own
                 PROVE  seen[i].root = Own
      BY <1>2 DEF NamesListed
    <2>1. CASE doc'[i] = doc[i]
      BY <1>2, <2>1 DEF NamesListed
    <2>2. ASSUME NEW j \in GraphId, pc \in {"save", "clear"}, Store(j)
          PROVE  seen[i].root = Own
      BY <2>1, <2>2, OwnNameWritten
    <2>3. ASSUME NEW j \in GraphId, UserEdit(j) PROVE FALSE
      BY <1>2, <2>3 DEF UserEdit, Resting, Passing, Orphaning
    <2>4. ASSUME NEW j \in GraphId, UserErase(j) PROVE doc'[i] = doc[i]
      BY <2>4 DEF UserErase, TypeOK
    <2> QED
      BY <2>1, <2>2, <2>3, <2>4, DocStays
      DEF Save, SaveFailed, OrphanSave, OrphanSaveFailed, WorkInv
  <1>3. PassStep
    BY PassSteps
  <1> QED
    BY <1>1, <1>2, <1>3
    DEF PassStep, Orphaning, Resting, Passing, Create, Update, Save, Share, Orphan,
       OrphanUnshare, pass

NamesStand ==
    \A i \in GraphId :
       /\ Ends({"save", "clear"}) /\ doc[i] # None /\ doc[i].root = Own
       => doc'[i] # None /\ doc'[i].root = Own

\* When users leave the graphs alone while a pass is at work, a name they gave
\* a root survives every rename, adoption and restart.
THEOREM UserNamesStand == ~EditsDuringPass => (Spec => UserNameStands)
  <1> SUFFICES ASSUME ~EditsDuringPass PROVE Spec => UserNameStands
    OBVIOUS
  <1>1. Init => NamesListed
    BY DEF Init, Started, NamesListed, Passing, Orphaning
  <1>2. TypeOK /\ WorkInv /\ WriteInv /\ NamesListed /\ [Next]_vars => NamesListed'
    BY NextKeepsNames
  <1>3. TypeOK /\ WorkInv /\ WriteInv /\ NamesListed /\ [Next]_vars => NamesStand
    <2> SUFFICES ASSUME TypeOK, WorkInv, WriteInv, NamesListed, [Next]_vars,
                        NEW i \in GraphId, Ends({"save", "clear"}),
                        doc[i] # None, doc[i].root = Own
                 PROVE  doc'[i] # None /\ doc'[i].root = Own
      BY DEF NamesStand
    <2>1. pc \in {"save", "clear"} /\ pc' # pc
      BY DEF Ends
    <2>2. ASSUME NEW j \in GraphId, Store(j)
          PROVE  doc'[i] # None /\ doc'[i].root = Own
      <3>1. doc'[j] = cur.doc /\ (i # j => doc'[i] = doc[i])
        BY <2>2, StoreChangesOne
      <3>2. i = j => cur.id = i /\ cur.id # None
        BY <2>2, NoneAssumption DEF Store
      <3>3. i = j => seen[i].root = Own /\ seen[i] # None
        BY <2>1, <3>2 DEF WriteInv, NamesListed, Passing, Orphaning
      <3>4. i = j => cur.doc.root = Own /\ cur.doc # None
        BY <2>1, <3>2, <3>3, NoneAssumption DEF WriteInv, WorkInv
      <3> QED  BY <3>1, <3>4
    <2> QED
      BY <2>1, <2>2, DocStays
      DEF Save, SaveFailed, OrphanSave, OrphanSaveFailed, UserEdit, UserErase,
         control, WorkInv
  <1>4. TypeOK /\ WorkInv /\ WriteInv /\ NamesListed /\ [Next]_vars => [NamesStand]_vars
    BY <1>3
  <1>5. Spec => [][NamesStand]_vars
    BY <1>1, <1>2, <1>4, WritesHold, PTL DEF Spec
  <1> QED  BY <1>5 DEF UserNameStands, NamesStand

-----------------------------------------------------------------------------
(* Devices, until a rename, a failed call or a withdrawn right *)

Untroubled == \A kind \in {"rename", "fail", "regrant"} : budget[kind] = Budget[kind]

\* What the repository holds to begin with is held with rights: the devices of a
\* graph are of its group, and of the path on record.
HeldAtFirst ==
    \A r \in InitialRealm, h \in InitialRights, s \in InitialDoc, i \in GraphId :
       s[i] # None =>
          \A d \in s[i].nodes, p \in Path :
             (s[i].gid # None /\ r[s[i].gid] = p) \/ s[i].path = p => p \in h[d]

Holders(p) == {d \in Device : p \in rights[d]}

\* Where a group is, or where the service's tree still has it.
At(g, p) == realm[g] = p \/ groupAt[p] = g

OnePlace == \A g \in Group : \A p, q \in Path : At(g, p) /\ At(g, q) => p = q

ViewIsFresh == pc \notin {"groups", "devices"} => cached = rights

\* The graph belongs to what is at the path, or would if it lost its group id.
Belongs(gid, path, p) == (gid # None /\ At(gid, p)) \/ path = p

StoredIsHeld ==
    \A i \in GraphId : doc[i] # None =>
       \A p \in Path : Belongs(doc[i].gid, doc[i].path, p) => doc[i].nodes \subseteq Holders(p)

ListedIsHeld ==
    \A i \in GraphId : seen[i] # None =>
       \A p \in Path : Belongs(seen[i].gid, seen[i].path, p) => seen[i].nodes \subseteq Holders(p)

\* The listing has the graph for the group at the path.
Claims(p, i) ==
    /\ groupAt[p] # None /\ seen[i] # None
    /\ seen[i].gid = groupAt[p] \/ (seen[i].gid = None /\ seen[i].path = p)

Unclaimed(i) == \A p \in Path : ~Claims(p, i)

\* A listed graph has lost devices since, or it was brought up to date.
AsListed ==
    \A i \in GraphId : doc[i] # None /\ seen[i] # None =>
       \/ doc[i].nodes \subseteq seen[i].nodes
       \/ \E p \in Path : Claims(p, i) /\ doc[i].nodes \subseteq Holders(p)

\* A group's graph is saved with all its devices, under the id it was found by.
SavedIsAll ==
    pc = "save" =>
       /\ cur.doc.nodes = Holders(cur.path) /\ cur.doc.path = cur.path
       /\ cur.id # None => Claims(cur.path, cur.id)

\* What is orphaned stands for no group of the tree, and is stored as listed.
LostIsUnclaimed ==
    pc \in Orphaning =>
       /\ \A i \in lost : Unclaimed(i)
       /\ pc \in {"withdraw", "clear"} =>
             Unclaimed(cur.id) /\ cur.doc.nodes = seen[cur.id].nodes /\ cur.doc.path = None

ForgetsInv ==
    /\ \A kind \in Outside : budget[kind] <= Budget[kind]
    /\ pc \in Resting => seen = NoGraphs
    /\ \A i \in GraphId : seen[i] # None /\ seen[i].gid # None => realm[seen[i].gid] # None

HeldInv == OnePlace /\ ViewIsFresh /\ StoredIsHeld /\ ListedIsHeld

StayInv == ForgetsInv /\ (Untroubled => HeldInv /\ AsListed /\ SavedIsAll /\ LostIsUnclaimed)

\* The listing is forgotten before anything else is begun.
LEMMA SeenStays ==
  ASSUME TypeOK, [Next]_vars
  PROVE  \/ UNCHANGED seen /\ (pc' \in Resting => pc \in Resting)
         \/ seen' = NoGraphs
         \/ Defaults
  <1> USE DEF vars, pass, control, Resting
  <1>1. ASSUME Working
        PROVE  \/ UNCHANGED seen /\ (pc' \in Resting => pc \in Resting)
               \/ seen' = NoGraphs
               \/ Defaults
    BY <1>1
    DEF Working, Resolved, DrainTake, ReadGroups, ReadDevices, NothingToDo, Create, Update,
       Save, Share, ShareFailed, Unshare, UnshareFailed, NextGroup, PassDone, Leave, Orphan,
       OrphanUnshare, OrphanUnshareFailed, OrphanSave, OrphansDone
  <1>2. ASSUME Failing
        PROVE  (UNCHANGED seen /\ (pc' \in Resting => pc \in Resting)) \/ seen' = NoGraphs
    BY <1>2
    DEF Failing, ReadMistaken, PollMistaken, ReadFailed, DefaultsFailed, Leave, GroupFailed,
       SaveFailed, OrphanSaveFailed, NextGroup
  <1>3. ASSUME Idle PROVE UNCHANGED seen /\ (pc' \in Resting => pc \in Resting)
    BY <1>3 DEF Idle, SafetyNet, PollGroups, Receive, Woken, ResolveDevice, ResolveGraph
  <1>4. ASSUME Others PROVE UNCHANGED <<seen, pc>>
    BY <1>4 DEF Others, RenameGroup, CreateGroup, DeleteGroup, Regrant, UserRevoke,
       UserEdit, UserErase, WishAll, WishGroup
  <1>5. ASSUME Crash PROVE seen' = NoGraphs
    BY <1>5 DEF Crash
  <1>6. CASE UNCHANGED vars
    BY <1>6
  <1> QED  BY <1>1, <1>2, <1>3, <1>4, <1>5, <1>6 DEF Next, Service

\* The device view is read before anything is listed.
LEMMA CachedStays ==
  ASSUME TypeOK, [Next]_vars
  PROVE  /\ UNCHANGED rights \/ Spend("regrant")
         /\ \/ cached' = cached /\ (pc \in {"groups", "devices"} => pc' \in {"groups", "devices"})
            \/ cached' = rights
            \/ \E d \in Device : cached' = [cached EXCEPT ![d] = rights[d]] /\ pc = "resolve"
            \/ pc' = "groups"
            \/ Spend("fail")
  <1> DEFINE Fresh == \/ cached' = cached /\ (pc \in {"groups", "devices"} => pc' \in {"groups", "devices"})
                      \/ cached' = rights
                      \/ \E d \in Device : cached' = [cached EXCEPT ![d] = rights[d]] /\ pc = "resolve"
                      \/ pc' = "groups"
                      \/ Spend("fail")
  <1> USE DEF vars, world, view, control
  <1>1. ASSUME Working PROVE UNCHANGED rights /\ Fresh
    BY <1>1
    DEF Working, Resolved, DrainTake, ReadGroups, ReadDevices, Defaults, NothingToDo,
       Create, Update, Save, Share, ShareFailed, Unshare, UnshareFailed, PassDone, Orphan,
       OrphanUnshare, OrphanUnshareFailed, OrphanSave, OrphansDone
  <1>2. ASSUME Failing PROVE UNCHANGED rights /\ Fresh
    BY <1>2 DEF Failing, ReadMistaken, PollMistaken, ReadFailed, DefaultsFailed, GroupFailed,
       SaveFailed, OrphanSaveFailed
  <1>3. ASSUME Idle PROVE UNCHANGED rights /\ Fresh
    BY <1>3 DEF Idle, SafetyNet, PollGroups, Receive, Woken, ResolveDevice, ResolveGraph
  <1>4. ASSUME Others PROVE (UNCHANGED rights \/ Spend("regrant")) /\ Fresh
    BY <1>4 DEF Others, RenameGroup, CreateGroup, DeleteGroup, Regrant, UserRevoke,
       UserEdit, UserErase, WishAll, WishGroup
  <1>5. ASSUME Crash PROVE UNCHANGED rights /\ Fresh
    BY <1>5 DEF Crash
  <1>6. CASE UNCHANGED vars
    BY <1>6
  <1> HIDE DEF Fresh
  <1>7. (UNCHANGED rights \/ Spend("regrant")) /\ Fresh
    BY <1>1, <1>2, <1>3, <1>4, <1>5, <1>6 DEF Next, Service, Fresh
  <1> QED  BY <1>7 DEF Fresh

LEMMA InitStay == HeldAtFirst /\ Init => StayInv
  <1> SUFFICES ASSUME HeldAtFirst, Init PROVE StayInv
    OBVIOUS
  <1>1. ForgetsInv
    BY BudgetAssumption DEF Init, Started, ForgetsInv, NoGraphs
  <1>2. \A g \in Group : \A p \in Path : At(g, p) <=> realm[g] = p
    BY NoneAssumption DEF At, Init, Started, NoGroups
  <1>3. OnePlace /\ ViewIsFresh /\ ListedIsHeld
    BY <1>2 DEF OnePlace, ViewIsFresh, ListedIsHeld, Init, Started, NoGraphs
  <1>4. StoredIsHeld
    <2> SUFFICES ASSUME NEW i \in GraphId, doc[i] # None, NEW p \in Path,
                        Belongs(doc[i].gid, doc[i].path, p), NEW d \in doc[i].nodes
                 PROVE  d \in Holders(p)
      BY DEF StoredIsHeld
    <2>1. doc[i] \in Doc
      BY InitialAssumption DEF Init
    <2>2. d \in Device /\ doc[i].gid \in Group \cup {None}
      BY <2>1 DEF Doc
    <2>3. (doc[i].gid # None /\ realm[doc[i].gid] = p) \/ doc[i].path = p
      BY <1>2, <2>2 DEF Belongs
    <2>4. p \in rights[d]
      BY <2>3 DEF Init, HeldAtFirst
    <2> QED  BY <2>2, <2>4 DEF Holders
  <1>5. AsListed /\ SavedIsAll /\ LostIsUnclaimed
    BY DEF Init, Started, AsListed, SavedIsAll, LostIsUnclaimed, NoGraphs, Orphaning
  <1> QED  BY <1>1, <1>3, <1>4, <1>5 DEF StayInv, HeldInv

\* Trouble once begun never ends.
LEMMA TroubleStays ==
  ASSUME TypeOK, ForgetsInv, [Next]_vars
  PROVE  /\ \A kind \in Outside : budget'[kind] <= Budget[kind]
         /\ Untroubled' => Untroubled /\ ~Spend("rename") /\ ~Spend("fail") /\ ~Spend("regrant")
  <1>1. "any" \in Outside /\ {"rename", "fail", "regrant"} \subseteq Outside \ {"any"}
    BY DEF Outside
  <1>2. \A kind \in Outside \ {"any"} :
           /\ budget'[kind] <= budget[kind]
           /\ Spend(kind) => budget'[kind] < budget[kind]
           /\ budget[kind] \in Nat /\ budget'[kind] \in Nat /\ Budget[kind] \in Nat
    BY BudgetFalls
  <1>3. budget'["any"] <= Budget["any"]
    <2>1. budget["any"] \in Nat /\ Budget["any"] \in Nat /\ budget["any"] <= Budget["any"]
      BY <1>1, BudgetAssumption DEF TypeOK, ForgetsInv
    <2>2. budget'["any"] = budget["any"] \/ budget'["any"] = budget["any"] - 1
      <3>1. ASSUME NEW kind \in Outside, Spend(kind)
            PROVE  budget'["any"] = budget["any"] \/ budget'["any"] = budget["any"] - 1
        BY <1>1, <3>1 DEF Spend, TypeOK
      <3> QED  BY <3>1, BudgetStays
    <2> QED  BY <2>1, <2>2
  <1>4. \A kind \in Outside \ {"any"} :
           /\ budget'[kind] <= Budget[kind]
           /\ budget'[kind] = Budget[kind] => budget[kind] = Budget[kind] /\ ~Spend(kind)
    <2> SUFFICES ASSUME NEW kind \in Outside \ {"any"}
                 PROVE  /\ budget'[kind] <= Budget[kind]
                        /\ budget'[kind] = Budget[kind] => budget[kind] = Budget[kind] /\ ~Spend(kind)
      OBVIOUS
    <2>1. budget[kind] <= Budget[kind]
      BY DEF ForgetsInv
    <2> QED  BY <1>2, <2>1
  <1> QED  BY <1>1, <1>3, <1>4 DEF Untroubled

LEMMA NextForgets ==
  TypeOK /\ WorkInv /\ OneInv /\ KnownGroups /\ ForgetsInv /\ [Next]_vars => ForgetsInv'
  <1> SUFFICES ASSUME TypeOK, WorkInv, OneInv, KnownGroups, ForgetsInv, [Next]_vars
               PROVE  ForgetsInv'
    OBVIOUS
  <1>1. \A kind \in Outside : budget'[kind] <= Budget[kind]
    BY TroubleStays
  <1>2. pc' \in Resting => seen' = NoGraphs
    BY SeenStays DEF ForgetsInv, Resting, Defaults
  <1>3. \A g \in Group : realm[g] # None => realm'[g] # None
    <2>1. ASSUME NEW g \in Group, NEW h \in Group,
                 DeleteGroup(h) \/ \E p \in Path : RenameGroup(h, p) \/ CreateGroup(h, p),
                 realm[g] # None
          PROVE  realm'[g] # None
      BY <2>1, NoneAssumption DEF DeleteGroup, RenameGroup, CreateGroup, Place, TypeOK
    <2> QED  BY <2>1, RealmStays
  <1>4. \A i \in GraphId : seen'[i] # None /\ seen'[i].gid # None => realm'[seen'[i].gid] # None
    <2>1. CASE UNCHANGED seen
      <3>1. \A i \in GraphId : seen[i] # None => seen[i].gid \in Group \cup {None}
        BY DEF TypeOK, Doc
      <3> QED  BY <1>3, <2>1, <3>1 DEF ForgetsInv
    <2>2. CASE seen' = NoGraphs
      BY <2>2 DEF NoGraphs
    <2>3. CASE Defaults
      BY <2>3 DEF Defaults, world, KnownGroups
    <2> QED  BY <2>1, <2>2, <2>3, SeenStays
  <1> QED  BY <1>1, <1>2, <1>4 DEF ForgetsInv

\* No place is new to a group that is named anywhere.
LEMMA PlacesStay ==
  ASSUME TypeOK, KnownGroups, ~Spend("rename"), [Next]_vars, NEW g \in Group, NEW p \in Path, At(g, p)'
  PROVE  At(g, p) \/ (realm[g] = None /\ realm'[g] = p /\ \A q \in Path : groupAt'[q] # g)
  <1>1. groupAt'[p] = g => At(g, p)
    <2>1. CASE UNCHANGED groupAt
      BY <2>1 DEF At
    <2>2. CASE TreeTaken(Tree)
      BY <2>2, TreeAnswers, NoneAssumption DEF TreeTaken, At
    <2>3. CASE TreeTaken(NoGroups)
      BY <2>3, NoneAssumption DEF TreeTaken, NoGroups
    <2>4. CASE TornTaken
      BY <2>4, TreeAnswers, MistakenAnswers, NoneAssumption DEF TornTaken, At
    <2> QED  BY <2>1, <2>2, <2>3, <2>4, GroupAtStays
  <1>2. ASSUME realm'[g] = p
        PROVE  realm[g] = p \/ (realm[g] = None /\ UNCHANGED groupAt)
    <2>1. CASE UNCHANGED realm
      BY <1>2, <2>1
    <2>2. ASSUME NEW h \in Group, DeleteGroup(h)
          PROVE  realm[g] = p
      BY <1>2, <2>2, NoneAssumption DEF DeleteGroup, TypeOK
    <2>3. ASSUME NEW h \in Group, NEW q \in Path, CreateGroup(h, q)
          PROVE  realm[g] = p \/ (realm[g] = None /\ UNCHANGED groupAt)
      BY <1>2, <2>3 DEF CreateGroup, Place, TypeOK, view
    <2>4. \A h \in Group, q \in Path : ~RenameGroup(h, q)
      BY DEF RenameGroup
    <2> QED  BY <2>1, <2>2, <2>3, <2>4, RealmStays
  <1>3. realm[g] = None => \A q \in Path : groupAt[q] # g
    BY NoneAssumption DEF KnownGroups
  <1> QED  BY <1>1, <1>2, <1>3 DEF At

LEMMA NextKeepsPlaces ==
  ASSUME TypeOK, KnownGroups, ~Spend("rename"), [Next]_vars, OnePlace
  PROVE  OnePlace'
  <1> SUFFICES ASSUME NEW g \in Group, NEW p \in Path, NEW q \in Path, At(g, p)', At(g, q)'
               PROVE  p = q
    BY DEF OnePlace
  <1>1. /\ At(g, p) \/ (realm[g] = None /\ realm'[g] = p /\ \A r \in Path : groupAt'[r] # g)
        /\ At(g, q) \/ (realm[g] = None /\ realm'[g] = q /\ \A r \in Path : groupAt'[r] # g)
    BY PlacesStay
  <1>2. realm[g] = None => ~At(g, p) /\ ~At(g, q)
    BY NoneAssumption DEF KnownGroups, At
  <1>3. At(g, p) /\ At(g, q) => p = q
    BY DEF OnePlace
  <1> QED  BY <1>1, <1>2, <1>3

LEMMA NextKeepsView ==
  ASSUME TypeOK, ~Spend("fail"), ~Spend("regrant"), [Next]_vars, ViewIsFresh
  PROVE  ViewIsFresh'
  <1>1. UNCHANGED rights
    BY CachedStays
  <1>2. ASSUME NEW d \in Device, cached' = [cached EXCEPT ![d] = rights[d]], pc = "resolve"
        PROVE  cached' = rights
    <2>1. cached = rights
      BY <1>2 DEF ViewIsFresh
    <2> QED  BY <1>2, <2>1 DEF TypeOK
  <1> QED  BY <1>1, <1>2, CachedStays DEF ViewIsFresh

\* What was held stays held: the rights are the same, and a group is nowhere new.
LEMMA BelongsStays ==
  ASSUME TypeOK, KnownGroups, ~Spend("rename"), [Next]_vars,
         NEW gid \in Group \cup {None}, NEW path, NEW p \in Path,
         gid # None => realm[gid] # None,
         (gid # None /\ (realm'[gid] = p \/ groupAt'[p] = gid)) \/ path = p
  PROVE  Belongs(gid, path, p)
  <1>1. CASE path = p
    BY <1>1 DEF Belongs
  <1>2. CASE gid # None /\ (realm'[gid] = p \/ groupAt'[p] = gid)
    <2>1. At(gid, p)'
      BY <1>2 DEF At
    <2>2. gid \in Group /\ realm[gid] # None
      BY <1>2
    <2> QED  BY <1>2, <2>1, <2>2, PlacesStay DEF Belongs
  <1> QED  BY <1>1, <1>2

\* A group's graph, about to be saved, is of this group and no other.
LEMMA SavedIsHeld ==
  ASSUME TypeOK, WorkInv, OneInv, OnePlace, SavedIsAll, pc = "save", NEW p \in Path,
         Belongs(cur.doc.gid, cur.doc.path, p)
  PROVE  cur.doc.nodes = Holders(p)
  <1>1. cur.path \in Path /\ groupAt[cur.path] = cur.doc.gid /\ cur.doc.gid # None
    BY DEF WorkInv, OneInv, SavedIsTheOnlyOne
  <1>2. At(cur.doc.gid, cur.path) /\ cur.doc.gid \in Group
    BY <1>1 DEF At, TypeOK
  <1>3. At(cur.doc.gid, p) => p = cur.path
    BY <1>1, <1>2 DEF OnePlace
  <1> QED  BY <1>3 DEF Belongs, SavedIsAll

LEMMA NextKeepsStored ==
  ASSUME TypeOK, WorkInv, OneInv, KnownGroups, HeldInv, SavedIsAll, LostIsUnclaimed,
         ~Spend("rename"), ~Spend("regrant"), [Next]_vars
  PROVE  StoredIsHeld'
  <1>1. UNCHANGED rights
    BY CachedStays
  <1>2. \A p \in Path : Holders(p)' = Holders(p)
    BY <1>1 DEF Holders
  <1>3. \A i \in GraphId : doc[i] # None => doc[i] \in Doc /\ doc[i].gid \in Group \cup {None}
    BY DEF TypeOK, Doc
  <1>4. \A i \in GraphId : doc[i] # None /\ doc[i].gid # None => realm[doc[i].gid] # None
    BY DEF KnownGroups
  <1> SUFFICES ASSUME NEW i \in GraphId, doc'[i] # None, NEW p \in Path,
                      \/ doc'[i].gid # None /\ (realm'[doc'[i].gid] = p \/ groupAt'[p] = doc'[i].gid)
                      \/ doc'[i].path = p
               PROVE  doc'[i].nodes \subseteq Holders(p)
    BY <1>2 DEF StoredIsHeld, Belongs, At
  <1>5. ASSUME doc[i] # None, doc'[i].gid \in {doc[i].gid, None},
               doc'[i].path \in {doc[i].path, None}, doc'[i].nodes \subseteq doc[i].nodes
        PROVE  doc'[i].nodes \subseteq Holders(p)
    <2>1. Belongs(doc[i].gid, doc[i].path, p)
      BY <1>3, <1>4, <1>5, BelongsStays, NoneAssumption
    <2>2. doc[i].nodes \subseteq Holders(p)
      BY <1>5, <2>1 DEF HeldInv, StoredIsHeld
    <2> QED  BY <1>5, <2>2
  <1>6. ASSUME NEW j \in GraphId, pc = "save", Store(j) PROVE doc'[i].nodes \subseteq Holders(p)
    <2>1. doc'[j] = cur.doc /\ (i # j => doc'[i] = doc[i])
      BY <1>6, StoreChangesOne
    <2>2. CASE i # j
      BY <1>5, <2>1, <2>2
    <2>3. CASE i = j
      <3>1. groupAt[cur.path] = cur.doc.gid /\ cur.doc.gid # None /\ cur.path \in Path
        BY <1>6 DEF OneInv, SavedIsTheOnlyOne, WorkInv
      <3>2. cur.doc.gid \in Group /\ realm[cur.doc.gid] # None
        BY <3>1 DEF KnownGroups, TypeOK
      <3>3. Belongs(cur.doc.gid, cur.doc.path, p)
        BY <2>1, <2>3, <3>1, <3>2, BelongsStays
      <3>4. cur.doc.nodes = Holders(p)
        BY <1>6, <3>3, SavedIsHeld DEF HeldInv
      <3> QED  BY <2>1, <2>3, <3>4
    <2> QED  BY <2>2, <2>3
  <1>7. ASSUME pc = "clear", Store(cur.id) PROVE doc'[i].nodes \subseteq Holders(p)
    <2>1. cur.id \in GraphId /\ cur.doc.gid = None /\ cur.doc.path = None
      BY <1>7 DEF WorkInv, OneInv, ClearedHasNone, LostIsUnclaimed, Orphaning
    <2>2. doc'[cur.id] = cur.doc /\ (i # cur.id => doc'[i] = doc[i])
      BY <1>7, <2>1, StoreChangesOne
    <2>3. i # cur.id
      BY <2>1, <2>2, NoneAssumption
    <2> QED  BY <1>5, <2>2, <2>3
  <1>8. ASSUME NEW j \in GraphId, UserEdit(j) PROVE doc'[i].nodes \subseteq Holders(p)
    <2>1. /\ doc[i] # None
          /\ doc'[i].gid \in {doc[i].gid, None} /\ doc'[i].path \in {doc[i].path, None}
          /\ doc'[i].nodes \subseteq doc[i].nodes
      BY <1>8 DEF UserEdit, TypeOK, Doc
    <2> QED  BY <1>5, <2>1
  <1>9. ASSUME NEW j \in GraphId, UserErase(j) PROVE doc'[i].nodes \subseteq Holders(p)
    <2>1. doc'[i] = doc[i]
      BY <1>9 DEF UserErase, TypeOK
    <2> QED  BY <1>5, <2>1
  <1>10. CASE UNCHANGED doc
    BY <1>5, <1>10
  <1> QED
    BY <1>6, <1>7, <1>8, <1>9, <1>10, DocStays DEF Save, SaveFailed, OrphanSave, OrphanSaveFailed

LEMMA NextKeepsListed ==
  ASSUME TypeOK, KnownGroups, ForgetsInv, HeldInv,
         ~Spend("rename"), ~Spend("regrant"), [Next]_vars
  PROVE  ListedIsHeld'
  <1>1. \A p \in Path : Holders(p)' = Holders(p)
    BY CachedStays DEF Holders
  <1>2. CASE seen' = NoGraphs
    BY <1>2 DEF ListedIsHeld, NoGraphs
  <1>3. CASE Defaults
    <2>1. seen' = doc /\ UNCHANGED <<realm, groupAt>>
      BY <1>3 DEF Defaults, world, view
    <2> QED  BY <1>1, <2>1 DEF HeldInv, StoredIsHeld, ListedIsHeld, Belongs, At
  <1>4. CASE UNCHANGED seen
    <2> SUFFICES ASSUME NEW i \in GraphId, seen[i] # None, NEW p \in Path,
                        \/ seen[i].gid # None /\ (realm'[seen[i].gid] = p \/ groupAt'[p] = seen[i].gid)
                        \/ seen[i].path = p
                 PROVE  seen[i].nodes \subseteq Holders(p)
      BY <1>1, <1>4 DEF ListedIsHeld, Belongs, At
    <2>1. seen[i].gid \in Group \cup {None} /\ (seen[i].gid # None => realm[seen[i].gid] # None)
      BY DEF TypeOK, Doc, ForgetsInv
    <2>2. Belongs(seen[i].gid, seen[i].path, p)
      BY <2>1, BelongsStays
    <2> QED  BY <2>2 DEF HeldInv, ListedIsHeld
  <1> QED  BY <1>2, <1>3, <1>4, SeenStays

\* During a pass neither the listing nor the tree is read again.
LEMMA PassKeepsListing ==
  ASSUME TypeOK, [Next]_vars, pc' \notin Resting
  PROVE  UNCHANGED <<seen, groupAt>> \/ Defaults
  BY PassSteps DEF PassStep, Create, Update, Save, Orphan, Share, OrphanUnshare, view, pass

LEMMA ClaimsOnce ==
  ASSUME OneInv, NEW i, NEW p \in Path, NEW q \in Path, Claims(p, i), Claims(q, i)
  PROVE  p = q
  BY DEF Claims, OneInv, OnePathPerGroup

\* What is listed for a group is held at its path.
LEMMA ClaimedIsHeld ==
  ASSUME HeldInv, NEW i \in GraphId, NEW p \in Path, Claims(p, i)
  PROVE  seen[i].nodes \subseteq Holders(p)
  <1>1. Belongs(seen[i].gid, seen[i].path, p)
    BY DEF Claims, Belongs, At
  <1> QED  BY <1>1 DEF HeldInv, ListedIsHeld, Claims

\* No write takes a device from a graph.
LEMMA WritesKeepDevices ==
  ASSUME TypeOK, WorkInv, OneInv, HeldInv, AsListed, SavedIsAll, LostIsUnclaimed, WriteInv,
         NEW i \in GraphId, doc[i] # None,
         (\E j \in GraphId : pc = "save" /\ Store(j)) \/ (pc = "clear" /\ Store(cur.id))
  PROVE  doc[i].nodes \subseteq doc'[i].nodes
  <1>1. ASSUME NEW j \in GraphId, pc = "save", Store(j)
        PROVE  doc[i].nodes \subseteq doc'[i].nodes
    <2>1. doc'[j] = cur.doc /\ (i # j => doc'[i] = doc[i]) /\ (i = j => cur.id = i)
      BY <1>1, StoreChangesOne DEF Store
    <2>2. CASE i # j
      BY <2>1, <2>2
    <2>3. CASE i = j
      <3>1. Claims(cur.path, i) /\ cur.path \in Path /\ cur.doc.nodes = Holders(cur.path)
        BY <1>1, <2>1, <2>3, NoneAssumption DEF SavedIsAll, WorkInv
      <3>2. doc[i].nodes \subseteq Holders(cur.path)
        <4>1. CASE doc[i].nodes \subseteq seen[i].nodes
          BY <3>1, <4>1, ClaimedIsHeld
        <4>2. ASSUME NEW p \in Path, Claims(p, i), doc[i].nodes \subseteq Holders(p)
              PROVE  doc[i].nodes \subseteq Holders(cur.path)
          BY <3>1, <4>2, ClaimsOnce
        <4> QED  BY <3>1, <4>1, <4>2 DEF AsListed, Claims
      <3> QED  BY <2>1, <2>3, <3>1, <3>2
    <2> QED  BY <2>2, <2>3
  <1>2. ASSUME pc = "clear", Store(cur.id)
        PROVE  doc[i].nodes \subseteq doc'[i].nodes
    <2>1. cur.id \in GraphId /\ cur.id # None /\ seen[cur.id] # None
      BY <1>2, NoneAssumption DEF WorkInv, WriteInv
    <2>2. doc'[cur.id] = cur.doc /\ (i # cur.id => doc'[i] = doc[i])
      BY <1>2, <2>1, StoreChangesOne
    <2>3. Unclaimed(cur.id) /\ cur.doc.nodes = seen[cur.id].nodes
      BY <1>2 DEF LostIsUnclaimed, Orphaning
    <2>4. i = cur.id => doc[i].nodes \subseteq seen[i].nodes
      BY <2>1, <2>3 DEF AsListed, Unclaimed
    <2> QED  BY <2>2, <2>3, <2>4
  <1> QED  BY <1>1, <1>2

LEMMA NextKeepsAsListed ==
  ASSUME TypeOK, WorkInv, OneInv, HeldInv, AsListed, SavedIsAll, LostIsUnclaimed,
         ForgetsInv', ~Spend("regrant"), [Next]_vars
  PROVE  AsListed'
  <1>1. CASE pc' \in Resting
    <2>1. seen' = NoGraphs
      BY <1>1 DEF ForgetsInv
    <2> QED  BY <2>1 DEF AsListed, NoGraphs
  <1>2. CASE Defaults
    BY <1>2 DEF Defaults, world, AsListed
  <1>3. CASE UNCHANGED <<seen, groupAt>>
    <2>1. \A p \in Path : Holders(p)' = Holders(p)
      BY CachedStays DEF Holders
    <2>2. \A i \in GraphId, p \in Path : Claims(p, i)' <=> Claims(p, i)
      BY <1>3 DEF Claims
    <2> SUFFICES ASSUME NEW i \in GraphId, doc'[i] # None, seen[i] # None
                 PROVE  \/ doc'[i].nodes \subseteq seen[i].nodes
                        \/ \E p \in Path : Claims(p, i) /\ doc'[i].nodes \subseteq Holders(p)
      BY <1>3, <2>1, <2>2 DEF AsListed
    <2>3. ASSUME doc[i] # None, doc'[i].nodes \subseteq doc[i].nodes
          PROVE  \/ doc'[i].nodes \subseteq seen[i].nodes
                 \/ \E p \in Path : Claims(p, i) /\ doc'[i].nodes \subseteq Holders(p)
      BY <2>3 DEF AsListed
    <2>4. ASSUME NEW j \in GraphId, pc = "save", Store(j)
          PROVE  \/ doc'[i].nodes \subseteq seen[i].nodes
                 \/ \E p \in Path : Claims(p, i) /\ doc'[i].nodes \subseteq Holders(p)
      <3>1. doc'[j] = cur.doc /\ (i # j => doc'[i] = doc[i]) /\ (i = j => cur.id = i)
        BY <2>4, StoreChangesOne DEF Store
      <3>2. i = j => Claims(cur.path, i) /\ cur.path \in Path /\ cur.doc.nodes = Holders(cur.path)
        BY <2>4, <3>1, NoneAssumption DEF SavedIsAll, WorkInv
      <3> QED  BY <2>3, <3>1, <3>2
    <2>5. ASSUME pc = "clear", Store(cur.id)
          PROVE  \/ doc'[i].nodes \subseteq seen[i].nodes
                 \/ \E p \in Path : Claims(p, i) /\ doc'[i].nodes \subseteq Holders(p)
      <3>1. doc'[cur.id] = cur.doc /\ (i # cur.id => doc'[i] = doc[i])
        BY <2>5, StoreChangesOne DEF WorkInv
      <3>2. cur.doc.nodes = seen[cur.id].nodes
        BY <2>5 DEF LostIsUnclaimed, Orphaning
      <3> QED  BY <2>3, <3>1, <3>2
    <2>6. ASSUME NEW j \in GraphId, UserEdit(j) \/ UserErase(j)
          PROVE  doc[i] # None /\ doc'[i].nodes \subseteq doc[i].nodes
      BY <2>6 DEF UserEdit, UserErase, TypeOK, Doc
    <2>7. CASE UNCHANGED doc
      BY <2>3, <2>7
    <2> QED
      BY <2>3, <2>4, <2>5, <2>6, <2>7, DocStays
      DEF Save, SaveFailed, OrphanSave, OrphanSaveFailed
  <1> QED  BY <1>1, <1>2, <1>3, PassKeepsListing

LEMMA NextKeepsSaved ==
  ASSUME TypeOK, WorkInv, OneInv, HeldInv, SavedIsAll, ForgetsInv',
         ~Spend("fail"), ~Spend("regrant"), [Next]_vars
  PROVE  SavedIsAll'
  <1> SUFFICES ASSUME pc' = "save" PROVE SavedIsAll'
    BY DEF SavedIsAll
  <1>1. UNCHANGED rights
    BY CachedStays
  <1>2. CASE UNCHANGED <<pc, cur, seen, lost, groupAt>>
    BY <1>1, <1>2 DEF SavedIsAll, Holders, Claims
  <1>3. ASSUME NEW p \in Path, pc = "pass"
        PROVE  DevicesOfGroup(p) = {d \in Device : p \in rights'[d]}
    BY <1>1, <1>3 DEF HeldInv, ViewIsFresh, DevicesOfGroup
  <1>4. ASSUME NEW p \in Path, Create(p) PROVE SavedIsAll'
    <2>1. /\ cur'.doc.nodes = DevicesOfGroup(p) /\ cur'.doc.path = p
          /\ cur'.path = p /\ cur'.id = None /\ pc = "pass"
      BY <1>4 DEF Create
    <2> QED  BY <1>3, <2>1 DEF SavedIsAll, Holders
  <1>5. ASSUME NEW p \in Path, Update(p) PROVE SavedIsAll'
    <2> DEFINE i == Existing(p)
               old == seen[i]
    <2>1. /\ cur'.id = i /\ cur'.path = p /\ cur'.doc = Updated(old, p, {})
          /\ UNCHANGED <<seen, groupAt>> /\ pc = "pass" /\ groupAt[p] # None
      BY <1>5 DEF Update, view
    <2>2. Claims(p, i) /\ i \in GraphId
      BY <1>5, <2>1, ExistingIsListed DEF Update, Claims
    <2>3. old.nodes \subseteq DevicesOfGroup(p)
      <3>1. old.nodes \subseteq Holders(p)
        BY <2>2, ClaimedIsHeld
      <3> QED  BY <1>1, <1>3, <2>1, <3>1 DEF Holders
    <2> HIDE DEF i, old
    <2>4. cur'.doc.nodes = DevicesOfGroup(p) /\ cur'.doc.path = p
      BY <2>1, <2>3 DEF Updated, Departed, Missing
    <2>5. /\ groupAt'[p] # None /\ seen'[i] # None
          /\ seen'[i].gid = groupAt'[p] \/ (seen'[i].gid = None /\ seen'[i].path = p)
      BY <2>1, <2>2 DEF Claims
    <2> QED  BY <1>3, <2>1, <2>4, <2>5 DEF SavedIsAll, Holders, Claims
  <1> QED
    BY <1>2, <1>4, <1>5, PassSteps
    DEF PassStep, Resting, Defaults, Save, Orphan, Share, OrphanUnshare

\* An orphan's group is not in the tree, nor is there a group at its path.
LEMMA OrphansAreUnclaimed ==
  ASSUME TypeOK, NEW i \in Orphans
  PROVE  Unclaimed(i)
  <1>1. \/ seen[i].gid # None /\ \A p \in Path : groupAt[p] # seen[i].gid
        \/ /\ seen[i].gid = None /\ seen[i].path \in Path
           /\ groupAt[seen[i].path] = None
    BY ByIdFinds, ByPathFinds, NoneAssumption DEF Orphans
  <1> QED  BY <1>1 DEF Unclaimed, Claims

LEMMA NextKeepsUnclaimed ==
  ASSUME TypeOK, WorkInv, LostIsUnclaimed, [Next]_vars
  PROVE  LostIsUnclaimed'
  <1> SUFFICES ASSUME pc' \in Orphaning PROVE LostIsUnclaimed'
    BY DEF LostIsUnclaimed
  <1>0. ASSUME UNCHANGED <<seen, groupAt>>
        PROVE  \A i \in GraphId : Unclaimed(i)' <=> Unclaimed(i)
    BY <1>0 DEF Unclaimed, Claims
  <1>01. lost \subseteq GraphId /\ (pc \in {"withdraw", "clear"} => cur.id \in GraphId)
    BY DEF TypeOK, WorkInv
  <1>1. CASE UNCHANGED <<pc, cur, seen, lost, groupAt>>
    BY <1>0, <1>01, <1>1 DEF LostIsUnclaimed, Orphaning
  <1>2. CASE /\ pc = "pass" /\ pc' = "orphans" /\ lost' = Orphans
             /\ UNCHANGED <<seen, groupAt>>
    <2>1. \A i \in Orphans : i \in GraphId /\ Unclaimed(i)
      BY OrphansAreListed, OrphansAreUnclaimed
    <2> QED  BY <1>0, <1>2, <2>1 DEF LostIsUnclaimed
  <1>3. CASE pc \in Orphaning /\ pc' = "orphans" /\ UNCHANGED <<seen, lost, groupAt>>
    BY <1>0, <1>01, <1>3 DEF LostIsUnclaimed
  <1>4. ASSUME NEW i \in GraphId, Orphan(i) PROVE LostIsUnclaimed'
    <2>1. /\ seen[i] \in Doc /\ i \in lost /\ pc = "orphans"
          /\ UNCHANGED <<seen, groupAt>> /\ lost' \subseteq lost
          /\ cur'.id = i /\ cur'.doc = [seen[i] EXCEPT !.gid = None, !.path = None]
      BY <1>4 DEF Orphan, TypeOK, WorkInv, view
    <2>2. cur'.doc.path = None /\ cur'.doc.nodes = seen[i].nodes
      BY <2>1 DEF Doc
    <2>3. Unclaimed(i)' /\ \A j \in lost' : Unclaimed(j)'
      BY <1>0, <1>01, <2>1 DEF LostIsUnclaimed, Orphaning
    <2>4. Unclaimed(cur.id)'
      BY <2>1, <2>3 DEF Unclaimed, Claims
    <2> QED  BY <2>1, <2>2, <2>3, <2>4 DEF LostIsUnclaimed
  <1>5. CASE OrphanUnshare
    <2>1. UNCHANGED <<seen, groupAt, lost, cur>> /\ pc = "withdraw"
      BY <1>5 DEF OrphanUnshare, pass, view
    <2> QED  BY <1>0, <1>01, <2>1 DEF LostIsUnclaimed, Orphaning
  <1> QED
    BY <1>1, <1>2, <1>3, <1>4, <1>5, PassSteps
    DEF PassStep, Resting, Orphaning, Passing, Create, Update, Save, Share, Defaults

LEMMA NextKeepsStay ==
  ASSUME TypeOK, WorkInv, OneInv, KnownGroups, StayInv, [Next]_vars
  PROVE  StayInv'
  <1>1. ForgetsInv'
    BY NextForgets DEF StayInv
  <1> SUFFICES ASSUME Untroubled' PROVE (HeldInv /\ AsListed /\ SavedIsAll /\ LostIsUnclaimed)'
    BY <1>1 DEF StayInv
  <1>2. Untroubled /\ ~Spend("rename") /\ ~Spend("fail") /\ ~Spend("regrant")
    BY TroubleStays DEF StayInv
  <1>3. ForgetsInv /\ HeldInv /\ AsListed /\ SavedIsAll /\ LostIsUnclaimed
    BY <1>2 DEF StayInv
  <1>4. OnePlace' /\ ViewIsFresh'
    BY <1>2, <1>3, NextKeepsPlaces, NextKeepsView DEF HeldInv
  <1>5. StoredIsHeld' /\ ListedIsHeld'
    BY <1>2, <1>3, NextKeepsStored, NextKeepsListed
  <1>6. AsListed' /\ SavedIsAll' /\ LostIsUnclaimed'
    BY <1>1, <1>2, <1>3, NextKeepsAsListed, NextKeepsSaved, NextKeepsUnclaimed
  <1> QED  BY <1>4, <1>5, <1>6 DEF HeldInv

DevicesStand ==
    \A i \in GraphId :
       /\ Ends({"save", "clear"}) /\ doc[i] # None
       /\ \A kind \in {"rename", "fail", "regrant"} : budget[kind] = Budget[kind]
       => doc[i].nodes \subseteq doc'[i].nodes

\* As long as no group is renamed, no call fails and no right is withdrawn, no
\* write takes a device out of a graph that was held with rights to begin with,
\* whatever is created, deleted, edited, erased, torn or restarted meanwhile.
THEOREM DevicesStayPut == HeldAtFirst => (Spec => DevicesStayUntilTrouble)
  <1> SUFFICES ASSUME HeldAtFirst PROVE Spec => DevicesStayUntilTrouble
    OBVIOUS
  <1>1. Init => StayInv
    BY InitStay
  <1>2. TypeOK /\ WorkInv /\ OneInv /\ AccessInv /\ StayInv /\ [Next]_vars => StayInv'
    BY NextKeepsStay DEF AccessInv
  <1>3. TypeOK /\ WorkInv /\ OneInv /\ WriteInv /\ StayInv /\ [Next]_vars => DevicesStand
    <2> SUFFICES ASSUME TypeOK, WorkInv, OneInv, WriteInv, StayInv, [Next]_vars,
                        NEW i \in GraphId, Ends({"save", "clear"}), doc[i] # None, Untroubled
                 PROVE  doc[i].nodes \subseteq doc'[i].nodes
      BY DEF DevicesStand, Untroubled
    <2>1. pc \in {"save", "clear"} /\ pc' # pc
      BY DEF Ends
    <2>2. CASE (\E j \in GraphId : pc = "save" /\ Store(j)) \/ (pc = "clear" /\ Store(cur.id))
      BY <2>2, WritesKeepDevices DEF StayInv
    <2>3. CASE UNCHANGED doc
      BY <2>3
    <2> QED
      BY <2>1, <2>2, <2>3, DocStays
      DEF Save, SaveFailed, OrphanSave, OrphanSaveFailed, UserEdit, UserErase, control
  <1>4. TypeOK /\ WorkInv /\ OneInv /\ WriteInv /\ StayInv /\ [Next]_vars => [DevicesStand]_vars
    BY <1>3
  <1>5. Spec => [][DevicesStand]_vars
    BY <1>1, <1>2, <1>4, AccessHolds, PTL DEF Spec
  <1> QED  BY <1>5 DEF DevicesStayUntilTrouble, DevicesStand

=============================================================================
