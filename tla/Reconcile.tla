------------------------------ MODULE Reconcile ------------------------------
(***************************************************************************)
(* What a reconciliation does: pkg/reconcile over pkg/graphs and           *)
(* pkg/cache, against a realm, a permission store and a graph repository   *)
(* that other people change while it works.                                *)
(*                                                                         *)
(* The world is kept in four variables (realm, rights, doc, share), the    *)
(* service in the rest.  The service is one goroutine: every foreign call  *)
(* it makes is a step of its own, and the world may change between any     *)
(* two of them.  How the goroutine is woken is RunLoop's subject, what a   *)
(* graph looks like inside is Structure's: here a graph is its set of      *)
(* devices and the attributes the service writes.                          *)
(***************************************************************************)
EXTENDS Integers, Sequences

CONSTANTS
    Group,        \* Keycloak group ids; an id is never used twice
    Path,         \* group paths: non-empty sequences of names
    Allowed,      \* those that group_include and group_exclude let through
    Device,       \* device ids
    GraphId,      \* graph ids, ordered as the repository sorts them
    Own,          \* a root name that a user chose
    None,         \* no such thing
    Gone,         \* the place of a deleted group
    InitialRealm, \* the realms to start from
    InitialRights,\* the device rights to start from
    InitialDoc,   \* the repositories to start from, none of them shared
    EditsDuringPass, \* users also edit between the listing and the writes
    Budget        \* how often each kind of outside event may happen

\* A nested group is named after itself and not after its ancestry.
GroupName(p) == p[Len(p)]

\* The names the service writes, and all a root can have.
Generated == {GroupName(p) : p \in Path}
Name      == Generated \cup {Own}

\* A graph as the repository stores it: gid and path are the two provenance
\* attributes, name the generated name on record, root the name shown.
Doc == [gid   : Group \cup {None},
        path  : Path \cup {None},
        name  : Generated,
        root  : Name,
        nodes : SUBSET Device]

\* What the service is writing: the graph (None until it has an id), the path
\* it is for, the path to withdraw afterwards, and the graph to be stored.
Work == [id   : GraphId \cup {None},
         path : Path \cup {None},
         prev : Path \cup {None},
         doc  : Doc \cup {None}]

NoWork == [id |-> None, path |-> None, prev |-> None, doc |-> None]

\* Kinds of outside events; "any" stands for all of them together.
Outside == {"rename", "create", "delete", "regrant", "edit", "erase", "revoke",
            "wish", "blind", "torn", "fail", "crash", "any"}

ASSUME PathAssumption    == \A p \in Path : p \in Seq(STRING) /\ p # <<>>
ASSUME AllowedAssumption == Allowed \subseteq Path
ASSUME GraphIdAssumption == GraphId \subseteq Nat
ASSUME NoneAssumption    == /\ None \notin Group /\ None \notin Path
                            /\ None \notin GraphId /\ None \notin Doc
                            /\ Gone \notin Path \cup {None}
                            /\ Own \notin Generated
ASSUME EditsAssumption   == EditsDuringPass \in BOOLEAN
ASSUME BudgetAssumption  == Budget \in [Outside -> Nat]
ASSUME InitialAssumption ==
    /\ \A r \in InitialRealm :
          /\ r \in [Group -> Path \cup {None}]
          /\ \A g, h \in Group : r[g] = r[h] /\ r[g] # None => g = h
    /\ InitialRights \subseteq [Device -> SUBSET Path]
    /\ InitialDoc \subseteq [GraphId -> Doc \cup {None}]
    /\ \A s \in InitialDoc : \A i, j \in GraphId :
          /\ s[i] # None /\ s[j] # None
          /\ s[i].gid # None /\ s[i].gid = s[j].gid
          => i = j
    /\ \A r \in InitialRealm, s \in InitialDoc, i \in GraphId :
          s[i] # None /\ s[i].gid # None => r[s[i].gid] # None

VARIABLES
    realm,        \* [Group -> path, None (not there yet) or Gone]
    hidden,       \* history: the groups that the filter has hidden at some time
    rights,       \* [Device -> paths of the groups that hold rights on it]
    doc,          \* [GraphId -> stored graph or None]
    share,        \* [GraphId -> paths that hold rights on the graph]
    pc,           \* where the loop is
    back,         \* where it goes after a full pass
    sweep,        \* this pass is a full one
    groupAt,      \* cache.groupByPat: [Path -> group or None]
    cached,       \* cache.deviceById: [Device -> its groups' paths]
    requested,    \* Reconciler.requested
    all,          \* Reconciler.all
    seen,         \* the Defaults listing of this pass
    todo,         \* group paths this pass still has to do
    lost,         \* graphs this pass still has to orphan
    cur,          \* the write in progress
    budget        \* outside events that may still happen

world   == <<realm, hidden, rights, doc, share>>
wishes  == <<requested, all>>
view    == <<groupAt, cached>>
control == <<pc, back, sweep>>
pass    == <<seen, todo, lost, cur>>
vars    == <<world, wishes, view, control, pass, budget>>

\* No pass is between its listing and its end.
Resting == {"select", "resolve", "drain", "groups", "devices", "list"}

States == Resting \cup {"pass", "save", "share", "unshare", "orphans", "withdraw", "clear"}

\* Every variable holds what the code can put there: the orphans of a pass are
\* graphs, a write in progress is for a path and of a whole graph.
TypeOK ==
    /\ realm \in [Group -> Path \cup {None, Gone}] /\ hidden \subseteq Group
    /\ rights \in [Device -> SUBSET Path]
    /\ doc \in [GraphId -> Doc \cup {None}]
    /\ share \in [GraphId -> SUBSET Path]
    /\ pc \in States /\ back \in {"select", "drain"} /\ sweep \in BOOLEAN
    /\ groupAt \in [Path -> Group \cup {None}]
    /\ cached \in [Device -> SUBSET Path]
    /\ requested \in SUBSET Path /\ all \in BOOLEAN
    /\ seen \in [GraphId -> Doc \cup {None}]
    /\ todo \in SUBSET Path
    /\ lost \in SUBSET GraphId
    /\ cur \in Work
    /\ budget \in [Outside -> Nat]

NoGroups  == [p \in Path |-> None]
NoDevices == [d \in Device |-> {}]
NoGraphs  == [i \in GraphId |-> None]
Unshared  == [i \in GraphId |-> {}]

\* The process starts: empty caches, and a full pass before anything else.
Started ==
    /\ pc = "groups" /\ back = "select" /\ sweep = TRUE
    /\ groupAt = NoGroups /\ cached = NoDevices
    /\ requested = {} /\ all = FALSE
    /\ seen = NoGraphs /\ todo = {} /\ lost = {} /\ cur = NoWork

Init ==
    /\ realm \in InitialRealm
    /\ hidden = {g \in Group : realm[g] \in Path \ Allowed}
    /\ rights \in InitialRights
    /\ doc \in InitialDoc
    /\ share = Unshared
    /\ budget = Budget
    /\ Started

Spend(kind) ==
    /\ budget[kind] > 0 /\ budget["any"] > 0
    /\ budget' = [budget EXCEPT ![kind] = @ - 1, !["any"] = @ - 1]

-----------------------------------------------------------------------------
(* What the service reads out of its caches and its listing *)

\* Keycloak's answer: the group at each path, if there is one and the filter
\* lets it through.
Tree ==
    [p \in Path |-> IF p \in Allowed /\ \E g \in Group : realm[g] = p
                    THEN CHOOSE g \in Group : realm[g] = p
                    ELSE None]

\* Other answers.  Keycloak may list nothing without the count giving it away; and
\* a walk under which groups are deleted or moved may leave out others that are
\* still there (GroupWalk, CalmListingsAreWhole).
Mistaken(kind) ==
    IF kind = "blind" THEN {NoGroups}
    ELSE {[p \in Path |-> IF p \in S THEN Tree[p] ELSE None] : S \in SUBSET Path}
         \ {Tree, NoGroups}

DevicesOfGroup(p) == {d \in Device : p \in cached[d]}

\* Two graphs claiming the same group: the lower id stands for it.
KeepLower(S) == IF S = {} THEN None ELSE CHOOSE i \in S : \A j \in S : i <= j

\* Mutant of ByPath: a graph is recognised by the name of its root.
ByRootName(p) == KeepLower({i \in GraphId : seen[i] # None /\ seen[i].gid = None
                                                          /\ seen[i].root = GroupName(p)})

ById(g)   == KeepLower({i \in GraphId : seen[i] # None /\ seen[i].gid = g})
ByPath(p) == KeepLower({i \in GraphId : seen[i] # None /\ seen[i].gid = None
                                                       /\ seen[i].path = p})

\* Mutant of Existing: the path is the key, the stable id is not looked at.
ExistingByPath(p) ==
    KeepLower({i \in GraphId : seen[i] # None /\ seen[i].path = p})

\* By the stable id first; by path only a graph that carries no id.
Existing(p) ==
    IF groupAt[p] # None /\ ById(groupAt[p]) # None THEN ById(groupAt[p]) ELSE ByPath(p)

-----------------------------------------------------------------------------
(* Run, resolve, drain and pollGroups *)

SafetyNet ==
    /\ pc = "select"
    /\ pc' = "groups" /\ back' = "select" /\ sweep' = TRUE
    /\ UNCHANGED <<world, wishes, view, pass, budget>>

\* The tree is re-read, the devices are not; what moved is asked for.
PollGroups ==
    /\ pc = "select"
    /\ groupAt' = Tree
    /\ requested' = requested \cup {p \in Path : Tree[p] # groupAt[p]}
    /\ UNCHANGED <<world, all, cached, control, pass, budget>>

PollMistaken ==
    /\ pc = "select"
    /\ \E kind \in {"blind", "torn"} : Spend(kind) /\ groupAt' \in Mistaken(kind)
    /\ requested' = requested \cup {p \in Path : groupAt'[p] # groupAt[p]}
    /\ UNCHANGED <<world, all, cached, control, pass>>

Receive ==
    /\ pc = "select"
    /\ pc' = "resolve"
    /\ UNCHANGED <<world, wishes, view, back, sweep, pass, budget>>

\* Mutant of ResolveDevice: a failed read is taken for a deleted device.
ResolveDeviceGone(d) ==
    /\ pc = "resolve"
    /\ \E S \in {rights[d], {}} : cached' = [cached EXCEPT ![d] = S]
    /\ requested' = requested \cup cached[d] \cup rights[d]
    /\ UNCHANGED <<world, all, groupAt, control, pass, budget>>

\* RefreshDevice, and a wish for every group the device was or is in.
ResolveDevice(d) ==
    /\ pc = "resolve"
    /\ cached' = [cached EXCEPT ![d] = rights[d]]
    /\ requested' = requested \cup cached[d] \cup rights[d]
    /\ UNCHANGED <<world, all, groupAt, control, pass, budget>>

\* The graph itself says which group it belongs to, unless it is gone.
ResolveGraph(i) ==
    /\ pc = "resolve"
    /\ IF doc[i] = None
       THEN /\ all' = TRUE
            /\ UNCHANGED requested
       ELSE /\ requested' = requested \cup ({doc[i].path} \ {None})
            /\ UNCHANGED all
    /\ UNCHANGED <<world, view, control, pass, budget>>

Resolved ==
    /\ pc = "resolve"
    /\ pc' = "drain"
    /\ UNCHANGED <<world, wishes, view, back, sweep, pass, budget>>

Woken ==
    /\ pc = "select"
    /\ requested # {} \/ all
    /\ pc' = "drain"
    /\ UNCHANGED <<world, wishes, view, back, sweep, pass, budget>>

DrainTake ==
    /\ pc = "drain"
    /\ requested' = {} /\ all' = FALSE
    /\ \/ /\ all
          /\ pc' = "groups" /\ back' = "drain" /\ sweep' = TRUE
          /\ UNCHANGED todo
       \/ /\ ~all /\ requested # {}
          /\ pc' = "list" /\ back' = "drain" /\ sweep' = FALSE
          /\ todo' = requested
       \/ /\ ~all /\ requested = {}
          /\ pc' = "select" /\ back' = "select" /\ sweep' = TRUE
          /\ UNCHANGED todo
    /\ UNCHANGED <<world, view, seen, lost, cur, budget>>

-----------------------------------------------------------------------------
(* Full: groups, devices, listing, one pass per group, orphans *)

\* The pass is over, or given up: what it held is forgotten.
Leave(state) ==
    /\ pc' = state
    /\ back' = "select" /\ sweep' = TRUE
    /\ seen' = NoGraphs /\ todo' = {} /\ lost' = {} /\ cur' = NoWork

\* Mutant of ReadGroups: the tree is merged into the cache.
ReadGroupsMerging ==
    /\ pc = "groups"
    /\ groupAt' = [p \in Path |-> IF Tree[p] # None THEN Tree[p] ELSE groupAt[p]]
    /\ pc' = "devices"
    /\ UNCHANGED <<world, wishes, cached, back, sweep, pass, budget>>

ReadGroups ==
    /\ pc = "groups"
    /\ groupAt' = Tree
    /\ pc' = "devices"
    /\ UNCHANGED <<world, wishes, cached, back, sweep, pass, budget>>

ReadMistaken ==
    /\ pc = "groups"
    /\ \E kind \in {"blind", "torn"} : Spend(kind) /\ groupAt' \in Mistaken(kind)
    /\ pc' = "devices"
    /\ UNCHANGED <<world, wishes, cached, back, sweep, pass>>

ReadDevices ==
    /\ pc = "devices"
    /\ cached' = rights
    /\ pc' = "list"
    /\ todo' = {p \in Path : groupAt[p] # None}
    /\ UNCHANGED <<world, wishes, groupAt, back, sweep, seen, lost, cur, budget>>

\* Any of the reads of a full pass fails, and the pass with it.
ReadFailed ==
    /\ pc \in {"groups", "devices"} \/ (pc = "list" /\ sweep)
    /\ Spend("fail")
    /\ Leave(back)
    /\ UNCHANGED <<world, wishes, view>>

Defaults ==
    /\ pc = "list"
    /\ seen' = doc
    /\ pc' = "pass"
    /\ UNCHANGED <<world, wishes, view, back, sweep, todo, lost, cur, budget>>

\* In drain the listing's failure is a return: the wishes taken are dropped.
DefaultsFailed ==
    /\ pc = "list" /\ ~sweep
    /\ Spend("fail")
    /\ Leave("select")
    /\ UNCHANGED <<world, wishes, view>>

-----------------------------------------------------------------------------
(* One group: group, create, update, rename *)

\* Unknown, or nothing there and nothing to put there.
NothingToDo(p) ==
    /\ pc = "pass" /\ p \in todo
    /\ groupAt[p] = None \/ (Existing(p) = None /\ DevicesOfGroup(p) = {})
    /\ todo' = todo \ {p}
    /\ UNCHANGED <<world, wishes, view, control, seen, lost, cur, budget>>

Create(p) ==
    /\ pc = "pass" /\ p \in todo
    /\ groupAt[p] # None /\ Existing(p) = None /\ DevicesOfGroup(p) # {}
    /\ cur' = [id |-> None, path |-> p, prev |-> None,
               doc |-> [gid |-> groupAt[p], path |-> p, name |-> GroupName(p),
                        root |-> GroupName(p), nodes |-> DevicesOfGroup(p)]]
    /\ pc' = "save"
    /\ todo' = todo \ {p}
    /\ UNCHANGED <<world, wishes, view, back, sweep, seen, lost, budget>>

\* The group carries another path than the graph: renamed, or moved.
Moved(old, p) == old.path # None /\ old.path # p

\* Mutant of Departed: the rename safeguard is missing.
DepartedAlways(old, p) == old.nodes \ DevicesOfGroup(p)

\* On that pass nobody has left, whatever the rights say.
Departed(old, p) == IF Moved(old, p) THEN {} ELSE old.nodes \ DevicesOfGroup(p)

Missing(old, p) == DevicesOfGroup(p) \ old.nodes

\* Mutant of Renamed: the name follows the group whoever wrote it.
RenamedAlways(old, p) == GroupName(p)

\* Only a name this service wrote follows the group; the record always does.
Renamed(old, p) == IF old.root = old.name THEN GroupName(p) ELSE old.root

\* The graph update arrives at when the devices in `stuck` cannot be detached.
Updated(old, p, stuck) ==
    [gid   |-> groupAt[p],
     path  |-> p,
     name  |-> GroupName(p),
     root  |-> Renamed(old, p),
     nodes |-> (old.nodes \ (Departed(old, p) \ stuck)) \cup Missing(old, p)]

\* Mutant of Changed: every pass writes.
ChangedAlways(old, p, stuck) == TRUE

\* Mutant of Changed: a root that is not named after the group is a change,
\* a name the user chose included.
ChangedByName(old, p, stuck) ==
    \/ Departed(old, p) \ stuck # {}
    \/ Missing(old, p) # {}
    \/ old.root # GroupName(p)
    \/ old.gid # groupAt[p]
    \/ old.path # p

\* The flag `changed` of update, as the code sets it.
Changed(old, p, stuck) ==
    \/ Departed(old, p) \ stuck # {}
    \/ Missing(old, p) # {}
    \/ ~(old.name = GroupName(p) /\ old.root = GroupName(p))
          /\ (old.root = old.name \/ old.name # GroupName(p))
    \/ old.gid # groupAt[p]
    \/ old.path # p

Update(p) ==
    /\ pc = "pass" /\ p \in todo
    /\ groupAt[p] # None /\ Existing(p) # None
    /\ LET old == seen[Existing(p)] IN
       \E stuck \in SUBSET Departed(old, p) :
          /\ IF stuck = {} THEN UNCHANGED budget ELSE Spend("fail")
          /\ cur' = [id |-> Existing(p), path |-> p,
                     prev |-> IF Moved(old, p) THEN old.path ELSE None,
                     doc |-> Updated(old, p, stuck)]
          /\ pc' = IF Changed(old, p, stuck) THEN "save" ELSE "share"
    /\ todo' = todo \ {p}
    /\ UNCHANGED <<world, wishes, view, back, sweep, seen, lost>>

\* No readings, a build or an attach that fails, a panic over the graph: this
\* group's pass is over before it has written anything.
GroupFailed(p) ==
    /\ pc = "pass" /\ p \in todo
    /\ groupAt[p] # None
    /\ IF Existing(p) = None
       THEN DevicesOfGroup(p) # {}
       ELSE LET old == seen[Existing(p)] IN Missing(old, p) \cup Departed(old, p) # {}
    /\ Spend("fail")
    /\ todo' = todo \ {p}
    /\ UNCHANGED <<world, wishes, view, control, seen, lost, cur>>

\* On to the next group of the pass, after success or after an error.
NextGroup ==
    /\ pc' = "pass"
    /\ cur' = NoWork

-----------------------------------------------------------------------------
(* The three writes: Save, Share, Unshare *)

\* SetGraph is an upsert; the repository picks the id of a new graph.
Store(i) ==
    /\ IF cur.id = None THEN doc[i] = None /\ seen[i] = None ELSE i = cur.id
    /\ doc' = [doc EXCEPT ![i] = cur.doc]

Save(i) ==
    /\ pc = "save"
    /\ Store(i)
    /\ pc' = "share"
    /\ cur' = [cur EXCEPT !.id = i]
    /\ UNCHANGED <<realm, hidden, rights, share, wishes, view, back, sweep, seen, todo, lost, budget>>

\* The write is refused, or is done and the answer lost.
SaveFailed(i) ==
    /\ pc = "save"
    /\ Spend("fail")
    /\ Store(i) \/ UNCHANGED doc
    /\ NextGroup
    /\ UNCHANGED <<realm, hidden, rights, share, wishes, view, back, sweep, seen, todo, lost>>

\* No permission resource without a graph: the call is then an error.
Grant(i, p)    == doc[i] # None /\ share' = [share EXCEPT ![i] = @ \cup {p}]
Withdraw(i, p) == doc[i] # None /\ share' = [share EXCEPT ![i] = @ \ {p}]

Share ==
    /\ pc = "share"
    /\ Grant(cur.id, cur.path)
    /\ IF cur.prev = None THEN NextGroup ELSE pc' = "unshare" /\ UNCHANGED cur
    /\ UNCHANGED <<realm, hidden, rights, doc, wishes, view, back, sweep, seen, todo, lost, budget>>

ShareFailed ==
    /\ pc = "share"
    /\ \/ doc[cur.id] = None /\ UNCHANGED <<share, budget>>
       \/ Spend("fail") /\ (Grant(cur.id, cur.path) \/ UNCHANGED share)
    /\ NextGroup
    /\ UNCHANGED <<realm, hidden, rights, doc, wishes, view, back, sweep, seen, todo, lost>>

Unshare ==
    /\ pc = "unshare"
    /\ Withdraw(cur.id, cur.prev)
    /\ NextGroup
    /\ UNCHANGED <<realm, hidden, rights, doc, wishes, view, back, sweep, seen, todo, lost, budget>>

UnshareFailed ==
    /\ pc = "unshare"
    /\ \/ doc[cur.id] = None /\ UNCHANGED <<share, budget>>
       \/ Spend("fail") /\ (Withdraw(cur.id, cur.prev) \/ UNCHANGED share)
    /\ NextGroup
    /\ UNCHANGED <<realm, hidden, rights, doc, wishes, view, back, sweep, seen, todo, lost>>

-----------------------------------------------------------------------------
(* The end of a pass, and the graphs whose group is gone *)

\* Graphs of unknown group ids, and graphs without an id at an unknown path.
Orphans ==
    ({ById(g) : g \in {h \in Group : \A p \in Path : groupAt[p] # h}}
        \cup {ByPath(p) : p \in {q \in Path : groupAt[q] = None}}) \ {None}

\* Mutant of PassDone: an empty directory is taken at its word.
PassDoneTrusting ==
    /\ pc = "pass" /\ todo = {}
    /\ IF sweep
       THEN /\ pc' = "orphans"
            /\ lost' = Orphans
            /\ UNCHANGED <<back, sweep, seen, todo, cur>>
       ELSE Leave(back)
    /\ UNCHANGED <<world, wishes, view, budget>>

\* No group at all is a directory that hides them, not a realm without any.
PassDone ==
    /\ pc = "pass" /\ todo = {}
    /\ IF sweep /\ groupAt # NoGroups
       THEN /\ pc' = "orphans"
            /\ lost' = Orphans
            /\ UNCHANGED <<back, sweep, seen, todo, cur>>
       ELSE Leave(back)
    /\ UNCHANGED <<world, wishes, view, budget>>

Orphan(i) ==
    /\ pc = "orphans" /\ i \in lost
    /\ lost' = lost \ {i}
    /\ cur' = [id |-> i, path |-> seen[i].path, prev |-> None,
               doc |-> [seen[i] EXCEPT !.gid = None, !.path = None]]
    /\ pc' = "withdraw"
    /\ UNCHANGED <<world, wishes, view, back, sweep, seen, todo, budget>>

OrphanUnshare ==
    /\ pc = "withdraw"
    /\ Withdraw(cur.id, cur.path)
    /\ pc' = "clear"
    /\ UNCHANGED <<realm, hidden, rights, doc, wishes, view, back, sweep, pass, budget>>

OrphanUnshareFailed ==
    /\ pc = "withdraw"
    /\ \/ doc[cur.id] = None /\ UNCHANGED <<share, budget>>
       \/ Spend("fail") /\ (Withdraw(cur.id, cur.path) \/ UNCHANGED share)
    /\ pc' = "orphans" /\ cur' = NoWork
    /\ UNCHANGED <<realm, hidden, rights, doc, wishes, view, back, sweep, seen, todo, lost>>

OrphanSave ==
    /\ pc = "clear"
    /\ Store(cur.id)
    /\ pc' = "orphans" /\ cur' = NoWork
    /\ UNCHANGED <<realm, hidden, rights, share, wishes, view, back, sweep, seen, todo, lost, budget>>

OrphanSaveFailed ==
    /\ pc = "clear"
    /\ Spend("fail")
    /\ Store(cur.id) \/ UNCHANGED doc
    /\ pc' = "orphans" /\ cur' = NoWork
    /\ UNCHANGED <<realm, hidden, rights, share, wishes, view, back, sweep, seen, todo, lost>>

OrphansDone ==
    /\ pc = "orphans" /\ lost = {}
    /\ Leave(back)
    /\ UNCHANGED <<world, wishes, view, budget>>

-----------------------------------------------------------------------------
(* Everybody else, at any moment *)

Place(g, p) ==
    /\ realm' = [realm EXCEPT ![g] = p]
    /\ hidden' = IF p \in Allowed THEN hidden ELSE hidden \cup {g}

\* Renaming a group, or one above it, changes its path.  The device rights are
\* kept under the old path, and nobody tells the permission store.
RenameGroup(g, p) ==
    /\ realm[g] \in Path /\ \A h \in Group : realm[h] # p
    /\ Spend("rename")
    /\ Place(g, p)
    /\ UNCHANGED <<rights, doc, share, wishes, view, control, pass>>

CreateGroup(g, p) ==
    /\ realm[g] = None /\ \A h \in Group : realm[h] # p
    /\ Spend("create")
    /\ Place(g, p)
    /\ UNCHANGED <<rights, doc, share, wishes, view, control, pass>>

DeleteGroup(g) ==
    /\ realm[g] \in Path
    /\ Spend("delete")
    /\ realm' = [realm EXCEPT ![g] = Gone]
    /\ UNCHANGED <<hidden, rights, doc, share, wishes, view, control, pass>>

\* A device joins or leaves groups, or is deleted (which leaves it in none).
Regrant(d, S) ==
    /\ S # rights[d]
    /\ Spend("regrant")
    /\ rights' = [rights EXCEPT ![d] = S]
    /\ UNCHANGED <<realm, hidden, doc, share, wishes, view, control, pass>>

\* A member edits the company graph: a name of their own, a device dropped, one
\* or both of the provenance attributes taken away.
UserEdit(i) ==
    /\ doc[i] # None
    /\ EditsDuringPass \/ pc \in Resting
    /\ Spend("edit")
    /\ \/ doc' = [doc EXCEPT ![i].root = Own]
       \/ \E d \in doc[i].nodes : doc' = [doc EXCEPT ![i].nodes = @ \ {d}]
       \/ \E gid \in {doc[i].gid, None}, path \in {doc[i].path, None} :
             doc' = [doc EXCEPT ![i].gid = gid, ![i].path = path]
    /\ UNCHANGED <<realm, hidden, rights, share, wishes, view, control, pass>>

UserErase(i) ==
    /\ doc[i] # None
    /\ Spend("erase")
    /\ doc' = [doc EXCEPT ![i] = None]
    /\ share' = [share EXCEPT ![i] = {}]
    /\ UNCHANGED <<realm, hidden, rights, wishes, view, control, pass>>

UserRevoke(i, p) ==
    /\ p \in share[i]
    /\ Spend("revoke")
    /\ share' = [share EXCEPT ![i] = @ \ {p}]
    /\ UNCHANGED <<realm, hidden, rights, doc, wishes, view, control, pass>>

\* An operator's POST /reconcile and POST /reconcile/group.
WishAll ==
    /\ Spend("wish")
    /\ all' = TRUE
    /\ UNCHANGED <<world, requested, view, control, pass>>

WishGroup(p) ==
    /\ Spend("wish")
    /\ requested' = requested \cup {p}
    /\ UNCHANGED <<world, all, view, control, pass>>

Crash ==
    /\ Spend("crash")
    /\ pc' = "groups" /\ back' = "select" /\ sweep' = TRUE
    /\ groupAt' = NoGroups /\ cached' = NoDevices
    /\ requested' = {} /\ all' = FALSE
    /\ seen' = NoGraphs /\ todo' = {} /\ lost' = {} /\ cur' = NoWork
    /\ UNCHANGED world

-----------------------------------------------------------------------------
\* What the loop does once it has started something: always to the end.
Working ==
    \/ Resolved \/ DrainTake
    \/ ReadGroups \/ ReadDevices \/ Defaults
    \/ \E p \in Path : NothingToDo(p) \/ Create(p) \/ Update(p)
    \/ \E i \in GraphId : Save(i)
    \/ Share \/ ShareFailed \/ Unshare \/ UnshareFailed
    \/ PassDone
    \/ \E i \in GraphId : Orphan(i)
    \/ OrphanUnshare \/ OrphanUnshareFailed \/ OrphanSave \/ OrphansDone

Failing ==
    \/ ReadMistaken \/ PollMistaken \/ ReadFailed \/ DefaultsFailed
    \/ \E p \in Path : GroupFailed(p)
    \/ \E i \in GraphId : SaveFailed(i)
    \/ OrphanSaveFailed

\* What it does when it is free: a ticker, a batch of triggers, a wish.
Idle ==
    \/ SafetyNet \/ PollGroups \/ Receive \/ Woken
    \/ \E d \in Device : ResolveDevice(d)
    \/ \E i \in GraphId : ResolveGraph(i)

Service == Working \/ Failing \/ Idle

Others ==
    \/ \E g \in Group, p \in Path : RenameGroup(g, p) \/ CreateGroup(g, p)
    \/ \E g \in Group : DeleteGroup(g)
    \/ \E d \in Device, S \in SUBSET Path : Regrant(d, S)
    \/ \E i \in GraphId : UserEdit(i) \/ UserErase(i)
    \/ \E i \in GraphId, p \in Path : UserRevoke(i, p)
    \/ WishAll \/ \E p \in Path : WishGroup(p)

Next == Service \/ Others \/ Crash

Spec == Init /\ [][Next]_vars

(***************************************************************************)
(* The loop does not stop in the middle of something, and the safety-net   *)
(* ticker comes again and again: when it is ready, Go's select, which      *)
(* picks uniformly among the ready cases, cannot pass it over for ever.    *)
(* No fairness for triggers: they are an accelerator, nothing rests on     *)
(* them.                                                                   *)
(***************************************************************************)
Fairness == WF_vars(Working) /\ WF_vars(Resolved) /\ SF_vars(SafetyNet)

FairSpec == Spec /\ Fairness

-----------------------------------------------------------------------------
(* Properties *)

\* The graphs that claim a group.
GraphsOf(g) == {i \in GraphId : doc[i] # None /\ doc[i].gid = g}

Foreign(d) == d.gid = None /\ d.path = None

\* A group never gets a second default graph, whatever fails, crashes, is
\* renamed or deleted between the listing and the write (keepLower: "a state
\* this service cannot have produced").
OneGraphPerGroup == \A g \in Group : \A i, j \in GraphsOf(g) : i = j

\* The service ends the call it is in; everybody else leaves pc alone.
Ends(calls) == pc \in calls /\ pc' # pc

\* The service never takes a graph's last share away as long as the group the
\* graph belongs to exists and the filter has never hidden it, nobody else
\* withdraws rights and no walk of the tree has come back torn (update withdraws
\* the old path last; Full does not orphan on an empty directory).
GroupKeepsAccess ==
    [][\A i \in GraphId :
          /\ Ends({"unshare", "withdraw"})
          /\ \A kind \in {"revoke", "torn"} : budget[kind] = Budget[kind]
          /\ share[i] # {} /\ share'[i] = {} /\ doc[i] = doc'[i]
          /\ doc[i].gid # None
          => realm[doc[i].gid] = Gone \/ doc[i].gid \in hidden]_vars

\* A name a user gave the root stays, over any number of renames, adoptions and
\* restarts; only the repository's other users may change it.
UserNameStands ==
    [][\A i \in GraphId :
          /\ Ends({"save", "clear"}) /\ doc[i] # None /\ doc[i].root = Own
          => doc'[i] # None /\ doc'[i].root = Own]_vars

\* A graph without provenance attributes is not this service's: it is never
\* written and never shared, not even after it has been orphaned, or stripped of
\* them by a user.  What a pass has listed as its own is another matter: what is
\* stripped while the pass is at work is written back and shared.
ForeignGraphsUntouched ==
    [][\A i \in GraphId :
          /\ Ends({"save", "clear", "share", "unshare", "withdraw"})
          /\ doc[i] # None /\ Foreign(doc[i])
          /\ EditsDuringPass => seen[i] # None /\ Foreign(seen[i])
          => UNCHANGED <<doc[i], share[i]>>]_vars

\* The pass that notices a move removes no device from the graph.
MoveRemovesNothing ==
    [][Ends({"save"}) /\ cur.prev # None /\ doc' # doc =>
          seen[cur.id].nodes \subseteq doc'[cur.id].nodes]_vars

\* A write is made only for a difference: what is saved is not what was listed.
NoIdleWrite ==
    pc \in {"save", "clear"} /\ cur.id # None => cur.doc # seen[cur.id]

\* The graph of group g is as the group is.
InLine(g) ==
    LET devices == {d \in Device : realm[g] \in rights[d]} IN
    /\ devices # {} => GraphsOf(g) # {}
    /\ \A i \in GraphsOf(g) :
          /\ doc[i].path = realm[g] /\ doc[i].name = GroupName(realm[g])
          /\ doc[i].nodes = devices
          /\ realm[g] \in share[i]

\* The groups the service is there for.
Live == {g \in Group : realm[g] \in Allowed}

\* Once the world and the failures leave it alone, the service brings every
\* graph in line with its group, and detaches those of groups that are deleted
\* or hidden by the filter.
Converges ==
    <>[](/\ \A g \in Live : InLine(g)
         /\ Live # {} => \A g \in Group \ Live : GraphsOf(g) = {})

\* And then it stops writing: the echo of its own writes costs one more pass
\* that finds nothing.
FallsSilent == <>[](pc \notin {"save", "clear"})

\* Nobody withdraws a right, so no device ever leaves its graph.
DevicesStay ==
    [][\A i \in GraphId :
          Ends({"save", "clear"}) /\ doc[i] # None => doc[i].nodes \subseteq doc'[i].nodes]_vars

\* The same, up to the first rename or failed call: deletions, restarts, erased
\* graphs, an empty directory and a torn tree take no device out of a graph.
DevicesStayUntilTrouble ==
    [][\A i \in GraphId :
          /\ Ends({"save", "clear"}) /\ doc[i] # None
          /\ \A kind \in {"rename", "fail", "regrant"} : budget[kind] = Budget[kind]
          => doc[i].nodes \subseteq doc'[i].nodes]_vars

\* The graph of a group ends up shared with the group where it is now, and
\* with nobody else: a path it moved away from loses its access.
AccessFollows ==
    <>[](\A g \in Live : \A i \in GraphsOf(g) : share[i] \subseteq {realm[g]})

=============================================================================
