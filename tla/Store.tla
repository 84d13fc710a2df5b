--------------------------------- MODULE Store ---------------------------------
(***************************************************************************)
(* The graph store, pkg/graphs, call by call: the listing of the default   *)
(* graphs, one attribute key and one page after the other, and the sharing *)
(* of a graph, which reads its rights and writes them back as a whole.     *)
(* Between two calls others delete and copy graphs, take attributes away   *)
(* and grant and revoke rights.  Around the store there is as much of a    *)
(* pass as calls it: per group the listed graph, or a new one, is shared.  *)
(* Reconcile takes a listing and a sharing as one step each; here is what  *)
(* those steps may get wrong.                                              *)
(***************************************************************************)
EXTENDS Integers, FiniteSets, FiniteSetsExt

CONSTANTS
    Graph,            \* graph ids, in their order
    Group,            \* groups, in the order of their paths; none is renamed here
    PageSize,
    InitialGraphs,    \* what the repository may hold at first
    Dissolved,        \* the groups of graphs that are gone from the realm
    None,
    Grants,           \* what others may do to rights: pairs of subject and right
    MaxOutside,       \* what others do, in all
    MaxFailures       \* calls that fail

ASSUME GraphAssumption == Graph \subseteq Nat /\ None \notin Graph
ASSUME GroupAssumption == Group \subseteq Nat /\ None \notin Group
ASSUME PageAssumption  == PageSize \in Nat \ {0}
ASSUME BoundAssumption == MaxOutside \in Nat /\ MaxFailures \in Nat

VARIABLES
    graphs,     \* repository: [Graph -> graph or None]
    used,       \* ids given out; none is given out twice
    rights,     \* permissions-v2: [Graph -> [Subject -> right] or None]
    echo,       \* a command on the graph topic asks for another pass
    writable,   \* the kill switch is off
    phase,      \* "idle", "list", "work", "share", "grant", "forget"
    key, offset,    \* of the listing
    byId, byPath,   \* Defaults
    seen,       \* [Graph -> the keys it was last listed with by its id]
    todo,       \* groups the pass has not come to yet
    current, target,   \* the group and the graph being shared
    next,       \* the rights that are about to be written
    steady,     \* history: graphs that nobody touched since the pass began
    shrunk,     \* history: [key -> its listing lost a graph between two pages]
    touched,    \* history: the subjects whose right changed since it was read
    outside, failures

listVars  == <<key, offset, byId, byPath, seen>>
shareVars == <<current, target, next>>
history   == <<steady, shrunk>>
vars == <<graphs, used, rights, echo, writable, phase, listVars, todo, shareVars,
          history, touched, outside, failures>>

\* AttrKeycloakGroupId and AttrKeycloakGroup.
Key == {"id", "path"}

\* Whose rights a graph has: the configured owner, another user, the path of its
\* group, another path, a role.
Subject == {"owner", "user", "member", "other", "role"}
Right   == {"none", "read", "use", "administrate"}

GraphRecord == [group : Group, keys : SUBSET Key]

ASSUME GrantAssumption   == Grants \subseteq Subject \X Right
ASSUME InitialAssumption == InitialGraphs \subseteq [Graph -> GraphRecord \cup {None}]
ASSUME NoneAssumption    == None \notin GraphRecord /\ None \notin [Subject -> Right]

Stored == {i \in Graph : graphs[i] # None}

\* What the repository gives a graph it has just been handed.
NewRights == [s \in Subject |-> IF s = "owner" THEN "administrate" ELSE "none"]

Administrated(r) == \E s \in {"owner", "user"} : r[s] = "administrate"

TypeOK ==
    /\ graphs \in [Graph -> GraphRecord \cup {None}]
    /\ rights \in [Graph -> [Subject -> Right] \cup {None}]
    /\ \A i \in Graph : graphs[i] = None <=> rights[i] = None
    /\ Stored \subseteq used /\ used \subseteq Graph
    /\ echo \in BOOLEAN /\ writable \in BOOLEAN
    /\ phase \in {"idle", "list", "work", "share", "grant", "forget"}
    /\ key \in Key /\ offset \in Nat
    /\ byId \in [Group -> Graph \cup {None}] /\ byPath \in [Group -> Graph \cup {None}]
    /\ seen \in [Graph -> SUBSET Key] /\ todo \subseteq Group
    /\ current \in Group \cup {None} /\ target \in Graph \cup {None}
    /\ next \in [Subject -> Right] \cup {None}
    /\ phase \in {"share", "grant", "forget"} => current # None /\ target # None
    /\ phase = "grant" => next # None
    /\ steady \subseteq Graph /\ shrunk \in [Key -> BOOLEAN]
    /\ touched \subseteq Subject
    /\ outside \in 0..MaxOutside /\ failures \in 0..MaxFailures

Init ==
    /\ graphs \in InitialGraphs /\ used = Stored
    /\ rights = [i \in Graph |-> IF graphs[i] = None THEN None ELSE NewRights]
    /\ echo = FALSE /\ writable \in BOOLEAN
    /\ phase = "idle" /\ key = "id" /\ offset = 0
    /\ byId = [g \in Group |-> None] /\ byPath = [g \in Group |-> None]
    /\ seen = [i \in Graph |-> {}] /\ todo = {} /\ current = None /\ target = None /\ next = None
    /\ steady = {} /\ shrunk = [k \in Key |-> FALSE]
    /\ touched = {}
    /\ outside = 0 /\ failures = 0

-----------------------------------------------------------------------------
(* Defaults *)

\* A pass, for whatever reason, begins with the listing.
Begin ==
    /\ phase = "idle"
    /\ phase' = "list" /\ key' = "id" /\ offset' = 0
    /\ byId' = [g \in Group |-> None] /\ byPath' = [g \in Group |-> None]
    /\ echo' = FALSE
    /\ steady' = Stored /\ shrunk' = [k \in Key |-> FALSE]
    /\ seen' = [i \in Graph |-> {}]
    /\ UNCHANGED <<graphs, used, rights, writable, todo, shareVars, touched, outside, failures>>

\* The repository's page: of the graphs with the key, sorted by id, those from
\* the offset on.
Page ==
    LET hits == {i \in Stored : key \in graphs[i].keys}
        at(i) == Cardinality({j \in hits : j < i})
    IN  {i \in hits : at(i) >= offset /\ at(i) < offset + PageSize}

\* keepLower.
Lower(previous, S) ==
    IF S \cup {previous} = {None} THEN None ELSE Min((S \cup {previous}) \ {None})

\* Mutant of Index: a graph with both keys counts in the listing of its path.
IndexById ==
    /\ byId' = [g \in Group |-> Lower(byId[g],
          {i \in Page : graphs[i].group = g /\ "id" \in graphs[i].keys /\ key = "id"})]
    /\ byPath' = [g \in Group |-> Lower(byPath[g],
          {i \in Page : graphs[i].group = g /\ "id" \notin graphs[i].keys})]

\* By its id where a graph carries one, by its path where it carries only that.
Index ==
    /\ byId' = [g \in Group |-> Lower(byId[g],
          {i \in Page : graphs[i].group = g /\ "id" \in graphs[i].keys})]
    /\ byPath' = [g \in Group |-> Lower(byPath[g],
          {i \in Page : graphs[i].group = g /\ "id" \notin graphs[i].keys})]

\* A short page ends the listing of a key, the second key the whole.
ListPage ==
    /\ phase = "list"
    /\ Index
    /\ seen' = [i \in Graph |-> IF i \in Page /\ "id" \in graphs[i].keys
                                THEN graphs[i].keys ELSE seen[i]]
    /\ IF Cardinality(Page) = PageSize
       THEN offset' = offset + PageSize /\ UNCHANGED <<phase, key, todo>>
       ELSE /\ offset' = 0 /\ key' = "path"
            /\ IF key = "id" THEN UNCHANGED <<phase, todo>>
               ELSE phase' = "work" /\ todo' = Group
    /\ UNCHANGED <<graphs, used, rights, echo, writable, shareVars, history, touched, outside, failures>>

\* A call fails, and the listing with the pass is over.
ListFails ==
    /\ phase = "list" /\ failures < MaxFailures
    /\ phase' = "idle" /\ failures' = failures + 1
    /\ UNCHANGED <<graphs, used, rights, echo, writable, listVars, todo, shareVars,
                   history, touched, outside>>

-----------------------------------------------------------------------------
(* A group of the pass *)

\* existing
Existing(g) == IF byId[g] # None THEN byId[g] ELSE byPath[g]

\* The keys of the graph as its entry has them: each index keeps a copy of its
\* own, and what is listed by its path carried nothing else.
Listed(g) == IF byId[g] # None THEN seen[byId[g]] ELSE {"path"}

\* Groups are taken in their order.
IsNext(g) == g \in todo /\ \A f \in todo : g <= f

\* What a group is to have on its graph: Share's permissions, or none if the
\* group is gone.
Want(g) == IF g \in Dissolved THEN "none" ELSE "use"

\* Mutant of Save: the graph is there before anybody has rights on it.
SaveUnowned(i, graph) ==
    /\ graphs' = [graphs EXCEPT ![i] = graph]
    /\ UNCHANGED rights
    /\ echo' = TRUE
    /\ used' = used \cup {i}
    /\ steady' = steady \ {i}

\* Save writes a graph whole; one that is gone, or new, gets its first rights.
Save(i, graph) ==
    /\ graphs' = [graphs EXCEPT ![i] = graph]
    /\ rights' = IF graphs[i] = None THEN [rights EXCEPT ![i] = NewRights] ELSE rights
    /\ echo' = TRUE
    /\ used' = used \cup {i}
    /\ steady' = steady \ {i}

Unsaved == UNCHANGED <<graphs, used, rights, echo, steady>>

\* There is something to write onto the graph: the key it was listed without.
Adopts(g) == g \notin Dissolved /\ Listed(g) # Key

\* The listed graph of a group is shared, or no longer; before that it is given
\* what it lacks.
TakeListed(g) ==
    /\ phase = "work" /\ IsNext(g) /\ Existing(g) # None
    /\ IF Adopts(g) /\ writable
       THEN Save(Existing(g), [group |-> g, keys |-> Key]) ELSE Unsaved
    /\ todo' = todo \ {g} /\ current' = g /\ target' = Existing(g)
    /\ phase' = "share"
    /\ UNCHANGED <<writable, listVars, next, shrunk, touched, outside, failures>>

\* A group without a graph gets one.
TakeNew(g) ==
    /\ phase = "work" /\ IsNext(g) /\ Existing(g) = None
    /\ todo' = todo \ {g}
    /\ IF g \notin Dissolved /\ writable
       THEN \E i \in Graph \ used :
              /\ Save(i, [group |-> g, keys |-> Key])
              /\ current' = g /\ target' = i /\ phase' = "share"
       ELSE Unsaved /\ UNCHANGED <<current, target, phase>>
    /\ UNCHANGED <<writable, listVars, next, shrunk, touched, outside, failures>>

\* The repository refuses the graph: the pass goes on with the next group.
SaveFails(g) ==
    /\ phase = "work" /\ IsNext(g) /\ writable /\ failures < MaxFailures
    /\ g \notin Dissolved /\ (Existing(g) # None => Adopts(g))
    /\ todo' = todo \ {g} /\ failures' = failures + 1
    /\ UNCHANGED <<graphs, used, rights, echo, writable, phase, listVars, shareVars,
                   history, touched, outside>>

\* Mutant of Rewritten: the clone is of users and groups only.
RewrittenWithoutRoles(r) ==
    [r EXCEPT !["member"] = Want(current), !["owner"] = "administrate", !["role"] = "none"]

\* clonePermissions with the entry of the group and the administrating owner.
Rewritten(r) == [r EXCEPT !["member"] = Want(current), !["owner"] = "administrate"]

\* Mutant of Agrees: the rights are written in any case.
AgreesNever(r) == FALSE

\* Nothing to write: the entry is what it is meant to be.  A graph without the
\* path of its vanished group says nothing of whose entry that is.
Agrees(r) ==
    \/ r["member"] = Want(current)
    \/ current \in Dissolved /\ "path" \notin Listed(current)

\* Where the sharing of a group leads to when it has gone well: a group that is
\* gone is then struck from its graph.
Shared == IF current \in Dissolved THEN "forget" ELSE "work"

\* setGroupPermission up to the write; with the kill switch set it ends here,
\* and the pass carries on as if it had written.
ReadRights ==
    /\ phase = "share" /\ rights[target] # None
    /\ IF Agrees(rights[target]) \/ ~writable
       THEN phase' = Shared /\ UNCHANGED next
       ELSE phase' = "grant" /\ next' = Rewritten(rights[target])
    /\ touched' = {}
    /\ UNCHANGED <<graphs, used, rights, echo, writable, listVars, todo, current, target,
                   history, outside, failures>>

\* No permission resource, or a call that fails: on with the next group.
NotShared ==
    /\ phase' = "work"
    /\ UNCHANGED <<graphs, used, rights, echo, writable, listVars, todo, shareVars,
                   history, touched, outside>>

NoResource == phase = "share" /\ rights[target] = None /\ NotShared /\ UNCHANGED failures

ShareFailsCall ==
    /\ phase \in {"share", "grant"} \cup (IF writable THEN {"forget"} ELSE {})
    /\ failures < MaxFailures
    /\ failures' = failures + 1

\* Mutant of ShareFails: the error is dropped, and the group struck out.
ShareFailsSilently ==
    /\ ShareFailsCall
    /\ phase' = Shared
    /\ UNCHANGED <<graphs, used, rights, echo, writable, listVars, todo, shareVars,
                   history, touched, outside>>

ShareFails == ShareFailsCall /\ NotShared

\* SetPermission replaces the rights, and its command comes back as an echo.
WriteRights ==
    /\ phase = "grant" /\ rights[target] # None
    /\ rights' = [rights EXCEPT ![target] = next]
    /\ echo' = TRUE
    /\ phase' = Shared
    /\ UNCHANGED <<graphs, used, writable, listVars, todo, shareVars, history, touched,
                   outside, failures>>

\* There is nothing any more to write the rights of.
WriteGone == phase = "grant" /\ rights[target] = None /\ NotShared /\ UNCHANGED failures

\* orphan: the attributes are cleared, the graph stays.
Forget ==
    /\ phase = "forget"
    /\ IF writable THEN Save(target, [group |-> current, keys |-> {}]) ELSE Unsaved
    /\ phase' = "work"
    /\ UNCHANGED <<writable, listVars, todo, shareVars, shrunk, touched, outside, failures>>

End ==
    /\ phase = "work" /\ todo = {}
    /\ phase' = "idle"
    /\ UNCHANGED <<graphs, used, rights, echo, writable, listVars, todo, shareVars,
                   history, touched, outside, failures>>

Pass ==
    \/ ListPage \/ ListFails
    \/ \E g \in Group : TakeListed(g) \/ TakeNew(g) \/ SaveFails(g)
    \/ ReadRights \/ NoResource \/ ShareFails \/ WriteRights \/ WriteGone \/ Forget \/ End

-----------------------------------------------------------------------------
(* The others *)

OutsideStep ==
    /\ outside < MaxOutside /\ outside' = outside + 1
    /\ echo' = TRUE
    /\ UNCHANGED <<writable, phase, listVars, todo, shareVars, failures>>

\* A graph falls out of the listings it was in: those behind it move up.
Leaves(i) ==
    /\ steady' = steady \ {i}
    /\ shrunk' = [k \in Key |-> shrunk[k] \/
          (phase = "list" /\ offset > 0 /\ key = k /\ k \in graphs[i].keys)]

Delete(i) ==
    /\ i \in Stored /\ OutsideStep
    /\ graphs' = [graphs EXCEPT ![i] = None]
    /\ rights' = [rights EXCEPT ![i] = None]
    /\ Leaves(i) /\ UNCHANGED <<used, touched>>

\* Somebody edits the attributes.
Strip(i, keys) ==
    /\ i \in Stored /\ keys \subseteq graphs[i].keys /\ OutsideStep
    /\ graphs' = [graphs EXCEPT ![i].keys = keys]
    /\ Leaves(i) /\ UNCHANGED <<used, rights, touched>>

\* A graph is copied, attributes and all.
Copy(i, j) ==
    /\ i \in Stored /\ j \in Graph \ used /\ OutsideStep
    /\ graphs' = [graphs EXCEPT ![j] = graphs[i]] /\ used' = used \cup {j}
    /\ rights' = [rights EXCEPT ![j] = NewRights]
    /\ UNCHANGED <<history, touched>>

\* A right is granted or revoked; an administrating user remains.
Regrant(i, s, r) ==
    /\ i \in Stored /\ OutsideStep
    /\ rights' = [rights EXCEPT ![i][s] = r]
    /\ Administrated(rights'[i])
    /\ touched' = IF phase \in {"grant", "forget"} /\ i = target THEN touched \cup {s} ELSE touched
    /\ UNCHANGED <<graphs, used, history>>

Others ==
    \E i \in Graph :
       \/ Delete(i)
       \/ \E keys \in SUBSET Key : Strip(i, keys)
       \/ \E j \in Graph : Copy(i, j)
       \/ \E grant \in Grants : Regrant(i, grant[1], grant[2])

Next == Begin \/ Pass \/ Others

Spec == Init /\ [][Next]_vars

\* A pass goes on, and the safety net sees to the next one.
FairSpec == Spec /\ WF_vars(Begin) /\ WF_vars(Pass)

-----------------------------------------------------------------------------
(* Properties *)

\* A listing misses a graph only if in every listing it belongs in another graph
\* was lost between two pages: offsets then skip one.  A graph carrying both
\* keys survives any loss within one of the two listings, and of several graphs
\* of a group it is never a higher one that is found (Defaults, collect,
\* keepLower).
ListingIsWhole ==
    phase \notin {"idle", "list"} =>
        \A i \in steady :
            (\E k \in graphs[i].keys : ~shrunk[k]) =>
                LET found == IF "id" \in graphs[i].keys THEN byId[graphs[i].group]
                             ELSE byPath[graphs[i].group]
                IN  found # None /\ found <= i

\* Sharing changes the entry of the group and the owner's, and an entry of
\* somebody else only if that was changed between the reading and the writing of
\* the rights (setGroupPermission, clonePermissions).
OnlyItsOwnEntry ==
    [][\A i \in Graph : outside' = outside /\ rights[i] # None =>
          \A s \in Subject : rights'[i][s] # rights[i][s] =>
              i = target /\ s \in {"member", "owner"} \cup touched]_vars

\* A graph that carries the path of a group that is gone is struck from it only
\* after that path has lost its access: without the attributes no later pass
\* would find it (orphan).
WithdrawnBeforeForgotten ==
    [][\A i \in Graph :
          /\ outside' = outside /\ graphs[i] # None /\ "path" \in graphs[i].keys
          /\ graphs'[i] # None /\ graphs'[i].keys = {} /\ rights[i] # None
          => i = target /\ (rights[i]["member"] = "none" \/ "member" \in touched)]_vars

\* The echo of its own writes does not keep the service writing: once the others
\* leave the graphs alone, a time comes after which no pass leaves a command
\* behind that asks for another (Share: "the loop would not end").
EchoEnds == <>[](phase = "idle" => ~echo)

=============================================================================
