------------------------------ MODULE GroupWalk ------------------------------
(***************************************************************************)
(* How the service reads the group tree: Groups of pkg/keycloak.  The tree *)
(* is walked listing by listing and every listing page by page, and while  *)
(* that takes its time, administrators create, move and delete groups.     *)
(* Reconcile takes the answer as one step, ReadGroups, or ReadMistaken if  *)
(* it leaves something out; here is what it may leave out, and when.       *)
(*                                                                         *)
(* Groups are listed in the order of their names, which here is the order  *)
(* of Group; a rename is a group that leaves one place and takes another.  *)
(***************************************************************************)
EXTENDS Naturals, Sequences, FiniteSets, SequencesExt

CONSTANTS
    Group,         \* group ids, in the order of their names
    Top,           \* the realm itself, above the top-level groups
    Nowhere, Gone, \* above a group that is not there yet, or no more
    PageSize, MaxPages, MaxDepth,
    InitialTree,   \* the trees to start from
    InitialHidden, \* the groups the service account may not view
    Budget         \* how often each kind of outside event may happen

Outside == {"create", "move", "delete", "fail"}

ASSUME GroupAssumption == /\ Group \subseteq Nat /\ IsFiniteSet(Group)
                          /\ {Top, Nowhere, Gone} \cap Group = {}
                          /\ Top # Nowhere /\ Top # Gone /\ Nowhere # Gone
ASSUME BoundAssumption == {PageSize, MaxPages, MaxDepth} \subseteq Nat \ {0}
ASSUME HiddenAssumption == \A S \in InitialHidden : S \subseteq Group
\* What is below a group that is there is there itself, and no groups are below
\* each other in a circle.
ASSUME TreeAssumption ==
    \A t \in InitialTree :
        /\ t \in [Group -> Group \cup {Top, Nowhere}]
        /\ \A g \in Group : t[g] \in Group => t[t[g]] # Nowhere
        /\ \A S \in SUBSET Group : S # {} => \E g \in S : t[g] \notin S
ASSUME BudgetAssumption == Budget \in [Outside -> Nat]

VARIABLES
    above,   \* the realm: what a group is listed under
    hidden,  \* groups that are left out of every answer
    lazy,    \* Keycloak counts subgroups and has an endpoint for them; if not,
             \* it ships the tree below a group with the group
    pc,      \* "list", "collect", "count", "done" or "failed"
    of,      \* listGroups: whose groups are being listed
    page,    \* listGroups: pageNumber
    got,     \* listGroups: result
    stack,   \* what each collect in progress still has to look at
    into,    \* the groups found so far
    calm,    \* groups whose listings, up to the top, have lost nobody and were
             \* not cut off before them
    budget

realm == <<above, hidden, lazy, calm>>
walk  == <<pc, of, page, got, stack, into>>
vars  == <<realm, walk, budget>>

Children(tree, n) == {g \in Group : tree[g] = n}

\* g is n, or somewhere below it.
Below(tree, n) ==
    LET under[g \in Group] == tree[g] = n \/ (tree[g] \in Group /\ under[tree[g]])
    IN  {g \in Group : under[g]}

Present == {g \in Group : above[g] \in Group \cup {Top}}

Seen == ToSet(into)

InOrder(S) ==
    [k \in 1..Cardinality(S) |-> CHOOSE g \in S : Cardinality({h \in S : h < g}) = k - 1]

\* Groups as they are answered: those that may be seen, in their order, each
\* with its id and the tree its subgroups are taken from.
Shown(tree, S) ==
    LET ids == InOrder(S \ hidden)
    IN  [k \in DOMAIN ids |-> [id |-> ids[k], tree |-> tree]]

TypeOK ==
    /\ pc \in {"list", "collect", "count", "done", "failed"}
    /\ of \in Group \cup {Top}
    /\ page \in 0..MaxPages
    /\ into \in Seq(Group)
    /\ Len(stack) <= MaxDepth
    /\ \A s \in ToSet(stack) \cup {got} : \A e \in ToSet(s) : e.id \in Group

Init ==
    /\ above \in InitialTree
    /\ hidden \in InitialHidden
    /\ lazy \in BOOLEAN
    /\ calm = Present \ UNION {Below(above, h) \cup {h} : h \in hidden}
    /\ pc = "list" /\ of = Top /\ page = 0 /\ got = <<>>
    /\ stack = <<>> /\ into = <<>>
    /\ budget = Budget

\* What happens once the walk is over is not looked at.
Spend(kind) ==
    /\ pc \notin {"done", "failed"}
    /\ budget[kind] > 0
    /\ budget' = [budget EXCEPT ![kind] = @ - 1]

-----------------------------------------------------------------------------
(* listGroups and children *)

\* max and first bound the window that is looked at, not what is shown of it.
Rank(g)   == Cardinality({h \in Children(above, above[g]) : h < g})
Window    == {g \in Children(above, of) :
                  page * PageSize <= Rank(g) /\ Rank(g) < (page + 1) * PageSize}
Page      == Shown(above, Window)

\* 404: the group was deleted, or there is no such endpoint.
NotFound == of # Top /\ (of \notin Present \/ ~lazy)

NextPage ==
    /\ pc = "list" /\ page < MaxPages /\ ~NotFound
    /\ Page # <<>>
    /\ got' = got \o Page
    /\ page' = page + 1
    /\ UNCHANGED <<realm, pc, of, stack, into, budget>>

TooManyPages ==
    /\ pc = "list" /\ page >= MaxPages
    /\ pc' = "failed"
    /\ UNCHANGED <<realm, of, page, got, stack, into, budget>>

\* Mutant of Descend: nothing bounds the descent.
DescendAnyway(level, rest) ==
    pc' = "collect" /\ stack' = IF level = <<>> THEN rest ELSE Append(rest, level)

\* Into one level further down, unless it is one too many.
Descend(level, rest) ==
    IF level = <<>> THEN pc' = "collect" /\ stack' = rest
    ELSE IF Len(rest) >= MaxDepth THEN pc' = "failed" /\ stack' = rest
    ELSE pc' = "collect" /\ stack' = Append(rest, level)

\* A window full of groups the account may not see is an empty page, whatever
\* comes behind it: what does, and everything below that, is cut off.
CutOff ==
    IF Window # {} /\ Window \subseteq hidden
    THEN UNION {Below(above, g) \cup {g} : g \in {h \in Children(above, of) : Rank(h) >= page * PageSize}}
    ELSE {}

\* Mutant of ListingEnds: a short page is taken for the last one.
ListingEndsShort ==
    /\ pc = "list" /\ page < MaxPages /\ ~NotFound
    /\ Len(Page) < PageSize
    /\ got' = <<>>
    /\ calm' = calm \ CutOff
    /\ IF of = Top /\ got \o Page = <<>> THEN pc' = "count" /\ UNCHANGED stack
       ELSE Descend(got \o Page, stack)
    /\ UNCHANGED <<above, hidden, lazy, of, page, into, budget>>

\* Only an empty page ends a listing; a realm without groups is looked into.
ListingEnds ==
    /\ pc = "list" /\ page < MaxPages /\ ~NotFound
    /\ Page = <<>>
    /\ got' = <<>>
    /\ calm' = calm \ CutOff
    /\ IF of = Top /\ got = <<>> THEN pc' = "count" /\ UNCHANGED stack
       ELSE Descend(got, stack)
    /\ UNCHANGED <<above, hidden, lazy, of, page, into, budget>>

\* No children, and the pages that were read of them are dropped.
NoSuchGroup ==
    /\ pc = "list" /\ page < MaxPages /\ NotFound
    /\ got' = <<>>
    /\ pc' = "collect"
    /\ UNCHANGED <<realm, of, page, stack, into, budget>>

\* Any other status, no token, no answer.
RequestFailed ==
    /\ pc = "list" /\ page < MaxPages
    /\ Spend("fail")
    /\ pc' = "failed"
    /\ UNCHANGED <<realm, of, page, got, stack, into>>

-----------------------------------------------------------------------------
(* Groups: the count that tells an empty realm from one that hides its groups *)

\* Mutant of Counted: an empty listing is taken at its word.
CountedTrusting ==
    /\ pc = "count"
    /\ pc' = "done"
    /\ UNCHANGED <<realm, of, page, got, stack, into, budget>>

Counted ==
    /\ pc = "count"
    /\ pc' = IF Present = {} THEN "done" ELSE "failed"
    /\ UNCHANGED <<realm, of, page, got, stack, into, budget>>

\* Without a count the empty listing stands.
CountFailed ==
    /\ pc = "count"
    /\ Spend("fail")
    /\ pc' = "done"
    /\ UNCHANGED <<realm, of, page, got, stack, into>>

-----------------------------------------------------------------------------
(* collect *)

Level == Last(stack)
Outer == Front(stack)

Looking == pc = "collect" /\ stack # <<>> /\ Level # <<>>
Entry == Head(Level)

\* What is left to do once Entry has been looked at.
Others == Append(Outer, Tail(Level))

Skip ==
    /\ Looking
    /\ Entry.id \in Seen
    /\ stack' = Others
    /\ UNCHANGED <<realm, pc, of, page, got, into, budget>>

Take == into' = Append(into, Entry.id)

\* The subgroups came along.
SubgroupsInside ==
    LET inside == Shown(Entry.tree, Children(Entry.tree, Entry.id)) IN
    /\ ~lazy /\ inside # <<>>
    /\ Descend(inside, Others)
    /\ UNCHANGED <<of, page, got>>

\* The subgroups are there to be fetched, or nothing says that there are none.
SubgroupsToFetch ==
    /\ IF lazy THEN Children(Entry.tree, Entry.id) # {}
       ELSE Children(Entry.tree, Entry.id) \subseteq hidden
    /\ stack' = Others
    /\ pc' = "list" /\ of' = Entry.id /\ page' = 0 /\ got' = <<>>

NoSubgroups ==
    /\ lazy /\ Children(Entry.tree, Entry.id) = {}
    /\ stack' = Others
    /\ UNCHANGED <<pc, of, page, got>>

\* Mutant of Found: a group that is listed twice is found twice.
FoundAgain ==
    /\ Looking
    /\ Take
    /\ SubgroupsInside \/ SubgroupsToFetch \/ NoSubgroups
    /\ UNCHANGED <<realm, budget>>

Found ==
    /\ Looking
    /\ Entry.id \notin Seen
    /\ Take
    /\ SubgroupsInside \/ SubgroupsToFetch \/ NoSubgroups
    /\ UNCHANGED <<realm, budget>>

LevelDone ==
    /\ pc = "collect" /\ stack # <<>> /\ Level = <<>>
    /\ stack' = Outer
    /\ UNCHANGED <<realm, pc, of, page, got, into, budget>>

Done ==
    /\ pc = "collect" /\ stack = <<>>
    /\ pc' = "done"
    /\ UNCHANGED <<realm, of, page, got, stack, into, budget>>

-----------------------------------------------------------------------------
(* Administrators *)

CreateGroup(g, n) ==
    /\ above[g] = Nowhere /\ n \in Present \cup {Top}
    /\ Spend("create")
    /\ above' = [above EXCEPT ![g] = n]
    /\ UNCHANGED <<hidden, lazy, calm, walk>>

\* A group that leaves a listing disturbs everything below that listing.
MoveGroup(g, n) ==
    /\ g \in Present
    /\ n \in (Present \cup {Top}) \ (Below(above, g) \cup {g, above[g]})
    /\ Spend("move")
    /\ above' = [above EXCEPT ![g] = n]
    /\ calm' = calm \ Below(above, above[g])
    /\ UNCHANGED <<hidden, lazy, walk>>

DeleteGroup(g) ==
    /\ g \in Present
    /\ Spend("delete")
    /\ above' = [h \in Group |-> IF h \in Below(above, g) \cup {g} THEN Gone ELSE above[h]]
    /\ calm' = calm \ Below(above, above[g])
    /\ UNCHANGED <<hidden, lazy, walk>>

\* The answer stays as it is.
Over == pc \in {"done", "failed"} /\ UNCHANGED vars

Walking ==
    \/ NextPage \/ TooManyPages \/ ListingEnds \/ NoSuchGroup
    \/ Counted
    \/ Skip \/ Found \/ LevelDone \/ Done

Next ==
    \/ Walking \/ RequestFailed \/ CountFailed
    \/ \E g \in Group, n \in Group \cup {Top} : CreateGroup(g, n) \/ MoveGroup(g, n)
    \/ \E g \in Group : DeleteGroup(g)
    \/ Over

Spec == Init /\ [][Next]_vars

-----------------------------------------------------------------------------
(* Properties *)

\* A group that is listed twice, because one before it was created or it moved
\* under the walk's feet, is in the answer once (collect's seen).
EachOnce == \A j, k \in 1..Len(into) : into[j] = into[k] => j = k

\* An answer leaves out no group that was there all along, unless a listing it
\* is in, or one above it, has lost a group meanwhile or was cut off before it by
\* a window full of hidden groups: short pages, growing listings and changes
\* elsewhere hide nothing (listGroups: "Stopping on a short page hands back a tree
\* that looks complete").
CalmListingsAreWhole == pc = "done" => calm \subseteq Seen

\* An answer without groups is given of a realm without groups, unless nobody
\* could be asked for their number.
EmptyIsDoubted ==
    /\ pc = "done" /\ into = <<>>
    /\ \A kind \in {"create", "fail"} : budget[kind] = Budget[kind]
    => Present = {}

=============================================================================
