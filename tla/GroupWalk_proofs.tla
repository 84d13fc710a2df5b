--------------------------- MODULE GroupWalk_proofs ---------------------------
(***************************************************************************)
(* What an answer of the group tree is never, and what it never leaves     *)
(* out, for any realm, any page size and whatever happens to the realm     *)
(* while it is read.                                                       *)
(***************************************************************************)
EXTENDS GroupWalk, Counting_proofs

-----------------------------------------------------------------------------
(* The groups found so far *)

\* A sequence, of whatever.
IsSequence(s) == \E S : s \in Seq(S)

OnceInv == IsSequence(into) /\ EachOnce

LEMMA OnceInit == Init => OnceInv
  <1> SUFFICES ASSUME Init PROVE OnceInv
    OBVIOUS
  <1>1. into = <<>>
    BY DEF Init
  <1>2. into \in Seq({}) /\ Len(into) = 0
    BY <1>1
  <1> QED  BY <1>2 DEF OnceInv, IsSequence, EachOnce

\* Only a group that is not there yet is added.
LEMMA TakeOnce ==
    ASSUME OnceInv, Take, Entry.id \notin Seen
    PROVE  OnceInv' /\ into' # <<>>
  <1>1. PICK S : into \in Seq(S)
    BY DEF OnceInv, IsSequence
  <1> DEFINE e == Entry.id
  <1>2. into' = Append(into, e) /\ \A k \in 1..Len(into) : into[k] # e
    BY <1>1 DEF Take, Seen, ToSet
  <1> HIDE DEF e
  <1>3. into \in Seq(S \cup {e}) /\ into' \in Seq(S \cup {e})
    BY <1>1, <1>2
  <1>4. Len(into') = Len(into) + 1 /\ into'[Len(into) + 1] = e /\ \A k \in 1..Len(into) : into'[k] = into[k]
    BY <1>2, <1>3
  <1>5. \A j, k \in 1..Len(into') : into'[j] = into'[k] => j = k
    BY <1>2, <1>3, <1>4 DEF OnceInv, EachOnce
  <1>6. into' # <<>>
    BY <1>3, <1>4
  <1> QED  BY <1>3, <1>5, <1>6 DEF OnceInv, IsSequence, EachOnce

\* A group is added by Found alone.
LEMMA IntoChanges ==
    ASSUME [Next]_vars
    PROVE  into' = into \/ Found
  BY DEF Next, Walking, NextPage, TooManyPages, ListingEnds, NoSuchGroup, Counted, Skip, LevelDone, Done,
         RequestFailed, CountFailed, CreateGroup, MoveGroup, DeleteGroup, Over, vars, walk

LEMMA OnceNext == OnceInv /\ [Next]_vars => OnceInv'
  <1> SUFFICES ASSUME OnceInv, [Next]_vars PROVE OnceInv'
    OBVIOUS
  <1>1. CASE Found
    BY <1>1, TakeOnce DEF Found
  <1>2. CASE into' = into
    BY <1>2 DEF OnceInv, IsSequence, EachOnce
  <1> QED  BY <1>1, <1>2, IntoChanges

\* However often a listing shifts under the walk, and in however many listings a
\* group turns up, it is in the answer once (collect's seen).
THEOREM FoundOnce == Spec => []EachOnce
  <1>1. OnceInv => EachOnce
    BY DEF OnceInv
  <1> QED  BY OnceInit, OnceNext, <1>1, PTL DEF Spec

-----------------------------------------------------------------------------
(* An answer without groups *)

Unspent == \A kind \in {"create", "fail"} : budget[kind] = Budget[kind]

\* As long as nothing is found, the walk is in the listing of the top, at the
\* first group of it, or has asked for the number of groups.
EmptyInv ==
    /\ budget \in [Outside -> Nat] /\ \A kind \in Outside : budget[kind] <= Budget[kind]
    /\ pc \in {"list", "collect", "count", "done", "failed"}
    /\ into = <<>> =>
          /\ pc = "list" => of = Top /\ stack = <<>>
          /\ pc = "collect" => \E level : level # <<>> /\ stack = <<level>>
          /\ pc = "count" => stack = <<>>
          /\ pc = "done" /\ Unspent => Present = {}

LEMMA EmptyInit == Init => EmptyInv
  BY BudgetAssumption DEF Init, EmptyInv

LEMMA SpendBudget ==
    ASSUME EmptyInv, NEW kind \in Outside, Spend(kind)
    PROVE  /\ budget' \in [Outside -> Nat] /\ \A k \in Outside : budget'[k] <= Budget[k]
           /\ budget'[kind] # Budget[kind]
           /\ pc \notin {"done", "failed"}
  <1>1. /\ budget \in [Outside -> Nat] /\ Budget \in [Outside -> Nat]
        /\ \A k \in Outside : budget[k] <= Budget[k]
    BY BudgetAssumption DEF EmptyInv
  <1>2. /\ budget[kind] > 0 /\ pc \notin {"done", "failed"}
        /\ budget' = [budget EXCEPT ![kind] = budget[kind] - 1]
    BY DEF Spend
  <1>3. \A k \in Outside : budget[k] \in Nat /\ Budget[k] \in Nat
    BY <1>1
  <1>4. budget[kind] - 1 \in Nat /\ budget[kind] - 1 < Budget[kind]
    BY <1>1, <1>2, <1>3
  <1>5. /\ budget' \in [Outside -> Nat] /\ budget'[kind] = budget[kind] - 1
        /\ \A k \in Outside : k # kind => budget'[k] = budget[k]
    BY <1>1, <1>2, <1>4
  <1> QED  BY <1>1, <1>2, <1>3, <1>4, <1>5

\* The first level is entered with a group to look at.
LEMMA DescendFromTop ==
    ASSUME NEW level, level # <<>>, Descend(level, <<>>)
    PROVE  pc' = "failed" \/ (pc' = "collect" /\ stack' = <<level>>)
  BY DEF Descend

LEMMA EmptyNext == OnceInv /\ EmptyInv /\ [Next]_vars => EmptyInv'
  <1> SUFFICES ASSUME OnceInv, EmptyInv, [Next]_vars PROVE EmptyInv'
    OBVIOUS
  <1> USE DEF realm, walk
  <1>1. CASE NextPage
    BY <1>1 DEF NextPage, EmptyInv
  <1>2. CASE TooManyPages
    BY <1>2 DEF TooManyPages, EmptyInv
  <1>3. CASE ListingEnds
    <2>1. pc' \in {"count", "collect", "failed"} /\ UNCHANGED <<of, into, budget>>
      BY <1>3 DEF ListingEnds, Descend
    <2>2. CASE into = <<>>
      <3>1. pc = "list" /\ of = Top /\ stack = <<>>
        BY <1>3, <2>2 DEF ListingEnds, EmptyInv
      <3>2. CASE got = <<>>
        BY <1>3, <2>1, <3>1, <3>2 DEF ListingEnds, EmptyInv
      <3>3. CASE got # <<>>
        <4>1. Descend(got, <<>>)
          BY <1>3, <3>1, <3>3 DEF ListingEnds
        <4>2. pc' = "failed" \/ (pc' = "collect" /\ stack' = <<got>>)
          BY <3>3, <4>1, DescendFromTop
        <4> QED  BY <2>1, <3>3, <4>2 DEF EmptyInv
      <3> QED  BY <3>2, <3>3
    <2>3. CASE into # <<>>
      BY <2>1, <2>3 DEF EmptyInv
    <2> QED  BY <2>2, <2>3
  <1>4. CASE NoSuchGroup
    BY <1>4 DEF NoSuchGroup, NotFound, EmptyInv
  <1>5. CASE Counted
    BY <1>5 DEF Counted, EmptyInv, Present
  <1>6. CASE Skip
    <2>1. into # <<>>
      BY <1>6 DEF Skip, Seen, ToSet
    <2> QED  BY <1>6, <2>1 DEF Skip, EmptyInv
  <1>7. CASE Found
    <2>1. into' # <<>>
      BY <1>7, TakeOnce DEF Found
    <2>2. pc' \in {"list", "collect", "failed"} /\ UNCHANGED budget
      BY <1>7 DEF Found, Looking, SubgroupsInside, SubgroupsToFetch, NoSubgroups, Descend
    <2> QED  BY <2>1, <2>2 DEF EmptyInv
  <1>8. CASE LevelDone
    <2>1. into # <<>>
      <3>1. \A level : level # <<>> => stack # <<level>>
        BY <1>8 DEF LevelDone, Level, Last
      <3> QED  BY <1>8, <3>1 DEF LevelDone, EmptyInv
    <2> QED  BY <1>8, <2>1 DEF LevelDone, EmptyInv
  <1>9. CASE Done
    <2>1. into # <<>>
      BY <1>9 DEF Done, EmptyInv
    <2> QED  BY <1>9, <2>1 DEF Done, EmptyInv
  <1>10. CASE RequestFailed
    <2>1. "fail" \in Outside /\ Spend("fail")
      BY <1>10 DEF RequestFailed, Outside
    <2> QED  BY <1>10, <2>1, SpendBudget DEF RequestFailed, EmptyInv
  \* Nobody could be asked, and that has been paid for.
  <1>11. CASE CountFailed
    <2>1. "fail" \in Outside /\ Spend("fail")
      BY <1>11 DEF CountFailed, Outside
    <2>2. ~Unspent'
      BY <2>1, SpendBudget DEF Unspent
    <2> QED  BY <1>11, <2>1, <2>2, SpendBudget DEF CountFailed, EmptyInv
  <1>12. ASSUME NEW kind \in Outside, Spend(kind), UNCHANGED walk PROVE EmptyInv'
    BY <1>12, SpendBudget DEF EmptyInv
  <1>13. CASE \E g \in Group, n \in Group \cup {Top} : CreateGroup(g, n) \/ MoveGroup(g, n)
    BY <1>12, <1>13 DEF CreateGroup, MoveGroup, Outside
  <1>14. CASE \E g \in Group : DeleteGroup(g)
    BY <1>12, <1>14 DEF DeleteGroup, Outside
  <1>15. CASE UNCHANGED vars
    BY <1>15 DEF vars, EmptyInv, Unspent, Present
  <1>16. CASE Over
    BY <1>15, <1>16 DEF Over
  <1> QED  BY <1>1, <1>2, <1>3, <1>4, <1>5, <1>6, <1>7, <1>8, <1>9, <1>10, <1>11, <1>13, <1>14, <1>15, <1>16
            DEF Next, Walking

\* An answer without groups, which would take every graph from its group, is
\* given of a realm without groups only, or where the count could not be had
\* (Groups, groupCount).
THEOREM NoTrustInNothing == Spec => []EmptyIsDoubted
  <1>1. EmptyInv => EmptyIsDoubted
    BY DEF EmptyInv, EmptyIsDoubted, Unspent
  <1> QED  BY OnceInit, OnceNext, EmptyInit, EmptyNext, <1>1, PTL DEF Spec

-----------------------------------------------------------------------------
(* Lists and levels *)

LEMMA ToSetIs ==
    ASSUME NEW E, NEW s \in Seq(E)
    PROVE  ToSet(s) = {s[k] : k \in 1..Len(s)} /\ ToSet(s) \subseteq E
  <1>1. DOMAIN s = 1..Len(s) /\ \A k \in 1..Len(s) : s[k] \in E
    OBVIOUS
  <1> QED  BY <1>1 DEF ToSet

LEMMA ToSetAppend ==
    ASSUME NEW E, NEW s \in Seq(E), NEW e \in E
    PROVE  Append(s, e) \in Seq(E) /\ ToSet(Append(s, e)) = ToSet(s) \cup {e}
  <1>1. Append(s, e) \in Seq(E) /\ Len(Append(s, e)) = Len(s) + 1
    OBVIOUS
  <1>2. \A k \in 1..Len(s) : Append(s, e)[k] = s[k]
    OBVIOUS
  <1>3. Append(s, e)[Len(s) + 1] = e
    OBVIOUS
  <1>4. \A k \in 1..(Len(s) + 1) : k = Len(s) + 1 \/ k \in 1..Len(s)
    OBVIOUS
  <1>5. \A k \in 1..Len(s) : k \in 1..(Len(s) + 1)
    OBVIOUS
  <1>6. Len(s) + 1 \in 1..(Len(s) + 1)
    OBVIOUS
  <1> DEFINE t == Append(s, e)
  <1> HIDE DEF t
  <1>7. ToSet(t) = {t[k] : k \in 1..Len(t)} /\ ToSet(s) = {s[k] : k \in 1..Len(s)}
    BY <1>1, ToSetIs DEF t
  <1> QED  BY <1>1, <1>2, <1>3, <1>4, <1>5, <1>6, <1>7 DEF t

LEMMA ToSetConcat ==
    ASSUME NEW E, NEW s \in Seq(E), NEW t \in Seq(E)
    PROVE  s \o t \in Seq(E) /\ ToSet(s \o t) = ToSet(s) \cup ToSet(t)
  <1> DEFINE u == s \o t
  <1>1. u \in Seq(E) /\ Len(u) = Len(s) + Len(t)
    OBVIOUS
  <1>2. \A k \in 1..Len(s) : k \in 1..Len(u) /\ u[k] = s[k]
    OBVIOUS
  <1>3. \A k \in 1..Len(t) : Len(s) + k \in 1..Len(u) /\ u[Len(s) + k] = t[k]
    OBVIOUS
  <1>4. \A k \in 1..Len(u) : \/ k \in 1..Len(s) /\ u[k] = s[k]
                             \/ k - Len(s) \in 1..Len(t) /\ u[k] = t[k - Len(s)]
    OBVIOUS
  <1> HIDE DEF u
  <1>5. /\ ToSet(s) = {s[k] : k \in 1..Len(s)} /\ ToSet(t) = {t[k] : k \in 1..Len(t)}
        /\ ToSet(u) = {u[k] : k \in 1..Len(u)}
    BY <1>1, ToSetIs
  <1>6. ToSet(u) = ToSet(s) \cup ToSet(t)
    <2>1. ASSUME NEW x \in ToSet(u) PROVE x \in ToSet(s) \cup ToSet(t)
      BY <1>4, <1>5, <2>1
    <2>2. ASSUME NEW x \in ToSet(s) PROVE x \in ToSet(u)
      BY <1>2, <1>5, <2>2
    <2>3. ASSUME NEW x \in ToSet(t) PROVE x \in ToSet(u)
      BY <1>3, <1>5, <2>3
    <2> QED  BY <2>1, <2>2, <2>3
  <1> QED  BY <1>1, <1>6 DEF u

LEMMA ToSetTail ==
    ASSUME NEW E, NEW s \in Seq(E), s # <<>>
    PROVE  /\ Head(s) \in E /\ Tail(s) \in Seq(E)
           /\ ToSet(s) = ToSet(Tail(s)) \cup {Head(s)}
  <1> DEFINE t == Tail(s)
  <1>1. Len(s) \in Nat \ {0} /\ t \in Seq(E) /\ Len(t) = Len(s) - 1 /\ Head(s) = s[1] /\ Head(s) \in E
    OBVIOUS
  <1>2. \A k \in 1..Len(t) : k + 1 \in 1..Len(s) /\ t[k] = s[k + 1]
    OBVIOUS
  <1>3. \A k \in 1..Len(s) : k = 1 \/ (k - 1 \in 1..Len(t) /\ s[k] = t[k - 1])
    OBVIOUS
  <1> HIDE DEF t
  <1>4. ToSet(s) = {s[k] : k \in 1..Len(s)} /\ ToSet(t) = {t[k] : k \in 1..Len(t)}
    BY <1>1, ToSetIs
  <1>5. ToSet(s) = ToSet(t) \cup {Head(s)}
    <2>1. ASSUME NEW x \in ToSet(s) PROVE x \in ToSet(t) \cup {Head(s)}
      BY <1>1, <1>3, <1>4, <2>1
    <2>2. ASSUME NEW x \in ToSet(t) PROVE x \in ToSet(s)
      BY <1>2, <1>4, <2>2
    <2>3. Head(s) \in ToSet(s)
      BY <1>1, <1>4
    <2> QED  BY <2>1, <2>2, <2>3
  <1> QED  BY <1>1, <1>5 DEF t

LEMMA ToSetLast ==
    ASSUME NEW E, NEW s \in Seq(E), s # <<>>
    PROVE  /\ Last(s) \in E /\ Front(s) \in Seq(E) /\ Len(Front(s)) = Len(s) - 1
           /\ ToSet(s) = ToSet(Front(s)) \cup {Last(s)}
  <1> DEFINE t == SubSeq(s, 1, Len(s) - 1)
  <1>1. Len(s) \in Nat \ {0} /\ t \in Seq(E) /\ Len(t) = Len(s) - 1 /\ s[Len(s)] \in E
    <2>1. Len(s) \in Nat \ {0} /\ s \in [1..Len(s) -> E]
      OBVIOUS
    <2>2. t \in Seq(E)
      BY <2>1
    <2>3. Len(t) = Len(s) - 1
      BY <2>1
    <2> QED  BY <2>1, <2>2, <2>3
  <1>2. \A k \in 1..Len(t) : k \in 1..Len(s) /\ t[k] = s[k]
    OBVIOUS
  <1>3. \A k \in 1..Len(s) : k = Len(s) \/ k \in 1..Len(t)
    BY <1>1
  <1>4. Front(s) = t /\ Last(s) = s[Len(s)]
    BY DEF Front, Last
  <1> HIDE DEF t
  <1>5. ToSet(s) = {s[k] : k \in 1..Len(s)} /\ ToSet(t) = {t[k] : k \in 1..Len(t)}
    BY <1>1, ToSetIs
  <1>6. ToSet(s) = ToSet(t) \cup {s[Len(s)]}
    <2>1. ASSUME NEW x \in ToSet(s) PROVE x \in ToSet(t) \cup {s[Len(s)]}
      BY <1>2, <1>3, <1>5, <2>1
    <2>2. ASSUME NEW x \in ToSet(t) PROVE x \in ToSet(s)
      BY <1>2, <1>5, <2>2
    <2>3. s[Len(s)] \in ToSet(s)
      BY <1>1, <1>5
    <2> QED  BY <2>1, <2>2, <2>3
  <1> QED  BY <1>1, <1>4, <1>6

\* What the levels of a descent hold.
Held(levels) == UNION {ToSet(s) : s \in ToSet(levels)}

LEMMA HeldAppend ==
    ASSUME NEW E, NEW levels \in Seq(Seq(E)), NEW level \in Seq(E)
    PROVE  /\ Append(levels, level) \in Seq(Seq(E))
           /\ Held(Append(levels, level)) = Held(levels) \cup ToSet(level)
  <1>1. Append(levels, level) \in Seq(Seq(E)) /\ ToSet(Append(levels, level)) = ToSet(levels) \cup {level}
    BY ToSetAppend
  <1> QED  BY <1>1 DEF Held

LEMMA HeldLast ==
    ASSUME NEW E, NEW levels \in Seq(Seq(E)), levels # <<>>
    PROVE  /\ Last(levels) \in Seq(E) /\ Front(levels) \in Seq(Seq(E))
           /\ Len(Front(levels)) = Len(levels) - 1
           /\ Held(levels) = Held(Front(levels)) \cup ToSet(Last(levels))
  <1>1. /\ Last(levels) \in Seq(E) /\ Front(levels) \in Seq(Seq(E))
        /\ Len(Front(levels)) = Len(levels) - 1
        /\ ToSet(levels) = ToSet(Front(levels)) \cup {Last(levels)}
    BY ToSetLast
  <1> QED  BY <1>1 DEF Held

LEMMA HeldEmpty == Held(<<>>) = {} /\ ToSet(<<>>) = {}
  BY DEF Held, ToSet

-----------------------------------------------------------------------------
(* The realm *)

Places  == Group \cup {Top, Nowhere, Gone}
Entries == [id : Group, tree : [Group -> Places]]

\* What is below n is what is listed under n or under something below it.
LEMMA BelowIs ==
    ASSUME NEW tree \in [Group -> Places], NEW n
    PROVE  \A g \in Group : g \in Below(tree, n) <=>
                               tree[g] = n \/ (tree[g] \in Group /\ tree[g] \in Below(tree, n))
  <1> DEFINE Full(f)   == [g \in Group |-> tree[g] = n \/ (tree[g] \in Group /\ f[tree[g]])]
             under     == CHOOSE f : f = Full(f)
             Closed(X) == \A g \in Group : tree[g] = n \/ (tree[g] \in Group /\ tree[g] \in X) => g \in X
             Least     == {g \in Group : \A X \in SUBSET Group : Closed(X) => g \in X}
             least     == [g \in Group |-> g \in Least]
  <1>1. Closed(Least)
    <2> SUFFICES ASSUME NEW g \in Group, tree[g] = n \/ (tree[g] \in Group /\ tree[g] \in Least),
                        NEW X \in SUBSET Group, Closed(X)
                 PROVE  g \in X
      OBVIOUS
    <2>1. tree[g] \in Least => tree[g] \in X
      OBVIOUS
    <2> QED  BY <2>1
  <1>2. ASSUME NEW g \in Least PROVE tree[g] = n \/ (tree[g] \in Group /\ tree[g] \in Least)
    <2> SUFFICES ASSUME ~(tree[g] = n \/ (tree[g] \in Group /\ tree[g] \in Least)) PROVE FALSE
      OBVIOUS
    <2>1. Closed(Least \ {g})
      BY <1>1
    <2>2. Least \ {g} \in SUBSET Group
      OBVIOUS
    <2>3. g \in Least \ {g}
      BY <1>2, <2>1, <2>2
    <2> QED  BY <2>3
  <1>3. \A g \in Group : (g \in Least) = (tree[g] = n \/ (tree[g] \in Group /\ tree[g] \in Least))
    BY <1>1, <1>2
  <1>4. least = Full(least)
    <2> HIDE DEF Least
    <2> QED  BY <1>3
  <1>5. under = Full(under)
    <2> HIDE DEF Full, least
    <2> QED  BY <1>4
  <1>6. Below(tree, n) = {g \in Group : under[g]}
    BY DEF Below
  <1> HIDE DEF under
  <1>7. \A g \in Group : under[g] = (tree[g] = n \/ (tree[g] \in Group /\ under[tree[g]]))
    BY <1>5
  <1> QED  BY <1>6, <1>7

Shape ==
    /\ above \in [Group -> Places] /\ calm \subseteq Present
    /\ hidden \in InitialHidden /\ lazy \in BOOLEAN
    /\ pc \in {"list", "collect", "count", "done", "failed"}
    /\ of \in Group \cup {Top} /\ page \in 0..MaxPages
    /\ got \in Seq(Entries) /\ into \in Seq(Group)
    /\ stack \in Seq(Seq(Entries)) /\ Len(stack) <= MaxDepth

\* Groups that are calm are there, may be seen, and stand below calm groups only;
\* no calm groups stand below each other in a circle.
CalmInv ==
    /\ calm \cap hidden = {}
    /\ \A g \in calm : above[g] \in Group => above[g] \in calm
    /\ \A S \in SUBSET calm : S # {} => \E g \in S : above[g] \notin S

\* What the realm may do without the walk losing anything: calm groups stay, and
\* so do those listed before them.
RealmStep ==
    /\ UNCHANGED <<hidden, lazy, walk>>
    /\ above' \in [Group -> Places] /\ calm' \subseteq calm
    /\ \A g \in calm' : /\ above'[g] = above[g]
                        /\ Children(above, above[g]) \subseteq Children(above', above[g])
                        /\ above[g] \in Group => above[g] \in calm'

LEMMA CreateIsRealmStep ==
    ASSUME Shape, CalmInv, NEW g \in Group, NEW n \in Group \cup {Top}, CreateGroup(g, n)
    PROVE  RealmStep
  <1>1. /\ UNCHANGED <<hidden, lazy, walk, calm>> /\ above[g] = Nowhere
        /\ above' = [above EXCEPT ![g] = n]
    BY DEF CreateGroup
  <1>2. above \in [Group -> Places] /\ above' \in [Group -> Places]
    BY <1>1 DEF Shape, Places
  <1>3. \A h \in calm : h \in Group /\ above[h] # Nowhere
    BY GroupAssumption DEF Shape, Present
  <1>4. \A h \in calm : above'[h] = above[h]
    BY <1>1, <1>2, <1>3
  <1>5. \A h \in calm : Children(above, above[h]) \subseteq Children(above', above[h])
    BY <1>1, <1>2, <1>3 DEF Children
  <1> QED  BY <1>1, <1>2, <1>4, <1>5 DEF RealmStep, CalmInv

\* A group that left the listing under x takes nothing of what stays calm along.
LEMMA LeavingIsRealmStep ==
    ASSUME Shape, CalmInv, NEW g \in Present, UNCHANGED <<hidden, lazy, walk>>,
           above' \in [Group -> Places], calm' = calm \ Below(above, above[g]),
           \A h \in Group \ (Below(above, g) \cup {g}) : above'[h] = above[h]
    PROVE  RealmStep
  <1> DEFINE x == above[g]
  <1>0. g \in Group /\ above \in [Group -> Places] /\ \A h \in calm : h \in Group
    BY DEF Present, Shape
  <1>1. \A h \in Group : h \in Below(above, x) <=>
                            above[h] = x \/ (above[h] \in Group /\ above[h] \in Below(above, x))
    BY <1>0, BelowIs
  <1>2. \A h \in Group : h \in Below(above, g) <=>
                            above[h] = g \/ (above[h] \in Group /\ above[h] \in Below(above, g))
    BY <1>0, BelowIs
  <1>3. g \in Below(above, x)
    BY <1>0, <1>1
  <1> HIDE DEF x
  <1>4. \A h \in calm : h \in Below(above, g) => h \in Below(above, x)
    <2> DEFINE S == {h \in calm : h \in Below(above, g) /\ h \notin Below(above, x)}
    <2> SUFFICES ASSUME S # {} PROVE FALSE
      OBVIOUS
    <2>1. PICK h \in S : above[h] \notin S
      BY DEF CalmInv
    <2>2. above[h] = g \/ (above[h] \in calm /\ above[h] \in Below(above, g))
      BY <1>0, <1>2 DEF CalmInv
    <2>3. above[h] \in Group /\ above[h] \in Below(above, x)
      BY <1>0, <1>3, <2>1, <2>2
    <2> QED  BY <1>0, <1>1, <2>3
  <1>5. calm' = calm \ Below(above, x)
    BY DEF x
  <1>6. ASSUME NEW h \in calm' PROVE h \notin Below(above, g) /\ h # g /\ above'[h] = above[h]
    <2>1. h \in calm /\ h \notin Below(above, x) /\ h \in Group
      BY <1>0, <1>5, <1>6
    <2> QED  BY <1>3, <1>4, <2>1
  <1>7. ASSUME NEW h \in calm', above[h] \in Group PROVE above[h] \in calm'
    <2>1. h \in calm /\ h \notin Below(above, x) /\ h \in Group
      BY <1>0, <1>5, <1>7
    <2>2. above[h] \in calm /\ above[h] \notin Below(above, x)
      BY <1>1, <1>7, <2>1 DEF CalmInv
    <2> QED  BY <1>5, <2>2
  <1>8. ASSUME NEW h \in calm', NEW k \in Children(above, above[h]) PROVE k \in Children(above', above[h])
    <2>1. h \in calm /\ h \notin Below(above, x) /\ h \in Group /\ k \in Group /\ above[k] = above[h]
      BY <1>0, <1>5, <1>8 DEF Children
    <2>2. k # g
      BY <1>1, <2>1 DEF x
    <2>3. k \notin Below(above, g)
      BY <1>2, <1>6, <2>1
    <2> QED  BY <2>1, <2>2, <2>3 DEF Children
  <1> QED  BY <1>5, <1>6, <1>7, <1>8 DEF RealmStep

LEMMA MoveIsRealmStep ==
    ASSUME Shape, CalmInv, NEW g \in Group, NEW n \in Group \cup {Top}, MoveGroup(g, n)
    PROVE  RealmStep
  <1>1. /\ UNCHANGED <<hidden, lazy, walk>> /\ g \in Present
        /\ above' = [above EXCEPT ![g] = n] /\ calm' = calm \ Below(above, above[g])
    BY DEF MoveGroup
  <1>2. above' \in [Group -> Places] /\ \A h \in Group : h # g => above'[h] = above[h]
    BY <1>1 DEF Shape, Places
  <1> QED  BY <1>1, <1>2, LeavingIsRealmStep

LEMMA DeleteIsRealmStep ==
    ASSUME Shape, CalmInv, NEW g \in Group, DeleteGroup(g)
    PROVE  RealmStep
  <1>1. /\ UNCHANGED <<hidden, lazy, walk>> /\ g \in Present
        /\ above' = [h \in Group |-> IF h \in Below(above, g) \cup {g} THEN Gone ELSE above[h]]
        /\ calm' = calm \ Below(above, above[g])
    BY DEF DeleteGroup
  <1>2. /\ above' \in [Group -> Places]
        /\ \A h \in Group \ (Below(above, g) \cup {g}) : above'[h] = above[h]
    BY <1>1 DEF Shape, Places
  <1> QED  BY <1>1, <1>2, LeavingIsRealmStep

LEMMA RealmStepCalm == ASSUME Shape, CalmInv, RealmStep PROVE Shape' /\ CalmInv'
  <1>1. Shape'
    <2>1. calm' \subseteq Present'
      BY DEF RealmStep, Shape, Present
    <2> QED  BY <2>1 DEF RealmStep, Shape, walk
  <1>2. CalmInv'
    <2>1. ASSUME NEW S \in SUBSET calm', S # {} PROVE \E g \in S : above'[g] \notin S
      <3>1. S \in SUBSET calm /\ \A g \in S : above'[g] = above[g]
        BY DEF RealmStep
      <3>2. PICK g \in S : above[g] \notin S
        BY <2>1, <3>1 DEF CalmInv
      <3> QED  BY <3>1, <3>2
    <2> QED  BY <2>1 DEF RealmStep, CalmInv
  <1> QED  BY <1>1, <1>2

-----------------------------------------------------------------------------
(* What an answer shows *)

LEMMA InOrderIs ==
    ASSUME NEW S \in SUBSET Group
    PROVE  /\ InOrder(S) \in Seq(S) /\ Len(InOrder(S)) = Cardinality(S) /\ Cardinality(S) \in Nat
           /\ ToSet(InOrder(S)) = S
  <1> DEFINE list == [k \in 1..Cardinality(S) |-> CHOOSE g \in S : RankIn(S, g) = k - 1]
  <1>1. S \in SUBSET Nat /\ IsFiniteSet(S)
    BY GroupAssumption, FS_Subset
  <1>2. InOrder(S) = list
    BY DEF InOrder, RankIn, Under
  <1>3. /\ list \in Seq(S) /\ Len(list) = Cardinality(S)
        /\ \A g \in S : \E k \in 1..Cardinality(S) : list[k] = g
    BY <1>1, ListedByRank
  <1> HIDE DEF list
  <1>4. ToSet(list) = {list[k] : k \in 1..Len(list)} /\ ToSet(list) \subseteq S
    BY <1>3, ToSetIs
  <1> QED  BY <1>1, <1>2, <1>3, <1>4, FS_CardinalityType

\* Of the groups asked for, all that may be seen, each with the tree.
LEMMA ShownIs ==
    ASSUME NEW tree \in [Group -> Places], NEW S \in SUBSET Group
    PROVE  /\ Shown(tree, S) \in Seq(Entries)
           /\ \A e \in ToSet(Shown(tree, S)) : e.tree = tree /\ e.id \in S \ hidden
           /\ \A g \in S \ hidden : \E e \in ToSet(Shown(tree, S)) : e.id = g
           /\ Shown(tree, S) = <<>> => S \subseteq hidden
  <1> DEFINE ids   == InOrder(S \ hidden)
             shown == [k \in 1..Len(ids) |-> [id |-> ids[k], tree |-> tree]]
  <1>1. /\ ids \in Seq(S \ hidden) /\ Len(ids) \in Nat /\ DOMAIN ids = 1..Len(ids)
        /\ ToSet(ids) = S \ hidden
    BY InOrderIs
  <1>2. Shown(tree, S) = shown
    BY <1>1 DEF Shown
  <1>3. ToSet(ids) = {ids[k] : k \in 1..Len(ids)}
    BY <1>1, ToSetIs
  <1> HIDE DEF ids
  <1>4. \A k \in 1..Len(ids) : ids[k] \in S \ hidden /\ shown[k] \in Entries /\ shown[k].id = ids[k] /\ shown[k].tree = tree
    BY <1>1, <1>3 DEF Entries
  <1>5. shown \in Seq(Entries) /\ Len(shown) = Len(ids)
    <2>1. shown \in [1..Len(ids) -> Entries]
      BY <1>4
    <2> HIDE DEF shown
    <2> QED  BY <1>1, <2>1
  <1>6. ToSet(shown) = {shown[k] : k \in 1..Len(ids)}
    <2> HIDE DEF shown
    <2> QED  BY <1>5, ToSetIs
  <1>7. shown = <<>> => S \ hidden = {}
    <2> HIDE DEF shown
    <2> QED  BY <1>1, <1>3, <1>5
  <1> HIDE DEF shown
  <1>8. ASSUME NEW e \in ToSet(shown) PROVE e.tree = tree /\ e.id \in S \ hidden
    BY <1>4, <1>6, <1>8
  <1>9. ASSUME NEW g \in S \ hidden PROVE \E e \in ToSet(shown) : e.id = g
    <2>1. PICK k \in 1..Len(ids) : ids[k] = g
      BY <1>1, <1>3
    <2> QED  BY <1>4, <1>6, <2>1
  <1> QED  BY <1>2, <1>5, <1>7, <1>8, <1>9

-----------------------------------------------------------------------------
(* Where a calm group is while it has not been found *)

AtHand == ToSet(got) \cup Held(stack)

\* In the answer, on its way there, in the part of a listing that is yet to come,
\* or below a group that is not in the answer yet.
Covered(g) ==
    \/ g \in Seen
    \/ \E e \in AtHand : e.id = g
    \/ pc = "list" /\ above[g] = of /\ Rank(g) >= page * PageSize
    \/ above[g] \in Group \ Seen

\* Of a calm group every answer says where it stands; a group that was not
\* answered with its subgroups is listed only if it seemed to have none that may
\* be seen; the top is listed first, and a level is looked at between listings.
WalkInv ==
    /\ \A e \in AtHand : \A g \in calm : e.tree[g] = above[g]
    /\ pc \notin {"list", "failed"} => got = <<>>
    /\ pc \in {"list", "count"} /\ of = Top => stack = <<>>
    /\ pc = "count" => of = Top
    /\ pc = "done" => stack = <<>>
    /\ pc = "list" => \A e \in ToSet(got) : e.id \in calm => above[e.id] = of
    /\ pc = "list" /\ ~lazy /\ of # Top => \A g \in calm : above[g] # of

CoverInv == pc # "failed" => \A g \in calm : Covered(g)

CalmWalkInv == Shape /\ CalmInv /\ WalkInv /\ CoverInv

LEMMA RealmStepWalk == ASSUME CalmWalkInv, RealmStep PROVE CalmWalkInv'
  <1>0. Shape' /\ CalmInv'
    BY RealmStepCalm DEF CalmWalkInv
  <1>1. UNCHANGED <<lazy, pc, of, page, got, stack, into, Seen, AtHand>>
    BY DEF RealmStep, walk, Seen, AtHand
  <1>2. \A g \in calm' : g \in calm /\ g \in Group /\ above'[g] = above[g]
    BY DEF RealmStep, CalmWalkInv, Shape, Present
  <1>3. WalkInv'
    BY <1>1, <1>2 DEF CalmWalkInv, WalkInv
  <1>4. ASSUME NEW g \in calm' PROVE Rank(g) \in Nat /\ Rank(g)' \in Nat /\ Rank(g) <= Rank(g)'
    <2> DEFINE S == Children(above, above[g])
               T == Children(above', above[g])
    <2>1. S \in SUBSET Nat /\ T \in SUBSET Nat /\ S \subseteq T /\ g \in Nat
      BY <1>2, <1>4, GroupAssumption DEF RealmStep, Children
    <2>2. Rank(g) = RankIn(S, g) /\ Rank(g)' = RankIn(T, g)
      BY <1>2, <1>4 DEF Rank, RankIn, Under
    <2> HIDE DEF S, T
    <2>3. Under(S, g) \subseteq T
      BY <2>1 DEF Under
    <2> QED  BY <2>1, <2>2, <2>3, RankType, RankGrows
  <1>5. page * PageSize \in Nat
    BY BoundAssumption DEF CalmWalkInv, Shape
  <1>6. CoverInv'
    <2> SUFFICES ASSUME pc' # "failed", NEW g \in calm' PROVE Covered(g)'
      BY DEF CoverInv
    <2>1. Covered(g)
      BY <1>1, <1>2 DEF CalmWalkInv, CoverInv
    <2>2. pc = "list" /\ above[g] = of /\ Rank(g) >= page * PageSize
             => pc' = "list" /\ above'[g] = of' /\ Rank(g)' >= page' * PageSize
      BY <1>1, <1>2, <1>4, <1>5
    <2> QED  BY <1>1, <1>2, <2>1, <2>2 DEF Covered
  <1> QED  BY <1>0, <1>3, <1>6 DEF CalmWalkInv

-----------------------------------------------------------------------------
(* The listing of a level *)

LEMMA DescendIs ==
    ASSUME NEW level \in Seq(Entries), NEW rest \in Seq(Seq(Entries)), Len(rest) <= MaxDepth,
           Descend(level, rest)
    PROVE  /\ pc' \in {"collect", "failed"}
           /\ stack' \in Seq(Seq(Entries)) /\ Len(stack') <= MaxDepth
           /\ Held(stack') \subseteq Held(rest) \cup ToSet(level)
           /\ pc' = "collect" => Held(stack') = Held(rest) \cup ToSet(level)
  <1>1. CASE level = <<>>
    BY <1>1, HeldEmpty DEF Descend
  <1>2. CASE level # <<>> /\ Len(rest) >= MaxDepth
    BY <1>2 DEF Descend
  <1>3. CASE level # <<>> /\ ~(Len(rest) >= MaxDepth)
    <2>1. pc' = "collect" /\ stack' = Append(rest, level)
      BY <1>3 DEF Descend
    <2>2. Append(rest, level) \in Seq(Seq(Entries)) /\ Held(Append(rest, level)) = Held(rest) \cup ToSet(level)
      BY HeldAppend
    <2>3. Len(Append(rest, level)) <= MaxDepth
      <3>1. Len(Append(rest, level)) = Len(rest) + 1 /\ Len(rest) \in Nat
        OBVIOUS
      <3> QED  BY <1>3, <3>1, BoundAssumption
    <2> QED  BY <2>1, <2>2, <2>3
  <1> QED  BY <1>1, <1>2, <1>3

LEMMA WindowIs ==
    ASSUME CalmWalkInv
    PROVE  /\ Window \in SUBSET Group /\ \A g \in Window : above[g] = of
           /\ Page \in Seq(Entries)
           /\ \A e \in ToSet(Page) : e.tree = above /\ e.id \in Window
           /\ \A g \in Window \cap calm : \E e \in ToSet(Page) : e.id = g
           /\ Page = <<>> => Window \subseteq hidden
  <1>1. Window \in SUBSET Group /\ \A g \in Window : above[g] = of
    BY DEF Window, Children
  <1>2. above \in [Group -> Places] /\ \A g \in Window \cap calm : g \in Window \ hidden
    BY DEF CalmWalkInv, Shape, CalmInv
  <1> HIDE DEF Window
  <1> QED  BY <1>1, <1>2, ShownIs DEF Page

\* A calm group on no page so far is on this one, or behind it.
LEMMA OnPageOrBehind ==
    ASSUME CalmWalkInv, NEW g \in calm, above[g] = of, Rank(g) >= page * PageSize
    PROVE  g \in Window \/ Rank(g) >= (page + 1) * PageSize
  <1>1. g \in Group /\ Children(above, above[g]) \in SUBSET Nat /\ g \in Nat
    BY GroupAssumption DEF CalmWalkInv, Shape, Present, Children
  <1>2. Rank(g) = RankIn(Children(above, above[g]), g)
    BY DEF Rank, RankIn, Under
  <1>3. Rank(g) \in Nat
    BY <1>1, <1>2, RankType
  <1>4. page * PageSize \in Nat /\ (page + 1) * PageSize \in Nat
    BY BoundAssumption DEF CalmWalkInv, Shape
  <1> QED  BY <1>1, <1>3, <1>4 DEF Window, Children

LEMMA NextPageCalm == ASSUME CalmWalkInv, NextPage PROVE CalmWalkInv'
  <1>1. /\ pc = "list" /\ page < MaxPages /\ got' = got \o Page /\ page' = page + 1
        /\ UNCHANGED <<realm, pc, of, stack, into>>
    BY DEF NextPage
  <1>2. got \in Seq(Entries) /\ Page \in Seq(Entries)
    BY WindowIs DEF CalmWalkInv, Shape
  <1>3. got' \in Seq(Entries) /\ ToSet(got') = ToSet(got) \cup ToSet(Page)
    BY <1>1, <1>2, ToSetConcat
  <1>4. AtHand' = AtHand \cup ToSet(Page)
    BY <1>1, <1>3 DEF AtHand
  <1>5. UNCHANGED <<above, hidden, lazy, calm, Seen, Present>>
    BY <1>1 DEF realm, Seen, Present
  <1>6. Shape'
    BY <1>1, <1>3, <1>5, BoundAssumption DEF CalmWalkInv, Shape
  <1>7. CalmInv'
    BY <1>5 DEF CalmWalkInv, CalmInv
  <1>8. WalkInv'
    BY <1>1, <1>3, <1>4, <1>5, WindowIs DEF CalmWalkInv, WalkInv
  <1>9. ASSUME NEW g \in calm PROVE Covered(g)'
    <2>1. Covered(g)
      BY <1>1 DEF CalmWalkInv, CoverInv
    <2>2. CASE above[g] = of /\ Rank(g) >= page * PageSize
      <3>1. CASE g \in Window
        BY <1>4, <1>9, <3>1, WindowIs DEF Covered
      <3>2. CASE Rank(g) >= (page + 1) * PageSize
        <4>1. Rank(g)' = Rank(g)
          BY <1>5 DEF Rank
        <4> QED  BY <1>1, <1>5, <2>2, <3>2, <4>1 DEF Covered
      <3> QED  BY <2>2, <3>1, <3>2, OnPageOrBehind
    <2> QED  BY <1>4, <1>5, <2>1, <2>2 DEF Covered
  <1>10. CoverInv'
    BY <1>5, <1>9 DEF CoverInv
  <1> QED  BY <1>6, <1>7, <1>8, <1>10 DEF CalmWalkInv

\* Nothing calm comes behind a page without groups: either nothing at all does,
\* or the page is full of hidden groups and what comes behind it is cut off.
LEMMA NothingBehind ==
    ASSUME CalmWalkInv, Page = <<>>, NEW g \in calm \ CutOff, above[g] = of, Rank(g) >= page * PageSize
    PROVE  FALSE
  <1> DEFINE S == Children(above, of)
  <1>1. g \in Group /\ S \in SUBSET Nat /\ g \in S
    BY GroupAssumption DEF CalmWalkInv, Shape, Present, Children
  <1>2. Window \subseteq hidden
    BY WindowIs
  <1>3. Window = {}
    <2> SUFFICES ASSUME Window # {} PROVE FALSE
      OBVIOUS
    <2>1. g \in UNION {Below(above, h) \cup {h} : h \in {k \in S : Rank(k) >= page * PageSize}}
      BY <1>1
    <2> QED  BY <1>2, <2>1 DEF CutOff
  <1>4. page \in Nat /\ PageSize \in Nat \ {0}
    BY BoundAssumption DEF CalmWalkInv, Shape
  <1>5. (page + 1) * PageSize = page * PageSize + PageSize /\ page * PageSize \in Nat
    BY <1>4
  <1>6. Rank(g) = RankIn(S, g)
    BY DEF Rank, RankIn, Under
  <1>7. Rank(g) >= page * PageSize + PageSize
    BY <1>3, <1>5, OnPageOrBehind
  <1>8. Window = {h \in S : RankIn(S, h) >= page * PageSize /\ RankIn(S, h) < page * PageSize + PageSize}
    <2>1. \A h \in S : Rank(h) = RankIn(S, h)
      BY DEF Rank, RankIn, Under, Children
    <2>2. \A h \in S : RankIn(S, h) \in Nat
      BY <1>1, RankType
    <2> QED  BY <1>4, <1>5, <2>1, <2>2 DEF Window
  <1> HIDE DEF S
  <1>9. Cardinality(Window) = PageSize
    <2> DEFINE first == page * PageSize
    <2>1. first \in Nat
      BY <1>5
    <2>2. RankIn(S, g) >= first + PageSize
      BY <1>6, <1>7
    <2>3. Window = {h \in S : RankIn(S, h) >= first /\ RankIn(S, h) < first + PageSize}
      BY <1>8
    <2> HIDE DEF first
    <2> QED  BY <1>1, <1>4, <2>1, <2>2, <2>3, PageIsFull
  <1> QED  BY <1>3, <1>4, <1>9, FS_EmptySet

\* With a group everything calm below it is cut off.
LEMMA CutOffBelow ==
    ASSUME CalmWalkInv, NEW g \in calm \ CutOff, above[g] \in Group
    PROVE  above[g] \in calm \ CutOff
  <1>1. g \in Group /\ above[g] \in calm /\ above \in [Group -> Places]
    BY DEF CalmWalkInv, Shape, CalmInv, Present
  <1>2. ASSUME NEW h, above[g] \in Below(above, h) \cup {h} PROVE g \in Below(above, h)
    BY <1>1, <1>2, BelowIs
  <1>3. above[g] \notin CutOff
    BY <1>2 DEF CutOff
  <1> QED  BY <1>1, <1>3

LEMMA ListingEndsCalm == ASSUME CalmWalkInv, ListingEnds PROVE CalmWalkInv'
  <1>1. /\ pc = "list" /\ Page = <<>> /\ got' = <<>> /\ calm' = calm \ CutOff
        /\ \/ of = Top /\ got = <<>> /\ pc' = "count" /\ UNCHANGED stack
           \/ ~(of = Top /\ got = <<>>) /\ Descend(got, stack)
        /\ UNCHANGED <<above, hidden, lazy, of, page, into>>
    BY DEF ListingEnds
  <1>2. UNCHANGED <<above, hidden, lazy, Seen, Present>>
    BY <1>1 DEF Seen, Present
  <1>3. /\ pc' \in {"count", "collect", "failed"}
        /\ stack' \in Seq(Seq(Entries)) /\ Len(stack') <= MaxDepth
        /\ AtHand' \subseteq AtHand
        /\ pc' # "failed" => AtHand' = AtHand
        /\ pc' = "count" => of = Top /\ stack' = stack
    <2>1. got \in Seq(Entries) /\ stack \in Seq(Seq(Entries)) /\ Len(stack) <= MaxDepth
      BY DEF CalmWalkInv, Shape
    <2>2. CASE of = Top /\ got = <<>> /\ pc' = "count" /\ UNCHANGED stack
      BY <1>1, <2>1, <2>2 DEF AtHand
    <2>3. CASE Descend(got, stack)
      <3>1. /\ pc' \in {"collect", "failed"}
            /\ stack' \in Seq(Seq(Entries)) /\ Len(stack') <= MaxDepth
            /\ Held(stack') \subseteq Held(stack) \cup ToSet(got)
            /\ pc' = "collect" => Held(stack') = Held(stack) \cup ToSet(got)
        BY <2>1, <2>3, DescendIs
      <3> QED  BY <1>1, <3>1, HeldEmpty DEF AtHand
    <2> QED  BY <1>1, <2>2, <2>3
  <1>4. calm' \subseteq calm
    BY <1>1
  <1>5. Shape'
    BY <1>1, <1>2, <1>3, <1>4 DEF CalmWalkInv, Shape
  <1>6. CalmInv'
    <2>1. \A g \in calm' : above'[g] \in Group => above'[g] \in calm'
      BY <1>1, CutOffBelow
    <2>2. \A S \in SUBSET calm' : S \in SUBSET calm
      BY <1>4
    <2> QED  BY <1>2, <1>4, <2>1, <2>2 DEF CalmWalkInv, CalmInv
  <1>7. WalkInv'
    BY <1>1, <1>2, <1>3, <1>4 DEF CalmWalkInv, WalkInv
  <1>8. ASSUME pc' # "failed", NEW g \in calm' PROVE Covered(g)'
    <2>1. Covered(g)
      BY <1>1, <1>4 DEF CalmWalkInv, CoverInv
    <2>2. ~(above[g] = of /\ Rank(g) >= page * PageSize)
      BY <1>1, NothingBehind
    <2> QED  BY <1>2, <1>3, <1>8, <2>1, <2>2 DEF Covered
  <1>9. CoverInv'
    BY <1>8 DEF CoverInv
  <1> QED  BY <1>5, <1>6, <1>7, <1>9 DEF CalmWalkInv

\* What is dropped with a group that is not found is not calm.
LEMMA NoSuchGroupCalm == ASSUME CalmWalkInv, NoSuchGroup PROVE CalmWalkInv'
  <1>1. /\ pc = "list" /\ of # Top /\ (of \notin Present \/ ~lazy) /\ got' = <<>> /\ pc' = "collect"
        /\ UNCHANGED <<realm, of, page, stack, into>>
    BY DEF NoSuchGroup, NotFound
  <1>2. UNCHANGED <<above, hidden, lazy, calm, Seen, Present>>
    BY <1>1 DEF realm, Seen, Present
  <1>3. AtHand' = Held(stack)
    BY <1>1, HeldEmpty DEF AtHand
  <1>4. \A g \in calm : above[g] # of
    <2>1. of \in Group
      BY <1>1 DEF CalmWalkInv, Shape
    <2> QED  BY <1>1, <2>1 DEF CalmWalkInv, Shape, CalmInv, WalkInv
  <1>5. Shape'
    BY <1>1, <1>2 DEF CalmWalkInv, Shape
  <1>6. CalmInv'
    BY <1>2 DEF CalmWalkInv, CalmInv
  <1>7. WalkInv'
    BY <1>1, <1>2, <1>3 DEF CalmWalkInv, WalkInv, AtHand
  <1>8. ASSUME NEW g \in calm PROVE Covered(g)'
    <2>1. Covered(g)
      BY <1>1 DEF CalmWalkInv, CoverInv
    <2>2. \A e \in ToSet(got) : e.id # g
      BY <1>1, <1>4 DEF CalmWalkInv, WalkInv
    <2> QED  BY <1>2, <1>3, <1>4, <2>1, <2>2 DEF Covered, AtHand
  <1>9. CoverInv'
    BY <1>2, <1>8 DEF CoverInv
  <1> QED  BY <1>5, <1>6, <1>7, <1>9 DEF CalmWalkInv

\* A walk that fails, and one that ends without groups.
LEMMA EndsCalm ==
    ASSUME CalmWalkInv, UNCHANGED <<realm, of, page, got, stack, into>>,
           pc' = "failed" \/ (pc' = "done" /\ pc \in {"count", "collect"} /\ stack = <<>>)
    PROVE  CalmWalkInv'
  <1>1. UNCHANGED <<above, hidden, lazy, calm, Seen, Present, AtHand>>
    BY DEF realm, Seen, Present, AtHand
  <1>2. Shape'
    BY <1>1 DEF CalmWalkInv, Shape
  <1>3. CalmInv'
    BY <1>1 DEF CalmWalkInv, CalmInv
  <1>4. WalkInv'
    BY <1>1 DEF CalmWalkInv, WalkInv
  <1>5. CoverInv'
    BY <1>1 DEF CalmWalkInv, CoverInv, Covered
  <1> QED  BY <1>2, <1>3, <1>4, <1>5 DEF CalmWalkInv

-----------------------------------------------------------------------------
(* Looking at a group *)

LEMMA LookingIs ==
    ASSUME CalmWalkInv, Looking
    PROVE  /\ Entry \in Entries /\ Others \in Seq(Seq(Entries)) /\ Len(Others) <= MaxDepth
           /\ AtHand = Held(Others) \cup {Entry}
           /\ got = <<>> /\ pc = "collect"
  <1>1. stack \in Seq(Seq(Entries)) /\ Len(stack) <= MaxDepth /\ stack # <<>> /\ Level # <<>>
    BY DEF CalmWalkInv, Shape, Looking
  <1>2. got = <<>> /\ pc = "collect"
    BY DEF CalmWalkInv, WalkInv, Looking
  <1>3. /\ Level \in Seq(Entries) /\ Outer \in Seq(Seq(Entries)) /\ Len(Outer) = Len(stack) - 1
        /\ Held(stack) = Held(Outer) \cup ToSet(Level)
    BY <1>1, HeldLast DEF Level, Outer
  <1>4. Entry \in Entries /\ Tail(Level) \in Seq(Entries) /\ ToSet(Level) = ToSet(Tail(Level)) \cup {Entry}
    BY <1>1, <1>3, ToSetTail DEF Entry
  <1>5. Others \in Seq(Seq(Entries)) /\ Held(Others) = Held(Outer) \cup ToSet(Tail(Level))
    BY <1>3, <1>4, HeldAppend DEF Others
  <1>6. Len(Others) = Len(Outer) + 1 /\ Len(stack) \in Nat
    <2> HIDE DEF Outer, Level
    <2>1. Len(Append(Outer, Tail(Level))) = Len(Outer) + 1
      BY <1>3, <1>4
    <2> QED  BY <1>1, <2>1 DEF Others
  <1>7. Len(Others) <= MaxDepth
    BY <1>1, <1>3, <1>6
  <1>8. AtHand = Held(Others) \cup {Entry}
    BY <1>2, <1>3, <1>4, <1>5, HeldEmpty DEF AtHand
  <1> QED  BY <1>2, <1>4, <1>5, <1>7, <1>8

LEMMA SkipCalm == ASSUME CalmWalkInv, Skip PROVE CalmWalkInv'
  <1>1. Looking /\ Entry.id \in Seen /\ stack' = Others /\ UNCHANGED <<realm, pc, of, page, got, into>>
    BY DEF Skip
  <1>2. UNCHANGED <<above, hidden, lazy, calm, Seen, Present>>
    BY <1>1 DEF realm, Seen, Present
  <1>3. /\ stack' \in Seq(Seq(Entries)) /\ Len(stack') <= MaxDepth /\ AtHand = AtHand' \cup {Entry}
        /\ pc' = "collect" /\ got = <<>>
    BY <1>1, LookingIs, HeldEmpty DEF AtHand
  <1>4. Shape'
    BY <1>1, <1>2, <1>3 DEF CalmWalkInv, Shape
  <1>5. CalmInv'
    BY <1>2 DEF CalmWalkInv, CalmInv
  <1>6. WalkInv'
    BY <1>1, <1>2, <1>3 DEF CalmWalkInv, WalkInv
  <1>7. CoverInv'
    BY <1>1, <1>2, <1>3 DEF CalmWalkInv, CoverInv, Covered
  <1> QED  BY <1>4, <1>5, <1>6, <1>7 DEF CalmWalkInv

LEMMA TakeIs ==
    ASSUME CalmWalkInv, Take, Entry \in Entries
    PROVE  into' \in Seq(Group) /\ Seen' = Seen \cup {Entry.id}
  <1>1. into \in Seq(Group) /\ Entry.id \in Group
    BY DEF CalmWalkInv, Shape, Entries
  <1> QED  BY <1>1, ToSetAppend DEF Take, Seen

\* With a calm group its calm subgroups come, or their listing begins.
LEMMA FoundCalm == ASSUME CalmWalkInv, Found PROVE CalmWalkInv'
  <1>1. Looking /\ Take /\ UNCHANGED realm
    BY DEF Found
  <1>2. /\ Entry \in Entries /\ Others \in Seq(Seq(Entries)) /\ Len(Others) <= MaxDepth
        /\ AtHand = Held(Others) \cup {Entry}
        /\ got = <<>> /\ pc = "collect"
    BY <1>1, LookingIs
  <1>3. into' \in Seq(Group) /\ Seen' = Seen \cup {Entry.id}
    BY <1>1, <1>2, TakeIs
  <1> DEFINE id == Entry.id
             inside == Shown(Entry.tree, Children(Entry.tree, id))
  <1>4. id \in Group /\ Entry.tree \in [Group -> Places] /\ Children(Entry.tree, id) \in SUBSET Group
    BY <1>2 DEF Entries, Children
  <1>5. UNCHANGED <<above, hidden, lazy, calm, Present>>
    BY <1>1 DEF realm, Present
  <1>6. CalmInv'
    BY <1>5 DEF CalmWalkInv, CalmInv
  <1>7. \A g \in calm : Entry.tree[g] = above[g] /\ g \in Group
    BY <1>2 DEF CalmWalkInv, WalkInv, Shape, Present
  <1>8. \A g \in calm : above[g] = id => g \in Children(Entry.tree, id) \ hidden
    BY <1>7 DEF Children, CalmWalkInv, CalmInv
  \* All groups but those right below this one are covered as they were.
  <1>9. ASSUME Held(Others) \subseteq AtHand', NEW g \in calm, above[g] # id PROVE Covered(g)'
    <2>1. Covered(g)
      BY <1>2 DEF CalmWalkInv, CoverInv
    <2>2. CASE \E e \in AtHand : e.id = g
      BY <1>2, <1>3, <1>9, <2>2 DEF Covered
    <2>3. CASE g \in Seen \/ above[g] \in Group \ Seen
      BY <1>3, <1>5, <1>9, <2>3 DEF Covered
    <2> QED  BY <1>2, <2>1, <2>2, <2>3 DEF Covered
  <1>10. CASE SubgroupsInside
    <2>1. ~lazy /\ Descend(inside, Others) /\ UNCHANGED <<of, page, got>>
      BY <1>10 DEF SubgroupsInside
    <2>2. /\ inside \in Seq(Entries)
          /\ \A e \in ToSet(inside) : e.tree = Entry.tree /\ e.id \in Children(Entry.tree, id) \ hidden
          /\ \A g \in Children(Entry.tree, id) \ hidden : \E e \in ToSet(inside) : e.id = g
      BY <1>4, ShownIs
    <2> HIDE DEF inside
    <2>3. /\ pc' \in {"collect", "failed"}
          /\ stack' \in Seq(Seq(Entries)) /\ Len(stack') <= MaxDepth
          /\ Held(stack') \subseteq Held(Others) \cup ToSet(inside)
          /\ pc' = "collect" => Held(stack') = Held(Others) \cup ToSet(inside)
      BY <1>2, <2>1, <2>2, DescendIs
    <2>4. /\ AtHand' \subseteq AtHand \cup ToSet(inside)
          /\ pc' = "collect" => AtHand' = Held(Others) \cup ToSet(inside)
      BY <1>2, <2>1, <2>3, HeldEmpty DEF AtHand
    <2>5. Shape'
      BY <1>3, <1>5, <2>1, <2>3 DEF CalmWalkInv, Shape
    <2>6. \A e \in AtHand' : \A g \in calm : e.tree[g] = above[g]
      BY <1>7, <2>2, <2>4 DEF CalmWalkInv, WalkInv
    <2>7. WalkInv'
      BY <1>2, <1>5, <2>1, <2>3, <2>6 DEF WalkInv
    <2>8. ASSUME pc' # "failed", NEW g \in calm PROVE Covered(g)'
      <3>1. CASE above[g] = id
        BY <1>8, <2>2, <2>3, <2>4, <2>8, <3>1 DEF Covered
      <3> QED  BY <1>9, <2>3, <2>4, <2>8, <3>1
    <2>9. CoverInv'
      BY <1>5, <2>8 DEF CoverInv
    <2> QED  BY <1>6, <2>5, <2>7, <2>9 DEF CalmWalkInv
  <1>11. CASE SubgroupsToFetch
    <2>1. /\ IF lazy THEN Children(Entry.tree, id) # {} ELSE Children(Entry.tree, id) \subseteq hidden
          /\ stack' = Others /\ pc' = "list" /\ of' = id /\ page' = 0 /\ got' = <<>>
      BY <1>11 DEF SubgroupsToFetch
    <2> HIDE DEF id
    <2>2. AtHand' = Held(Others)
      BY <2>1, HeldEmpty DEF AtHand
    <2>3. Shape'
      BY <1>2, <1>3, <1>4, <1>5, <2>1, BoundAssumption DEF CalmWalkInv, Shape
    <2>4. ~lazy => \A g \in calm : above[g] # id
      BY <1>8, <2>1
    <2>5. WalkInv'
      <3>1. \A e \in AtHand' : \A g \in calm : e.tree[g] = above[g]
        BY <1>2, <2>2 DEF CalmWalkInv, WalkInv
      <3>2. id # Top
        BY <1>4, GroupAssumption
      <3>3. ToSet(got') = {}
        BY <2>1, HeldEmpty
      <3> QED  BY <1>5, <2>1, <2>4, <3>1, <3>2, <3>3 DEF WalkInv
    <2>6. ASSUME NEW g \in calm PROVE Covered(g)'
      <3>1. CASE above[g] = id
        <4>1. Rank(g)' \in Nat
          <5>1. g \in Nat /\ Children(above', above'[g]) \in SUBSET Nat
            BY <1>7, GroupAssumption DEF Children
          <5>2. Rank(g)' = RankIn(Children(above', above'[g]), g)
            BY DEF Rank, RankIn, Under
          <5> QED  BY <5>1, <5>2, RankType
        <4>2. page' * PageSize = 0
          BY <2>1, BoundAssumption
        <4> QED  BY <1>5, <2>1, <3>1, <4>1, <4>2 DEF Covered
      <3> QED  BY <1>9, <2>2, <3>1
    <2>7. CoverInv'
      BY <1>5, <2>6 DEF CoverInv
    <2> QED  BY <1>6, <2>3, <2>5, <2>7 DEF CalmWalkInv
  <1>12. CASE NoSubgroups
    <2>1. Children(Entry.tree, id) = {} /\ stack' = Others /\ UNCHANGED <<pc, of, page, got>>
      BY <1>12 DEF NoSubgroups
    <2> HIDE DEF id
    <2>2. AtHand' = Held(Others)
      BY <1>2, <2>1, HeldEmpty DEF AtHand
    <2>3. Shape'
      BY <1>2, <1>3, <1>5, <2>1 DEF CalmWalkInv, Shape
    <2>4. WalkInv'
      BY <1>2, <1>5, <2>1, <2>2 DEF CalmWalkInv, WalkInv
    <2>5. CoverInv'
      BY <1>5, <1>8, <1>9, <2>1, <2>2 DEF CoverInv
    <2> QED  BY <1>6, <2>3, <2>4, <2>5 DEF CalmWalkInv
  <1> QED  BY <1>10, <1>11, <1>12 DEF Found

LEMMA LevelDoneCalm == ASSUME CalmWalkInv, LevelDone PROVE CalmWalkInv'
  <1>1. /\ stack # <<>> /\ Level = <<>> /\ stack' = Outer /\ pc = "collect"
        /\ UNCHANGED <<realm, pc, of, page, got, into>>
    BY DEF LevelDone
  <1>2. UNCHANGED <<above, hidden, lazy, calm, Seen, Present>>
    BY <1>1 DEF realm, Seen, Present
  <1>3. stack \in Seq(Seq(Entries)) /\ Len(stack) <= MaxDepth /\ Len(stack) \in Nat /\ MaxDepth \in Nat
    BY BoundAssumption DEF CalmWalkInv, Shape
  <1>4. stack' \in Seq(Seq(Entries)) /\ Len(stack') = Len(stack) - 1 /\ Held(stack) = Held(stack')
    BY <1>1, <1>3, HeldLast, HeldEmpty DEF Level, Outer
  <1>5. AtHand' = AtHand
    BY <1>1, <1>4 DEF AtHand
  <1>6. Shape'
    BY <1>1, <1>2, <1>3, <1>4 DEF CalmWalkInv, Shape
  <1>7. CalmInv'
    BY <1>2 DEF CalmWalkInv, CalmInv
  <1>8. WalkInv'
    BY <1>1, <1>2, <1>5 DEF CalmWalkInv, WalkInv
  <1>9. CoverInv'
    BY <1>1, <1>2, <1>5 DEF CalmWalkInv, CoverInv, Covered
  <1> QED  BY <1>6, <1>7, <1>8, <1>9 DEF CalmWalkInv

-----------------------------------------------------------------------------
(* The whole walk *)

LEMMA CalmWalkInit == Init => CalmWalkInv
  <1> SUFFICES ASSUME Init PROVE CalmWalkInv
    OBVIOUS
  <1>1. /\ above \in InitialTree /\ hidden \in InitialHidden /\ lazy \in BOOLEAN
        /\ calm = Present \ UNION {Below(above, h) \cup {h} : h \in hidden}
        /\ pc = "list" /\ of = Top /\ page = 0 /\ got = <<>> /\ stack = <<>> /\ into = <<>>
    BY DEF Init
  <1>2. /\ above \in [Group -> Group \cup {Top, Nowhere}]
        /\ \A g \in Group : above[g] \in Group => above[above[g]] # Nowhere
        /\ \A S \in SUBSET Group : S # {} => \E g \in S : above[g] \notin S
    BY <1>1, TreeAssumption
  <1>3. above \in [Group -> Places] /\ hidden \subseteq Group
    BY <1>1, <1>2, HiddenAssumption DEF Places
  <1>4. \A g : g \in calm <=> g \in Present /\ \A h \in hidden : g \notin Below(above, h) /\ g # h
    BY <1>1
  <1>5. CalmInv
    <2>1. calm \cap hidden = {}
      BY <1>4
    <2>2. ASSUME NEW g \in calm, above[g] \in Group PROVE above[g] \in calm
      <3>1. g \in Group /\ above[g] \in Present
        BY <1>2, <1>4, <2>2 DEF Present
      <3>2. \A h \in hidden : g \in Below(above, h) <=>
                                 above[g] = h \/ (above[g] \in Group /\ above[g] \in Below(above, h))
        BY <1>3, <3>1, BelowIs
      <3> QED  BY <1>4, <2>2, <3>1, <3>2
    <2>3. calm \in SUBSET Group
      BY <1>4 DEF Present
    <2> QED  BY <1>2, <2>1, <2>2, <2>3 DEF CalmInv
  <1>6. Shape
    <2>1. calm \subseteq Present
      BY <1>4
    <2>2. got \in Seq(Entries) /\ stack \in Seq(Seq(Entries)) /\ into \in Seq(Group) /\ Len(stack) = 0
      BY <1>1
    <2> QED  BY <1>1, <1>3, <2>1, <2>2, BoundAssumption DEF Shape
  <1>7. AtHand = {} /\ Seen = {} /\ ToSet(got) = {}
    BY <1>1, HeldEmpty DEF AtHand, Seen
  <1>8. WalkInv
    BY <1>1, <1>7 DEF WalkInv
  <1>9. ASSUME NEW g \in calm PROVE Covered(g)
    <2>1. g \in Group /\ above[g] \in Group \cup {Top}
      BY <1>4 DEF Present
    <2>2. Rank(g) \in Nat
      <3>1. g \in Nat /\ Children(above, above[g]) \in SUBSET Nat
        BY <2>1, GroupAssumption DEF Children
      <3>2. Rank(g) = RankIn(Children(above, above[g]), g)
        BY DEF Rank, RankIn, Under
      <3> QED  BY <3>1, <3>2, RankType
    <2>3. page * PageSize = 0
      BY <1>1, BoundAssumption
    <2> QED  BY <1>1, <1>7, <2>1, <2>2, <2>3 DEF Covered
  <1> QED  BY <1>5, <1>6, <1>8, <1>9 DEF CalmWalkInv, CoverInv

LEMMA CalmWalkNext == CalmWalkInv /\ [Next]_vars => CalmWalkInv'
  <1> SUFFICES ASSUME CalmWalkInv, [Next]_vars PROVE CalmWalkInv'
    OBVIOUS
  <1>1. CASE TooManyPages \/ RequestFailed
    BY <1>1, EndsCalm DEF TooManyPages, RequestFailed
  <1>2. CASE Counted \/ CountFailed
    <2>1. pc = "count" /\ stack = <<>>
      BY <1>2 DEF Counted, CountFailed, CalmWalkInv, WalkInv
    <2> QED  BY <1>2, <2>1, EndsCalm DEF Counted, CountFailed
  <1>3. CASE Done
    BY <1>3, EndsCalm DEF Done
  <1>4. ASSUME RealmStep PROVE CalmWalkInv'
    BY <1>4, RealmStepWalk
  <1>5. CASE \E g \in Group, n \in Group \cup {Top} : CreateGroup(g, n) \/ MoveGroup(g, n)
    BY <1>4, <1>5, CreateIsRealmStep, MoveIsRealmStep DEF CalmWalkInv
  <1>6. CASE \E g \in Group : DeleteGroup(g)
    BY <1>4, <1>6, DeleteIsRealmStep DEF CalmWalkInv
  <1>7. CASE UNCHANGED vars
    <2>1. RealmStep
      BY <1>7 DEF vars, realm, RealmStep, CalmWalkInv, Shape, CalmInv
    <2> QED  BY <1>4, <2>1
  <1>8. CASE Over
    BY <1>7, <1>8 DEF Over
  <1> QED  BY <1>1, <1>2, <1>3, <1>5, <1>6, <1>7, <1>8, NextPageCalm, ListingEndsCalm, NoSuchGroupCalm,
              SkipCalm, FoundCalm, LevelDoneCalm DEF Next, Walking

\* The walk keeps within its pages and its depth, and looks at groups only, in
\* any realm (maxPages and maxDepth of Groups and collect).
THEOREM TypeCorrect == Spec => []TypeOK
  <1>1. CalmWalkInv => TypeOK
    <2> SUFFICES ASSUME CalmWalkInv PROVE TypeOK
      OBVIOUS
    <2>1. /\ pc \in {"list", "collect", "count", "done", "failed"}
          /\ of \in Group \cup {Top} /\ page \in 0..MaxPages /\ into \in Seq(Group)
          /\ Len(stack) <= MaxDepth /\ got \in Seq(Entries) /\ stack \in Seq(Seq(Entries))
      BY DEF CalmWalkInv, Shape
    <2>2. ASSUME NEW s \in ToSet(stack) \cup {got}, NEW e \in ToSet(s) PROVE e.id \in Group
      <3>1. s \in Seq(Entries)
        BY <2>1, ToSetIs
      <3>2. e \in Entries
        BY <3>1, ToSetIs
      <3> QED  BY <3>2 DEF Entries
    <2> QED  BY <2>1, <2>2 DEF TypeOK
  <1> QED  BY CalmWalkInit, CalmWalkNext, <1>1, PTL DEF Spec

\* For any realm, page size and depth, and however groups are created, moved and
\* deleted between two requests: an answer leaves out no group that was there all
\* along in listings that lost nobody and were not cut off by a window full of
\* hidden groups (listGroups, collect).  At the end nothing is at hand, so a calm
\* group that is missing stands below one that is missing, and there is no circle.
THEOREM AnswersAreWhole == Spec => []CalmListingsAreWhole
  <1>1. CalmWalkInv => CalmListingsAreWhole
    <2> SUFFICES ASSUME CalmWalkInv, pc = "done" PROVE calm \subseteq Seen
      BY DEF CalmListingsAreWhole
    <2>1. AtHand = {}
      BY HeldEmpty DEF CalmWalkInv, WalkInv, AtHand
    <2> DEFINE S == calm \ Seen
    <2> SUFFICES ASSUME S # {} PROVE FALSE
      OBVIOUS
    <2>2. PICK g \in S : above[g] \notin S
      BY DEF CalmWalkInv, CalmInv
    <2>3. above[g] \in Group \ Seen
      BY <2>1 DEF CalmWalkInv, CoverInv, Covered
    <2> QED  BY <2>2, <2>3 DEF CalmWalkInv, CalmInv
  <1> QED  BY CalmWalkInit, CalmWalkNext, <1>1, PTL DEF Spec

=============================================================================
