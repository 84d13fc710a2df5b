----------------------------- MODULE MCReconcile -----------------------------
(* Small instances of Reconcile: the paths, the states to start from and   *)
(* the budgets of outside events that the runs choose from.                *)
EXTENDS Reconcile, TLC

CONSTANTS g1, g2, d1, d2

\* Two siblings, and a place further down with the name of one of them.
A == <<"a">>
B == <<"b">>
DeepA == <<"s", "a">>

TwoNames == {A, B}
SameName == {A, DeepA}

\* And one that the filter hides.
Internal == <<"i", "a">>
WithInternal == TwoNames \cup {Internal}
SameWithInternal == SameName \cup {Internal}

\* One group at A, and the other one may come; or it is there already.
OnlyOne == {[g \in Group |-> IF g = g1 THEN A ELSE None]}
Both    == {[g \in Group |-> IF g = g1 THEN A ELSE DeepA]}

\* Every device of the first group; or some also of the second.
AllInA == {[d \in Device |-> {A}]}
Mixed  == {[d \in Device |-> IF d = d1 THEN {A} ELSE {B}]}

\* Nothing stored; or a graph from before group ids were recorded; or one of
\* somebody else's that is named like the group, alone or beside the other.
Graph(path, devices) ==
    [gid |-> None, path |-> path, name |-> "a", root |-> "a", nodes |-> devices]
Empty    == {[i \in GraphId |-> None]}
Legacy   == {[i \in GraphId |-> IF i = 1 THEN Graph(A, {d1}) ELSE None]}
Stranger == {[i \in GraphId |-> IF i = 1 THEN Graph(None, {}) ELSE None]}
Beside   == {[i \in GraphId |-> CASE i = 1 -> Graph(None, {})
                                  [] i = 2 -> Graph(A, {d1})
                                  [] OTHER -> None]}
StrangerOrBeside == Stranger \cup Beside

\* At most total outside events, and of each kind no more than given.
Give(total, f) == ("any" :> total) @@ f @@ [k \in Outside |-> 0]

Faults == Give(4, "rename" :> 2 @@ "create" :> 1 @@ "delete" :> 1 @@ "edit" :> 1
                  @@ "erase" :> 1 @@ "blind" :> 1 @@ "torn" :> 1
                  @@ "fail" :> 1 @@ "crash" :> 1)
Healing == Give(3, "revoke" :> 1 @@ "rename" :> 1 @@ "delete" :> 1 @@ "torn" :> 1
                   @@ "regrant" :> 1
                   @@ "wish" :> 1 @@ "fail" :> 1 @@ "crash" :> 1)

\* Just enough for the disagreements with the documentation.
OneRename  == Give(1, "rename" :> 1)
OneFailure == Give(2, "fail" :> 1 @@ "wish" :> 1)
RenameAndFailure == Give(2, "rename" :> 1 @@ "fail" :> 1)
RenameAndEdit == Give(2, "rename" :> 1 @@ "edit" :> 1)

=============================================================================
