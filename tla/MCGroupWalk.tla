----------------------------- MODULE MCGroupWalk -----------------------------
(* Small instances of GroupWalk: trees of a few groups. *)
EXTENDS GroupWalk, TLC

CONSTANT Late  \* the group that is not there at first

\* Group 1 at the top, the others at the top as well or below it; what is
\* created and moved makes the deeper trees.
Arranged ==
    {t \in [Group -> {Top, 1, Nowhere}] :
        /\ t[1] = Top
        /\ \A g \in Group : t[g] = Nowhere <=> g = Late}

NoGroup == {[g \in Group |-> Nowhere]}

Trees == Arranged \cup NoGroup

\* All groups can be seen, or all but one, or all but two that fill a page where
\* they follow each other, or none of them.
Hidings == {{}, {4}, {3, 4}, Group}

OneOfEach == [k \in Outside |-> 1]

=============================================================================
