------------------------------ MODULE MCStructure ------------------------------
(* Small instances of Structure. *)
EXTENDS Structure, TLC

CONSTANTS
    Figures, Signed,     \* what the columns may read
    Tolerances, FewTolerances

\* Every combination of columns of one set of carriers and figures; a device
\* outside S has none.
Readings(S, C, F) ==
    {[d \in Device |-> IF d \in S THEN r[d] ELSE [c \in {} |-> 0]] :
        r \in [S -> UNION {[K -> F] : K \in SUBSET C}]}

\* The names of the last two devices have something in common.
SomePrefix == [pair \in Device \X Device |-> IF pair[1] > 2 /\ pair[2] > 2 THEN 1 ELSE 0]

\* Four meters of one carrier, built together; and three of two carriers, some
\* of which come later.
FourMeters == [reading : Readings(Device, {1}, Figures), tolerance : Tolerances, members : {Device}]
TwoCarriers == [reading : Readings(Device \ {4}, {1, 2}, Signed), tolerance : FewTolerances,
                members : {S \in SUBSET (Device \ {4}) : Cardinality(S) >= 2}]
Both == FourMeters \cup TwoCarriers

\* Out of range on either side, and between.
ManyTolerances == {0 - 5, 20, 50, 130}

\* Later windows: everybody reads the same; the last reads most; one reads more
\* of the other carrier than before, one more than all before it, one nothing.
Same     == [d \in Device |-> (1 :> 2)]
Reversed == [d \in Device |-> (1 :> d)]
Changed  == [d \in Device |-> CASE d = 1 -> (1 :> 1) @@ (2 :> 0)
                               [] d = 2 -> (1 :> 1) @@ (2 :> 3)
                               [] d = 3 -> (1 :> 6)
                               [] d = 4 -> [c \in {} |-> 0]]
Later == {Same, Reversed, Changed}

\* A meter that was exchanged, and two that ran.
Exchanged == {0 - 1, 1, 2}

=============================================================================
