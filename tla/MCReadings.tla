------------------------------ MODULE MCReadings ------------------------------
(* Small instances of Readings: two carriers, electricity before gas. *)
EXTENDS Readings

Functions == [c \in {1, 2} |-> "energy"]
Media     == [c \in {1, 2} |-> IF c = 1 THEN "electricity" ELSE "gas"]

Value(service, path, aspects) ==
    [service |-> service, path |-> path, function |-> "energy", aspects |-> aspects]

\* A counter that two services expose.
Meter == {Value(1, <<"total">>, {"electricity"}), Value(2, <<"total">>, {"electricity"})}

\* Two phases, and what is fed in.
Phases == {Value(1, <<"l1", "energy">>, {"electricity", "consumption"}),
           Value(1, <<"l2", "energy">>, {"electricity"}),
           Value(1, <<"out">>, {"electricity", "generation"})}

\* Gas in, electricity out, and a list the wrapper has no name for.
Plant == {Value(1, <<"gas">>, {"gas", "electricity"}), Value(2, <<"burnt">>, {"gas"}),
          Value(1, <<"*", "energy">>, {"gas"})}

Definitions == {Meter, Phases, Plant}

\* No row, one row, two, one of them without a number, an exchanged meter.
SomeSeries == {<<>>, <<1>>, <<1, 3>>, <<None, 3>>, <<3, 1>>}

MovedSeries == {<<>>, <<1, 3>>, <<3, 1>>}

\* The columns that stand for a carrier hold anything; what must not be read has
\* counted.
AnyRows(free) ==
    {[c \in {1, 2} \X {v.path : v \in UNION Definitions} |->
        IF c \in free THEN f[c] ELSE <<1, 3>>] : f \in [free -> SomeSeries]}

\* A plant and a meter; and a supply of two phases, alone.
Start ==
    [definition : {[t1 |-> Plant, t2 |-> Meter]}, typeOf : {<<"t1", "t2">>},
     rows : AnyRows({<<1, <<"gas">>>>, <<1, <<"burnt">>>>})]
    \cup
    [definition : {[t1 |-> Phases, t2 |-> Meter]}, typeOf : {<<"t1", None>>},
     rows : AnyRows({<<1, <<"l1", "energy">>>>, <<1, <<"l2", "energy">>>>})]

=============================================================================
