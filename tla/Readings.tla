------------------------------- MODULE Readings -------------------------------
(***************************************************************************)
(* What each device of a group used of each carrier, measured once per     *)
(* pass: which outputs of a device type read a carrier (pkg/carrier), the  *)
(* questions asked of the timescale wrapper in batches and the reading     *)
(* back of the answers (pkg/consumption), and the cache in front of it     *)
(* (readings of pkg/reconcile, Readings, PutReadings and the two refreshes *)
(* of pkg/cache).  One step is one call to the wrapper or one refresh; all *)
(* of it runs on the goroutine of the loop, so passes do not overlap.      *)
(*                                                                         *)
(* Figures are integers, and a name of a content variable holds no dot.    *)
(***************************************************************************)
EXTENDS Integers, Sequences, FiniteSets, FiniteSetsExt, SequencesExt

CONSTANTS
    Device, Type,
    Carrier,         \* carriers, in the order of model.Carriers
    FunctionOf,      \* [Carrier -> measuring function it is counted with]
    MediumOf,        \* [Carrier -> aspect that names it]
    UnreadAspect,    \* GenerationAspectId and UnreadAspectIds
    Addressable,     \* the names the wrapper's column pattern allows
    Definition,      \* what a type may be: sets of the variables of its outputs
    Initial,         \* what the platform may hold at first; a column holds, over a
                     \* window, rows in time, each with a number or without
    Series,          \* what a column may come to hold over a later window
    BatchSizes, Ttl, MaxPasses, MaxChanges,
    None

\* The paths a value may have.
Path == {v.path : v \in UNION Definition}

ASSUME DeviceAssumption  == IsFiniteSet(Device) /\ \A V \in Definition : IsFiniteSet(V)
ASSUME CarrierAssumption == Carrier \subseteq Nat
ASSUME BatchAssumption   == BatchSizes \subseteq Nat \ {0}
\* The services of a type are told apart by their place in it.
ASSUME ServiceAssumption == \A V \in Definition : \A v \in V : v.service \in Nat
ASSUME NumberAssumption  == None \notin Int /\ None \notin Type
ASSUME InitialAssumption ==
    \A i \in Initial : /\ i.definition \in [Type -> Definition]
                       /\ i.typeOf \in [Device -> Type \cup {None}]
                       /\ i.rows \in [Device \X Path -> Seq(Int \cup {None})]
ASSUME SeriesAssumption  == Series \subseteq Seq(Int \cup {None})

VARIABLES
    definition, typeOf,  \* device repository: [Type -> variables], [Device -> type or None]
    rows,                \* wrapper: [Device and path -> series of the pass's window]
    changes,             \* changes made there
    known,               \* cache.deviceById: [devices it has -> type and variables]
    held,                \* cache.readings: [keys it has -> reading]
    clock,               \* of the passes, the newest
    batchSize, done,
    phase,               \* "idle", "fetch"
    group,               \* the devices of the pass, as the cache had them
    window,              \* of the pass
    cached,              \* what the cache had of it
    asks,                \* Fetch's asks
    read,                \* [leg -> figure or None]
    start,               \* legs sent
    outcome, result      \* of the last pass: "none", "measured" or "failed"

platformVars == <<definition, typeOf, rows, changes>>
cacheVars    == <<known, held>>
fetchVars    == <<phase, group, window, cached, asks, read, start, outcome, result>>
vars == <<platformVars, cacheVars, clock, batchSize, done, fetchVars>>

Empty == [k \in {} |-> None]

-----------------------------------------------------------------------------
(* The columns of a device type *)

\* The carrier a value counts what was drawn of; the first of two media.
CarrierOf(v) ==
    LET C == {c \in Carrier : v.function = FunctionOf[c] /\ MediumOf[c] \in v.aspects}
    IN  IF C = {} \/ v.aspects \cap UnreadAspect # {} THEN None ELSE Min(C)

\* collect: a name that cannot be addressed ends the walk, and with it everything
\* below it.  The walk is folded: a variable carries the names on its way down.
Collected(variables) == {v \in variables : ToSet(v.path) \subseteq Addressable}

Columns(variables) ==
    {[service |-> v.service, name |-> v.path, carrier |-> CarrierOf(v)] :
        v \in {w \in Collected(variables) : CarrierOf(w) # None}}

CarriersOf(variables) == {c.carrier : c \in Columns(variables)}

-----------------------------------------------------------------------------
(* The cache *)

KeysOf(D) == {<<d, c>> : d \in D, c \in Carrier}

Kept(f, K) == [k \in DOMAIN f \cap K |-> f[k]]

\* The right one wins.
Over(f, g) == [k \in DOMAIN f \cup DOMAIN g |-> IF k \in DOMAIN g THEN g[k] ELSE f[k]]

Entry(d) == [type |-> typeOf[d], variables |-> definition[typeOf[d]]]

\* RefreshDevices: the listing replaces the devices, and takes the readings of those
\* that are gone along.
RefreshDevices ==
    LET next == [d \in {e \in Device : typeOf[e] # None} |-> Entry(d)]
    IN  /\ phase = "idle" /\ ~done
        /\ known' = next
        /\ held' = Kept(held, KeysOf(DOMAIN next))
        /\ UNCHANGED <<platformVars, clock, batchSize, done, fetchVars>>

\* RefreshDevice: gone, or of another type, and its readings go.
RefreshDevice(d) ==
    /\ phase = "idle" /\ ~done
    /\ known' = IF typeOf[d] = None THEN Kept(known, DOMAIN known \ {d})
                ELSE Over(known, [e \in {d} |-> Entry(e)])
    /\ held' = IF typeOf[d] = None \/ (d \in DOMAIN known /\ known[d].type # typeOf[d])
               THEN Kept(held, DOMAIN held \ KeysOf({d})) ELSE held
    /\ UNCHANGED <<platformVars, clock, batchSize, done, fetchVars>>

\* Mutant of Fresh: a figure is good for as long as its ttl, over any stretch.
FreshAnyWindow(key, w, now) ==
    key \in DOMAIN held /\ held[key].fetchedAt >= now - Ttl

\* Cache.Readings: known, of this very window, and not older than the ttl.
Fresh(key, w, now) ==
    /\ key \in DOMAIN held
    /\ held[key].window = w
    /\ held[key].fetchedAt >= now - Ttl

-----------------------------------------------------------------------------
(* What is asked *)

Bound == {"first", "last"}

\* One ask per path and carrier: of the services that expose a value, the first.
AsksOf(d, variables) ==
    {[device |-> d, column |-> c] : c \in
        {c \in Columns(variables) : \A e \in Columns(variables) :
            e.name = c.name /\ e.carrier = c.carrier => c.service <= e.service}}

Legs == 1..(2 * Len(asks))

\* build: every ask has two legs, the oldest row and the newest.
Leg(n) == [ask |-> (n + 1) \div 2, bound |-> IF n % 2 = 1 THEN "first" ELSE "last"]
Slice == start + 1..Min({start + batchSize, 2 * Len(asks)})

-----------------------------------------------------------------------------
(* The wrapper *)

\* One row at one end of the window; nothing if there is no row in it.
Cell(n) ==
    LET ask    == asks[Leg(n).ask]
        series == rows[ask.device, ask.column.name]
    IN  IF series = <<>> THEN None
        ELSE IF Leg(n).bound = "first" THEN Head(series) ELSE Last(series)

\* The answer to one call: an element per question, its index counted from 0
\* within the call, in the order the wrapper's goroutines finish.  It may hold
\* an element twice and elements of indices nobody asked about.
Answers ==
    LET size   == Cardinality(Slice)
        whole  == [i \in 1..size |-> [index |-> i - 1, cell |-> Cell(start + i)]]
        stray  == <<[index |-> 0 - 1, cell |-> 7], [index |-> size, cell |-> 7]>>
        silent == <<[index |-> 0, cell |-> None]>>
    IN  {whole, silent \o Reverse(whole), stray \o whole \o whole}

\* One name out of the pattern and the whole call is rejected.
Accepted == \A n \in Slice : ToSet(asks[Leg(n).ask].column.name) \subseteq Addressable

-----------------------------------------------------------------------------
(* Reading it back *)

\* Mutant of Figure: an index is taken as one of the whole list.
FigureNoOffset(answer, n) ==
    LET S == {i \in DOMAIN answer : answer[i].index + 1 = n /\ answer[i].cell # None}
    IN  IF S = {} THEN read[n] ELSE answer[Min(S)].cell

\* The first element with the index of the leg that has a number in its row.
Figure(answer, n) ==
    LET S == {i \in DOMAIN answer : start + answer[i].index + 1 = n /\ answer[i].cell # None}
    IN  IF S = {} THEN read[n] ELSE answer[Min(S)].cell

Counted(i) == read[2 * i - 1] # None /\ read[2 * i] # None

Distance(i) == read[2 * i] - read[2 * i - 1]

\* The difference per column, the sum per carrier; no entry without a distance.
Totals ==
    LET AskKey(i) == <<asks[i].device, asks[i].column.carrier>>
        C == {i \in DOMAIN asks : Counted(i)}
    IN  [k \in {AskKey(i) : i \in C} |->
            [value     |-> SumFunctionOnSet([i \in C |-> Distance(i)], {i \in C : AskKey(i) = k}),
             window    |-> window,
             fetchedAt |-> clock]]

-----------------------------------------------------------------------------
(* A pass *)

Init ==
    /\ \E i \in Initial : definition = i.definition /\ typeOf = i.typeOf /\ rows = i.rows
    /\ changes = 0
    /\ known = Empty /\ held = Empty
    /\ clock = 0 /\ done = FALSE
    /\ batchSize \in BatchSizes
    /\ phase = "idle"
    /\ group = Empty /\ window = None /\ cached = Empty
    /\ asks = <<>> /\ read = <<>> /\ start = 0
    /\ outcome = "none" /\ result = Empty

\* Time passes between two passes: the window of one is not that of another.
NewPass(G) ==
    LET now     == clock + 1
        fresh   == {k \in KeysOf(G) : k[2] \in CarriersOf(known[k[1]].variables) /\ Fresh(k, now, now)}
        missing == {d \in G : \E c \in CarriersOf(known[d].variables) : <<d, c>> \notin fresh}
        toAsk   == SetToSeq(UNION {AsksOf(d, known[d].variables) : d \in missing})
    IN  /\ clock' = now /\ window' = now
        /\ group' = Kept(known, G)
        /\ cached' = Kept(held, fresh)
        /\ asks' = toAsk
        /\ read' = [n \in 1..(2 * Len(toAsk)) |-> None]

\* The stretch of a new window: in one column it may hold other rows than that
\* of the last.  They do not change while they are read.
NextWindow(G) ==
    \/ UNCHANGED rows
    \/ /\ clock > 0
       /\ \E d \in G, S \in Series : \E v \in known[d].variables :
             rows' = [rows EXCEPT ![<<d, v.path>>] = S]

StartPass(G) ==
    /\ phase = "idle" /\ ~done /\ clock < MaxPasses
    /\ NewPass(G) /\ NextWindow(G)
    /\ phase' = "fetch" /\ start' = 0
    /\ outcome' = "none" /\ result' = Empty
    /\ UNCHANGED <<definition, typeOf, changes, cacheVars, batchSize, done>>

More == phase = "fetch" /\ start < 2 * Len(asks)

\* Fetch and with it the pass over this group return an error.
Fail ==
    /\ phase' = "idle" /\ outcome' = "failed"
    /\ UNCHANGED <<platformVars, cacheVars, clock, batchSize, done,
                   group, window, cached, asks, read, start, result>>

Cancelled == More /\ done /\ Fail

\* Mutant of CallFails: what has come back so far is put into the cache.
CallFailsHalf ==
    /\ More /\ ~done
    /\ phase' = "idle" /\ outcome' = "failed"
    /\ held' = Over(held, Totals)
    /\ UNCHANGED <<platformVars, known, clock, batchSize, done,
                   group, window, cached, asks, read, start, result>>

CallFails == More /\ ~done /\ Fail

Call ==
    /\ More /\ ~done /\ Accepted
    /\ \E answer \in Answers :
          read' = [n \in Legs |-> IF n \in Slice THEN Figure(answer, n) ELSE read[n]]
    /\ start' = start + batchSize
    /\ UNCHANGED <<platformVars, cacheVars, clock, batchSize, done,
                   phase, group, window, cached, asks, outcome, result>>

\* Nothing missing or nothing left to ask: the readings are put into the cache
\* and handed to the pass.
Finish ==
    /\ phase = "fetch" /\ ~More
    /\ phase' = "idle" /\ outcome' = "measured"
    /\ held' = Over(held, Totals)
    /\ result' = Over(cached, Totals)
    /\ UNCHANGED <<platformVars, known, clock, batchSize, done,
                   group, window, cached, asks, read, start>>

Pass == Cancelled \/ CallFails \/ Call \/ Finish

\* The context ends: before a pass it is not begun, within one Fetch notices.
Cancel ==
    /\ phase = "fetch" /\ ~done /\ done' = TRUE
    /\ UNCHANGED <<platformVars, cacheVars, clock, batchSize, fetchVars>>

\* A device is moved to another type or deleted, or a type is edited; a pass
\* reads none of that.
Change ==
    /\ phase = "idle" /\ ~done
    /\ changes < MaxChanges /\ changes' = changes + 1
    /\ \/ \E d \in Device, t \in Type \cup {None} :
             typeOf' = [typeOf EXCEPT ![d] = t] /\ UNCHANGED definition
       \/ \E t \in Type, V \in Definition :
             definition' = [definition EXCEPT ![t] = V] /\ UNCHANGED typeOf
    /\ UNCHANGED <<rows, cacheVars, clock, batchSize, done, fetchVars>>

Next ==
    \/ RefreshDevices
    \/ \E d \in Device : RefreshDevice(d)
    \/ \E G \in SUBSET DOMAIN known : StartPass(G)
    \/ Pass \/ Cancel \/ Change

Spec == Init /\ [][Next]_vars

-----------------------------------------------------------------------------
(* What the pass does with it *)

\* Mutant of WithoutReading: having a figure is enough.
WithoutFigure(D, figures) ==
    {d \in D : ~\E c \in CarriersOf(group[d].variables) : <<d, c>> \in DOMAIN figures}

\* withoutReading of pkg/reconcile: the devices the report says were not placed.
WithoutReading(D, figures) ==
    {d \in D : ~\E c \in CarriersOf(group[d].variables) :
        <<d, c>> \in DOMAIN figures /\ figures[<<d, c>>].value > 0}

\* The heuristic, handed the same readings.
Heuristic == INSTANCE Structure WITH
    Prefix <- [pair \in Device \X Device |-> 0], Collecting <- FALSE,
    Root <- "root", NoFlow <- "no-energy-flow", InitialSetting <- {}, LaterReading <- {},
    reading <- [d \in DOMAIN group |-> [c \in CarriersOf(group[d].variables) |->
                   IF <<d, c>> \in DOMAIN result THEN result[<<d, c>>].value ELSE 0]],
    tolerance <- 0, members <- DOMAIN group, phase <- "build",
    parentOf <- Empty, collector <- FALSE, remaining <- Empty, depth <- Empty

-----------------------------------------------------------------------------
(* Properties *)

Key == KeysOf(Device)

\* What the cache and the passes hold has the shape the code declares for it.
TypeOK ==
    /\ DOMAIN known \subseteq Device /\ DOMAIN group \subseteq Device
    /\ DOMAIN held \subseteq Key /\ DOMAIN cached \subseteq Key /\ DOMAIN result \subseteq Key
    /\ clock \in Nat /\ window \in Nat \cup {None}
    /\ batchSize \in BatchSizes /\ done \in BOOLEAN
    /\ phase \in {"idle", "fetch"} /\ outcome \in {"none", "measured", "failed"}
    /\ start \in Nat /\ DOMAIN read = 1..(2 * Len(asks))

\* The paths on which a device counts what it drew of a carrier: counted with
\* the carrier's function, of its medium and of no earlier one, neither fed in
\* nor stored, under a name that can be asked about.
Drawn(d, c) ==
    {v.path : v \in {w \in group[d].variables :
        /\ ToSet(w.path) \subseteq Addressable
        /\ w.aspects \cap UnreadAspect = {}
        /\ w.function = FunctionOf[c] /\ MediumOf[c] \in w.aspects
        /\ \A e \in Carrier : e < c => ~(w.function = FunctionOf[e] /\ MediumOf[e] \in w.aspects)}}

Reported(d, c) ==
    {p \in Drawn(d, c) : rows[d, p] # <<>> /\ Head(rows[d, p]) # None /\ Last(rows[d, p]) # None}

Advance(d, p) == Last(rows[d, p]) - Head(rows[d, p])

Consumed(d, c) ==
    SumFunctionOnSet([p \in Reported(d, c) |-> Advance(d, p)], Reported(d, c))

\* What a pass works with is what the meters counted over its window: per device
\* and carrier the sum of the distances, every path once however many services
\* expose it, absent and not zero where no path reported; whatever the batches
\* are, and in whatever order, how often and with what indices the wrapper
\* answers (Fetch, build, readingOf).
MeasuredIsConsumption ==
    outcome = "measured" =>
        /\ DOMAIN result = {k \in KeysOf(DOMAIN group) : Reported(k[1], k[2]) # {}}
        /\ \A k \in DOMAIN result :
              result[k].value = Consumed(k[1], k[2])

\* The figures of one structure were read over one stretch: "figures read over
\* different stretches are not comparable" (readings, Cache.Readings).
OneStretch == \A k \in DOMAIN result : result[k].window = window

\* A batch that failed or was cut off leaves nothing behind: no later pass finds
\* a part of it in the cache (Fetch: "no partial answer").
NoPartialAnswer ==
    outcome # "measured" => \A k \in DOMAIN held : held[k].window # window

\* The devices the report lists as without a reading are the ones the heuristic
\* could not place by one (withoutReading: "the same rule").
ReportExplainsTree ==
    outcome = "measured" =>
        WithoutReading(DOMAIN group, result) = {d \in DOMAIN group : ~Heuristic!Reads(d)}

=============================================================================
