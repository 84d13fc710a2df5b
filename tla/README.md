# Verification of graph-provider

TLA+ models of the service in `src/`, model-checked with TLC and, where stated, proved
with TLAPS for every value of the constants. The models are written from the Go code;
the documentation of the repository is used only to say what was promised. Line numbers
for every definition are in `PROJECT.json` under `map`.

Contents: 1 the system · 2 components and their hazards · 3 the modules and the code ·
4 the runs · 5 bounds and abstractions · 6 fairness · 7 the proofs · 8 disagreements with
the documentation · 9 not modelled · 10 what is left.

## 1. The system

The service keeps one energy-flow graph per Keycloak group that owns devices. One process,
one replica. Its goroutines:

    Kafka consumers ──Add──▶ Pending ──Take──▶ pump ──channel──▶ ┌──────────┐
                                                                 │ the loop │──▶ Keycloak (read)
    HTTP handlers ──RequestAll/RequestGroup──▶ wishes ──wake───▶ │   Run    │──▶ permissions-v2 (read, share)
                                                                 │          │──▶ device-repository (list, save)
    two tickers (safety net, group poll) ──────────────────────▶ └──────────┘──▶ timescale-wrapper (read)

    main: start, select { signal · server failed · consumer lost }, shutdown, join, exit code

Only the loop touches the caches and writes. A *full pass* re-reads the group tree and the
device rights, lists the default graphs once, goes through all groups and finally orphans
the graphs whose group is gone. A *drain* does the same for single groups that someone
asked for, from the caches as they are. A group's graph is found by the group id stored in
it, and only a graph without an id by the stored path. What the devices of a group drew is
asked of the timescale wrapper, in batches, and is what the heuristic builds the tree from.
Every save comes back as a Kafka message and therefore as another wish (the echo).

## 2. Components, their state, and what makes them correct

| component | state | operations | what makes it correct |
|---|---|---|---|
| `events/dirty.go` Pending, pump | `set`, `wake` (capacity 1), batch in the pump | `Add`, `Take`, handover | no trigger and no wakeup is lost; both goroutines end on cancellation |
| `reconcile` Run, drain, requests | `requested`, `all`, `wake` | `RequestAll`, `RequestGroup`, `resolve`, `drain`, `pollGroups` | a wish made during a pass survives it; the loop never rests over a wish |
| `reconcile` passes | one listing per pass, the write in progress | `Full`, `group`, `create`, `update`, `rename`, `orphan` | one graph per group; access is never taken away while the group exists; a user's name and foreign graphs stay; convergence; silence afterwards |
| `graphs` | none of its own; two indexes per listing | `Defaults`, `Get`, `Save`, `Share`, `Unshare` | a paged listing misses nothing it could have seen; lowest id stands for a group; sharing touches no entry but its own; access is withdrawn before a graph is forgotten |
| `cache` | group tree by path, filtered; devices by id, readings | `RefreshGroups`, `RefreshDevices`, `RefreshDevice`, `Readings`, `PutReadings` | replaced, not merged; a failed read is not an absence; figures of one structure cover one stretch |
| `structure` | none between calls | `Build`, `Attach`, `Detach` | one largest meter at the root per carrier; nobody is explained beyond the tolerance; branches keep to a carrier as long as their meters do; edges end; Build and Attach agree |
| `carrier` | none | which outputs of a device type are columns of which carrier | nothing fed in or stored is counted as drawn; no path is counted twice |
| `consumption` | one fetch in progress | `build`, the batches, reading back | what the meters counted over the window, each path once; no partial answer |
| `api` | none | `POST /reconcile`, `POST /reconcile/group` | a wish, answered at once |
| `events/events.go` | alive flag, `lost` | consume, `libraryOnError` | a lost consumer ends the process and shows in the status |
| `keycloak` | token; the walk in progress | `Groups`, the token grant | a walk ends, finds each group once, and calls no tree whole that has lost a group it could have shown; an empty listing is doubted |
| `main.go` | cancelled context, `consumerLost`, exit code | `run` | the process ends when it must, with a true exit code, and never in the middle of a pass |

What is hard about them, in the order of importance: the listing of a pass ages while
groups are renamed and deleted, users edit and calls fail or the process stops between any
two calls; the group tree, the graphs and the rights are read in several calls while they
change, and the answer may then leave out something that was there all along; the wakeup
channels of capacity one; `drain` working for seconds between taking wishes and looking
again; the rename safeguard, which knows about a move for one pass only; a consumer lost
before anybody listens, or on the way out; answers of the wrapper that come back by index,
in any order; the boundaries of the capacity test in the structure heuristic and its two
implementations. `PROJECT.json` lists each of them at its line (`hazards`).

## 3. The modules and the code

**`WorkQueue`**: what a deduplicating work set promises, independent of goroutines and
channels: what was put in stays until a worker has it in hand; only a closing queue may
abandon work. It is the abstract specification of both queues in the service.

**`RunLoop`** (`events/dirty.go`, `reconcile.go` Run to drain, `api`, `main.go`'s context):
the concurrency. One action per critical section, channel operation or end of a stretch of
work. `Record`/`Wake` are the two halves of `Add` (locked, then the send outside the lock);
`PumpTake`, `PumpEmpty`, `PumpPark`, `PumpWoken` are `Take`, with the gap between the unlock
and the select; `RequestGroup`/`RequestAll` and `Signal` likewise. A channel of capacity one
whose sender drops on a full slot is a Boolean. `loop` says where the loop goroutine is;
passes are stretches during which all others go on. `TriggerQueue` and `WishQueue` are the
refinement mappings to `WorkQueue`: a trigger waits in the set or in the pump's hand, a wish
in `requested` or in the flag.

**`Service`** (`main.go` run, `events/events.go`, `libraryOnError`): the process around the
loop. It extends `RunLoop`, whose steps it takes as they are for as long as the process runs
(`Inner`), and decides what `RunLoop` leaves open: when the context is cancelled and who may
still ask. A failing consumer reports its loss in a step of its own (`ConsumerFails`,
`ReportLoss`), so that a cancellation, or `main` not listening yet, can fall between. `main`
selects among signal, dead server and lost consumer, closes the server, waits for loop and
consumers but not for the pump, and exits.

**`Reconcile`** (`reconcile.go`, `graphs.go`, `cache.go`, `model.go`): what the passes do to the
world. Four variables are the outside world (`realm`, `rights`, `doc`, `share`), the rest is the
service: its caches, its wishes, the program counter, and the pass in progress (`seen` the
listing, `todo`, `lost`, `cur`). One action per foreign call, each with its failing twin in which
a write is either refused or done with the answer lost. `Update` computes the whole change as
`update` does, the `changed` flag included, and leaves the graph in `cur.doc` for `Save`. `Others`
are the people outside: groups renamed, created and deleted, rights changed, graphs edited, erased
and unshared, wishes posted. `Crash` empties the service and leaves the world alone. `Allowed` are
the paths that `group_include` and `group_exclude` let through: `Tree`, the answer `RefreshGroups`
keeps, shows no other group, so a group that is moved out of them is gone for the service; the
history variable `hidden` remembers which groups ever were. A user's edit names the root, drops a
device, or takes one or both of the provenance attributes away (`UserEdit`). `ReadMistaken` and
`PollMistaken` take what `GroupWalk` shows the walk may answer wrongly: no group at all, or a tree
that lacks some.

**`GroupWalk`** (`keycloak.go` Groups to getJson): the walk of the group tree. One action per
page (`NextPage`, `ListingEnds`, `NoSuchGroup` for the 404 of `children`, `TooManyPages`) and per
group looked at (`Skip`, `Found`); `stack` holds what each nested `collect` still has to look at.
`lazy` tells a Keycloak that serves subgroups page by page from one that ships the tree with the
group. Administrators create, move and delete groups between any two requests. `calm` is a
history variable: the groups whose listings, up to the top, have lost nobody so far and were not cut
off before them: a window full of groups the account may not see is an empty page, which ends the
listing (`CutOff`). The walk's
answer is one step in `Reconcile`: `ReadGroups` when it is whole, `ReadMistaken` when it is torn
(the case `CalmListingsAreWhole` excludes) or empty although it should not be (the case
`EmptyIsDoubted` excludes).

**`Store`** (`graphs.go`, and as much of a pass as calls it): the listing of the default graphs
attribute key by attribute key and page by page (`ListPage`), and the sharing of a graph, whose
rights are read (`ReadRights`) and written back as a whole (`WriteRights`). `TakeListed` and
`TakeNew` bring a group's graph up to date or make one; `Forget` strikes a vanished group from its
graph. Between any two calls others delete and copy graphs, take attributes away and change
rights. `writable` is the kill switch, whose `ErrReadOnly` every caller takes for success.
`Reconcile` takes a listing and a sharing as one step each; `Store` is what these steps may get
wrong. Each of the two indexes keeps its own copy of a graph, as listed under its key (`Listed`),
and it is that copy which is compared and written. `steady`, `shrunk` and `touched` are history:
the graphs nobody touched during the pass, the keys whose listing lost a graph between pages, the
rights changed since they were read.

**`Readings`** (`carrier`, `consumption`, `readings` and `withoutReading` of `reconcile.go`, the
readings of `cache.go`): from the outputs of a device type to the figure of a device.
`Columns` says which output is read for which carrier; `NewPass` which questions a pass has left
after asking the cache; `Call` is one batch, answered by index within the batch, in any order,
with elements twice or of indices nobody asked about; `Finish` sums what has both ends of its
window. `Heuristic` hands the same readings to `Structure`, whose own rule for a device without
a reading is compared with the report's.

**`Structure`** (`structure.go`): the tree heuristic. `PlaceUnread`, `PlaceAtRoot` and
`PlaceUnder` are one iteration of `Build` and `place`; `Attach` and `Detach` are the two calls on
a stored graph. `Eligible`/`Best` are `place`'s candidate test and order over the remainders it
keeps, `Candidates`/`BestExisting` the separate code of `bestExistingParent`, which recomputes
remainder and depth from the graph. The capacity test is `Fits` for both. `NewWindow` brings the
readings of a later pass: carriers, figures and their absence may all be different from those the
graph was built with.

**How they fit together.** `Service` runs `RunLoop` inside it, and `Readings` runs `Structure`'s
rule. `Reconcile` treats a graph as its set of devices, so it needs nothing of `Structure`'s
tree, and it wakes by `Woken` alone, so it needs nothing of `RunLoop`'s channels: what this
rests on is `LoopIsWoken` and `EveryWishIsTaken` there (a wish reaches `drain`), `EdgesEnd` in
`Structure` (a save is not refused for its edges) and `NoPartialAnswer` in `Readings` (a failed
fetch leaves the group as it was). The `MC` modules give the constants small values; the
`_proofs` modules hold the theorems.

Definitions whose comment begins with "Mutant of" are deliberately wrong variants of the
definition after them: each property of a passing run is violated when one of them takes
its place, which is how we know that the property can fail.

## 4. The runs

| run | checks | shows |
|---|---|---|
| `run_loop` | `PumpIsWoken`, `LoopIsWoken`, `TriggerQueueSpec`, `WishQueueSpec`, `EveryTriggerIsResolved`, `EveryWishIsTaken`, `CancelStopsAll` | with two handlers, two triggers and an HTTP caller no interleaving loses a wakeup, a trigger or a wish; work gets done without the safety net; cancellation ends loop and pump wherever they are (60 000 states) |
| `service` | `LossReachesMain`, `ExitCodeIsTrue`, `NothingCutOff`, `EndIsReached` | signal, dead server and lost consumer in any order against a start, a pass and a shutdown: the process ends, for the right reason, and not in the middle of something (170 000 states) |
| `reconcile_faults` | `OneGraphPerGroup`, `NoIdleWrite`, `GroupKeepsAccess`, `ForeignGraphsUntouched`, `MoveRemovesNothing`, `DevicesStayUntilTrouble`, `UserNameStands` | what no pass may do, with any four of: two renames, a creation, a deletion, a user's edit, an erasure, an empty and a torn group tree, a failed call and a crash, between any two calls; with a filter that hides one of three paths, and a foreign graph named like the group, alone or beside a graph of the group from before ids were kept (4.7 million states) |
| `reconcile_live` | `Converges`, `FallsSilent` | with any three of: a share withdrawn, a change of device rights, a rename, a deletion, a torn tree, a wish, a failure, a crash: once they stop, every graph comes in line with its group, those of deleted and filtered groups are detached, and writing ends (1.7 million states) |
| `store` | `TypeOK`, `ListingIsWhole`, `OnlyItsOwnEntry`, `WithdrawnBeforeForgotten`, `EchoEnds` | listings in pages of one and sharing against two steps of others and one failed call, with and without the kill switch (870 000 states) |
| `readings` | `MeasuredIsConsumption`, `OneStretch`, `NoPartialAnswer`, `ReportExplainsTree` | two devices of three possible types, any rows in the columns that count, two passes, batches that split a question from its other end (850 000 states) |
| `structure` | `OneMeterAtRoot`, `Contained`, `NotOverdrawn`, `AttachAgrees`, `EdgesEnd`, `OneCarrierPerBranch`, `OnlyWindowsOverload` | every reading of four meters over six figures and four tolerances, two of them out of range; two carriers with negative figures; then devices coming and going, with three later windows in between (1.3 million states) |
| `group_walk` | `TypeOK`, `EachOnce`, `CalmListingsAreWhole`, `EmptyIsDoubted` | pages of two, three levels, both kinds of Keycloak, one creation, move, deletion and failure at any time, none, one, a windowful or all groups hidden (1.9 million states) |
| `rename_empties`, `failed_sweep_empties` | `DevicesStay` (violated) | section 8 |
| `stale_share` | `AccessFollows` (violated) | section 8 |
| `lost_edit` | `UserNameStands` (violated) | section 8 |

The type invariants of `RunLoop`, `Service`, `Reconcile`, `Structure` and `Readings` are not among
the runs: they are theorems.

The properties that need a word:

* `GroupKeepsAccess`: the service never withdraws a graph's last share while the group in the
  graph still exists, as long as nobody else withdraws rights, no walk of the group tree came
  back torn, and the filter has never hidden the group. The last two conditions are the first
  observations at the end of section 8.
* `ForeignGraphsUntouched`: a graph without both provenance attributes is neither written nor
  shared, not even one that the service orphaned earlier in the same pass, or that a user has
  stripped of them. As with names, a pass does not notice what is taken away after it has listed
  the graph: with `EditsDuringPass` the property speaks of graphs that were foreign when listed.
* `MoveRemovesNothing`: the pass that notices a move removes no device. What the pass after it
  does is `DevicesStay`, in `rename_empties`.
* `DevicesStayUntilTrouble`: without rename, failed call or withdrawn right no device leaves
  a graph, whatever restarts, deletions and empty directories do. `DevicesStay` is the same
  without the condition and is violated.
* `NoIdleWrite` and `FallsSilent`: a write is made for a difference, so the echo dies out.
  `EchoEnds` says the same of the commands that sharing leaves behind.
* `Converges`: the graph of every existing group the filter shows carries its path, name and
  exactly its devices and is shared with it, and no other group has a graph.
* `UserNameStands` passes in `reconcile_faults` because `EditsDuringPass = FALSE` there, and fails
  in `lost_edit` where it is `TRUE`: the two say exactly which window is open.
* `CalmListingsAreWhole`: an answer leaves out no visible group that was there all along, unless
  a listing it is in, or one above it, has lost a group meanwhile or was ended before it by a
  window of hidden groups. The first condition is needed: a
  deletion between two pages pulls a later group into the page already read, and the walk then
  misses one that nobody touched.
* `ListingIsWhole` is its counterpart for graphs: a graph with both attributes is in two
  listings, so it takes a loss in each of them to miss it. The listings of one pass follow one
  another, so two deletions can do that, and the group then gets a second graph; from the next
  pass on the lower id stands for the group and the other graph is left as it is.
* `OnlyItsOwnEntry`: the rights of others change only where they were changed between the
  reading and the writing; that one window is open, and the property says it is the only one.
* `ExitCodeIsTrue` needs `broken`, set by a consumer that failed uncancelled: an ordinary stop
  makes every consumer fail too, and must not look like a loss.
* `MeasuredIsConsumption` is the end-to-end statement of `carrier` and `consumption`: it
  speaks of meters, rows and windows, and not of batches, indices or legs.
* `AttachAgrees`: at each step of `Build`, `Attach` on the graph so far would choose a parent
  of the same depth and remainder.
* `OneCarrierPerBranch` and `OnlyWindowsOverload` are about steps: with the readings as they are, no
  device that comes or goes puts a meter under one of another carrier, or (for a tolerance of
  zero) makes the children of a meter read more than it. `NewWindow` may do both: a device of two
  carriers whose larger one changes stays where it is, and so do children that come to read more
  than their parent. `Contained` and `OneMeterAtRoot` therefore speak of the build only.

## 5. Bounds and abstractions

*All modules.* Wording, logging and the order of equal elements are left out. Where ticks,
requests or other people may always act, deadlock is checked: `run_loop`, `reconcile_live`,
`structure`, `group_walk` and the violations. It is off where the behaviour really ends:
`service` (the process exits), `store` and `readings` (no ids, or passes, are left),
`reconcile_faults` (all three graph ids used up by erasures, and a graph that cannot be created).

*`RunLoop`, `Service`.* `run_loop` names one group, so a wish is for it or for all; `service` has
one consumer, one caller, one trigger, one group. The theorems cover any number.

*`Reconcile`.*
* Outside events are bounded by `Budget`, one number per kind and one, `any`, for all together,
  in the guard of each outside action. Four in `reconcile_faults` (two renames, one of each other
  kind), so that faults of different kinds meet in one pass and in the one after; a drifting name
  takes two renames. Three in `reconcile_live`, one of a kind.
  The theorems hold for every budget.
* Two groups, two devices, three graphs. A second graph of one group needs two ids, and
  a legacy or foreign graph beside them a third. Paths: two siblings; in `reconcile_live` one
  and a deeper one with the same last name, because names are generated from the last element
  only.
* In both runs one more path is outside the filter, so that a rename can take a group out of its
  sight and back.
* A pass takes the groups in any order; the code sorts them by path. Every order the code can
  take is among them, and nothing depends on the order.
* Graph ids are naturals in the order the repository sorts ids. An id that is listed is not
  given out again during the same pass (the repository generates UUIDs).
* The two sweeps of `RefreshDevices`, the paged listing of graphs and the read-modify-write in
  `Share`/`Unshare` (see `Store`), and the tree walk (see `GroupWalk`) are one step each. So the
  theorems of `Reconcile` hold for listings that miss nothing; what a paged listing can miss, and
  that a group then gets a second graph, is `ListingIsWhole`'s subject in `Store`.
  `pollGroups` is one step too: the cache changes once the tree has been read. A poll that fails
  changes nothing and is a stutter.
* A group is never given the path of another living group, and a deleted group's id never
  returns; both are Keycloak's guarantees.
* Rights live under paths and stay behind on a rename, as the comment in `update` describes.
* A panic in one group's pass is recovered by the loop and is one of the outcomes of
  `GroupFailed`.

*`Store`.* Pages of one graph, so that one loss moves a whole page and a double loss happens with
few graphs; four ids, three groups, one of them gone from the realm, no renames. A graph may be
from before ids were kept. Two steps of others and one failed call in all. Groups are taken in
the order of their paths. A permission resource comes and goes with its graph, and an
administrating user always remains on it.

*`Readings`.* Figures are integers and a name holds no dot, so that a path and its column agree.
Rows do not change while they are read; types, definitions and devices change only between
passes, because one goroutine does both. Time passes from pass to pass, so no two windows are the
same. Two carriers of which one output can be both; types with a path that two services
expose, with two phases and what is fed in, and with a list whose column cannot be addressed.
Batches of three or eight stand for 500: three splits a question from its other end, eight
takes all at once. Two passes, one change, a time to live that outlasts both.

*`Structure`.* Figures are integers and comparisons exact, where the code compares floats after
rounding. Negative and zero figures, missing columns and absent readings are included. Three later
windows: everybody reads the same; the last device reads most; the carriers and the order of the
figures change and one device reads nothing. The proofs take any. Graphs are those the package
makes: every node has one parent. Device names enter through the length of their common prefix
only. Four meters are the fewest with which a second child can overdraw a parent that is itself a
child.

*`GroupWalk`.* Five groups, pages of two, at most three pages and three levels, so that a listing
needs a second page, can grow to one page too many, and a tree can become one level too deep.
It starts with a root and its children, or with nothing, and creation and moves make the rest.
Hidden groups stay hidden. Groups are listed by name, here
by number. Entries without id or path are left out; they are skipped with their subtree.

## 6. Fairness

`RunLoop`: goroutines that can run do run and every foreign call returns (all carry a context
or a client timeout): weak fairness for the pump, for the loop in the middle of something, for
a handler between unlock and send. Go's `select` picks uniformly among ready cases, so a case
that is ready infinitely often is taken: strong fairness for the loop's and the pump's
cases. Nothing is assumed of tickers, arrivals or the cancellation. `EveryTriggerIsResolved`
and `CancelStopsAll` also need `CallersPause`: `drain` looks for new wishes after each pass,
and HTTP callers who never pause keep the loop from its select.

`Service`: the same for as long as the process is there; weak fairness for `main`, since
`Shutdown` is given ten seconds and the join waits for nothing else; strong fairness for a
consumer's end, because every fetch and commit looks at the context, however busy the topic is.
Here `CallersPause` is not assumed: the closed listener brings it about, and `EndIsReached`
shows that it does.

`Reconcile`: weak fairness for going on with what was started, strong fairness for the
safety-net ticker. None for polls and triggers: convergence does not rest on them. No fairness
for failures; the budget bounds them, which is the assumption that they stop.

`Store`: weak fairness for the beginning of a pass (the ticker) and for going on with it.

`GroupWalk`, `Readings` and `Structure` have none and state no liveness.

## 7. The proofs

All for arbitrary constants, from the named `ASSUME`s of the modules only. The runs found the
invariants; each strengthening below was needed because the property alone is not inductive.

**`Counting_proofs`** holds what several of them share: the lowest of a set of naturals, ranks and
the pages a listing in the order of ranks is cut into (`ListedByRank`), and sums over a set
(`SumsAgree`, `SumTake`, `SumJoined`). A sum is a fold, defined by recursion over the set, and the
library's induction theorems are out of reach; so the lemmas first exhibit a function that obeys
the recursion on all subsets of a finite set, and every induction is a least counterexample.

**`Service_proofs`**, of `RunLoop`: `TypeCorrect`; `NoLostWakeup` and `LoopSleepsOverNothing`
(neither goroutine sleeps over work without a token in the channel or a sender about to leave
one); `TriggersAreQueued` and `WishesAreQueued` (the refinements of `WorkQueue`). The
strengthening `LocalsInv` ties the locals to the program counters: the pump carries nothing
outside `send`, the loop holds a batch only in `resolve` and paths only from `list` on. Without it
a step that forgets a local could not be told from a step that loses work. Of `Service`:
`ServiceIsRunLoop` (every behaviour of the service is one of `RunLoop`, so all that is proved
there holds here); `ServiceTypeCorrect`; `LossIsNeverHidden`, `ExitCodeHolds`, `NothingIsCutOff`.
`CauseInv` says that a cancelled context, a loss under way and a filled channel each have a
reason, and `JoinInv` that an exited process has joined its goroutines: the loop has stopped with
no batch and no pass in hand, every consumer has ended, and none is in `Add`.

**`Structure_proofs`**: `TypeCorrect` (the clamped tolerance), `RootHoldsOneMeter`,
`NobodyIsOverdrawn`, `BranchesDoNotMix`, `EdgesEndInside`, `ChildrenFit`,
`OnlyNewWindowsOverload`, `PlaceAndAttachAgree`. The invariant of building, `BuildInv`, has four
parts: devices of a carrier are placed in descending order (`PlacedInOrder`); as soon as one is
placed, one of them still has its whole reading left (`SomeoneWhole`, namely the last one); no
remainder is below minus the tolerance (`NotOverdrawn`); one meter per carrier at the root. The
second part is why every further device finds a parent: a whole reading fits anything smaller
(`WholeFits`). `EdgesEndInside` needs that a rank falls along the edges (`Ranked`): `Detach` gives
the children of a node to its parent, and in a cycle that could be the node itself or one of the
children. For `ChildrenFit` (`Contained`), `TallyInv` says that the remainder `place` keeps is the
reading less the sum of the children, so that it is `NotOverdrawn` in other words.
`OnlyNewWindowsOverload` (`OnlyWindowsOverload`) is about a graph that is stored: nothing is kept
there, and `ZeroInv`, for a tolerance of zero, goes by the sums: an attached device found room for
itself, and the children of a detached one read no more than it did, of the same carrier.
`BranchesDoNotMix` (`OneCarrierPerBranch`) is a property of single steps too; in the build, where
readings stand still, it makes `Unmixed` an invariant (`BuiltUnmixed`), which the next theorem
needs. `PlaceAndAttachAgree` (`AttachAgrees`) adds the levels: walking up from a device gives the
level `Build` keeps (`DepthIs`), and then the two pieces of code look at the same candidates, in
orders that are both total and agree up to the last tie.

**`Reconcile_proofs`**: `TypeCorrect`; `GroupsHaveOneGraph` (`OneGraphPerGroup`);
`ForeignIsLeftAlone` (`ForeignGraphsUntouched`). `OneGraphPerGroup` is far from inductive, as a
pass decides from a listing that ages. `OneInv` adds: listing and repository each name a group
once (`SameGroupSameGraph`); the cached tree, torn or not, has one path per group
(`OnePathPerGroup`); a graph in the repository of a group the pass has *yet to come to* is in the
listing (`StillToDoIsListed`: what is not listed was saved by this pass, for a group it is done
with); what is about to be saved is of such a group and unrivalled (`SavedIsTheOnlyOne`); an orphan
is saved without a group (`ClearedHasNone`). `ForeignIsLeftAlone` rests on `OursInv`: what the
listing shows as the service's own stays so for the pass. Between the listing and the writes it
is the service that takes attributes away, once from each orphan; if users may too, what is
said holds of the graph as it was listed (`Known`), which is then all the theorem claims.

**`ReconcileWrites_proofs`**: `NoWriteIsIdle`, `MovesRemoveNothing`, `AccessIsKept`,
`UserNamesStand`, `DevicesStayPut`. `WriteInv` keeps what is about to be written beside what was
listed: it differs from it, keeps a user's name, and a pass that noticed a move has removed no
device. `AccessInv` is four facts about why a withdrawal never hits the last share of a living
group: every group named anywhere has existed, and one the cached tree does not show, unless that
is empty or was torn, is gone or was hidden by the filter (`KnownGroups`); a graph whose group
changed since it was listed had none then, and was adopted by its path (`AdoptedByPath`); what is
orphaned has no group in the tree (`LostHaveNoGroup`); the new path is granted before the old one
is withdrawn (`NewPathGranted`). `UserNamesStand` holds for `~EditsDuringPass`, where the names in
the listing are those stored. `DevicesStayPut` holds for `HeldAtFirst`: the graphs the service
finds when it is first started hold only devices with rights on the place of their group and on
the path on record (a device without such a right is rightly taken out). Its invariant `StayInv`
speaks of the time before trouble: a group is in one place, in the realm and in the tree
(`OnePlace`), and the device view is fresh outside the two reads (`ViewIsFresh`); every graph,
stored or listed, holds only devices of where its group is or was last seen (`StoredIsHeld`,
`ListedIsHeld`); so nothing departs, and what is saved is all the devices of its group
(`SavedIsAll`); and a stored graph holds more than the listed one only if it was brought up to
date by this pass (`AsListed`), which no orphan was (`LostIsUnclaimed`), or clearing an orphan
could overwrite what the pass has just added.

**`Store_proofs`**: `TypeCorrect`; `ListingsAreWhole` (`ListingIsWhole`);
`OnlyItsOwnEntryChanges`; `WithdrawalComesFirst`. `WholeInv`: a graph nobody touched has been
found as soon as a listing that lost none has passed its rank among the graphs with that key; it
survives a graph that comes in front of it, which pushes it to a later page, and a loss is what it
does not survive. `ListInv`: no graph is found for two groups, and what is found for a group is a
graph of it if it is still there, with no key, if that group is gone, that the copy in the index
it was found in does not have. `ShareInv`: what is about to be written differs from what is there
in the service's two entries and in what was changed since the reading.

**`GroupWalk_proofs`**: `TypeCorrect`; `FoundOnce`; `NoTrustInNothing`, with `EmptyInv`: as long
as nothing is found the walk stands at the first group of the top, or has asked for the number of
groups; `AnswersAreWhole` (`CalmListingsAreWhole`). The last one says for every calm group where
it is while it has not been found (`Covered`): in an answer at hand, further down the listing than
the pages read, or below a group that has itself not been found. Since a calm group stands below
calm groups only, and not in a circle (`CalmInv`), a finished walk with nothing at hand has found
them all: of those it had not, the topmost would be covered by nothing. `WalkInv` is what an
answer at hand says of calm groups. `TreeAssumption`: the realm starts as a forest, which is what
Keycloak's groups are.

**`Readings_proofs`**: `TypeCorrect`, `StructureIsOfOneStretch`, `FailureLeavesNothing`,
`ReadingsAreConsumption` (`MeasuredIsConsumption`),
`ReportIsOfTree` (`ReportExplainsTree`). `StretchInv`: nothing in the cache is newer than the last
pass, and nothing there is of its window before it has its figures. It needs that time passes from
pass to pass. `AsksInv`: the pass asks for each column of each of its devices exactly once, and for
nothing else. `FetchInv`: every leg in a batch that has been sent holds what the wrapper has of it,
and no leg behind it anything, whatever order, doubles and strange indices the answer had. The rest
is arithmetic: the two legs of an ask are the two ends of its window, and the sum over the asks
of a device and carrier, renamed to their columns, is the sum over the paths that are metered
(`SumsAgree`). `ServiceAssumption`: the services of a type are numbered by their place in it, and
of several that expose one path the first is asked.

Only model-checked: everything under fairness, which is out of the prover's reach:
`EveryTriggerIsResolved`, `EveryWishIsTaken`, `CancelStopsAll`, `EndIsReached`, `Converges`,
`FallsSilent` and `EchoEnds`. Every invariant and every action property of a passing run is a
theorem.

## 8. Disagreements with the documentation

Four have a run that shows them; quotations and lines are under `findings` in `PROJECT.json`.

* **A rename empties the graph one pass later** (`rename_empties`). The safeguard against reading
  stale rights holds for the pass that sees the move. That pass stores the new path; the next
  one sees no move, the rights are still under the old path, and every device is removed.
* **A failed read at start-up empties graphs** (`failed_sweep_empties`). The initial pass fails, the
  error is logged, and the loop starts with an empty device view. In the trace the group tree
  could not be read; the group poll reads it again, but not the devices, and asks for the groups it
  found; `drain` does not read the devices either, and every device of the graph is taken out.
  When it is the device sweep that fails, the tree is there already and any wish does the same.
* **An old path keeps its access** (`stale_share`). It is known only from the graph's recorded
  path, which is overwritten before the withdrawal is attempted; there is one attempt.
* **An edit is overwritten** (`lost_edit`). The graph written back is the one listed at the
  beginning of the pass.

Seen while modelling, without a run of their own:

* A torn group tree makes `Full` orphan the graph of a group that exists. The next pass knows the
  group again but not the graph, which has lost its attributes, and makes a fresh one; what the
  user had built stays on the orphan. `Full` guards against an empty tree
  and, by keying on ids, against a rename (`reconcile.go:384`, "that mistake would cost the user
  everything they had built"), but not against this.
* A living group that is moved to a path the filter hides is gone for the service: its graph is
  orphaned and loses the group's access (`cache.go:116`), although the group exists. When it comes
  back it gets a fresh graph. The documentation of the two options does not speak of it.
* A graph whose attributes a user takes away while a pass is at work is written back with them
  and is the group's graph again, or is at least shared if the pass has nothing to write
  (`reconcile.go:672`): the window of `lost_edit` once more.
* With a new window, a device of two carriers whose larger one has changed stays under a meter of the
  other carrier, and children that come to read more than their parent stay too; only devices that
  join are placed by the new readings. (`docs/` promises no more.)
* `docs/structure-heuristic.md:106` and `docs/known-limitations.md:24` say a device goes where the
  smallest capacity remains; the code prefers the shallowest candidate, then the largest.
* The readings cache never answers: `docs/architecture.md:93` and `docs/configuration.md:28` speak of
  its time to live, but the window is computed anew in each pass, and a figure is served for its
  own window only. This also hides that the figures of a device whose type is edited, or changed
  in a full sweep, are not dropped.
* Orphaning a graph that has a group id and no path attribute leaves the vanished group's access.
* A graph deleted after the listing is created again by the pass that writes it.

## 9. Not modelled

* Configuration except for the group filter, logging, the report of `pkg/plan` and generated code:
  no state that anything depends on. The dry run changes nothing.
* The token grant: all requests to Keycloak come from the one loop goroutine, so its single
  flight and its refresh meet no contention.
* What a Kafka record is parsed to, and Kafka's own delivery: a message is a call of `Add`.
* The paging of the device and type listings in `RefreshDevices`; a sweep is one step.
* Graphs that users have rearranged (several parents, splits) and edge ids; `Structure` knows the
  graphs the package makes. `Reconcile` does take a user's nodes and names into account.
* The early returns of `run` before the loop starts, and the one after `api.New` (`main.go:239`), which
  returns no error today; a service that took it would leave loop and consumers running.
* That a column's name is addressable: the filter in `carrier.go:144` and the wrapper's pattern are the
  same test, and `Readings` takes both to be `Addressable`.
* Hidden groups are hidden for the whole of a walk.
* The wording of generated names beyond their last element.
* Keycloak, permissions-v2, device-repository and timescale-wrapper appear through the service's
  calls only.

## 10. What is left

The plan of modules is done: `WorkQueue` and `RunLoop`; `Reconcile`; `Structure`; `GroupWalk`;
`Service`; `Readings`; `Store`, each with proofs. What would add most:

1. `Structure` on graphs that users have rearranged, where `Detach` reroutes to several parents
   and `remainder` follows splits.
2. The device and type listings page by page, as `GroupWalk` does for groups: a device missed by
   a sweep leaves its graph in the same way.
3. `Reconcile` with `Store`'s listing as its input, as it has `GroupWalk`'s answer now: a missed
   graph breaks `OneGraphPerGroup`, and the question is what still holds.
4. Among the liveness properties, the safety half of `Converges`: that a full pass which meets no
   outside event leaves every graph in line. It is provable without fairness, once stated over the
   steps of one pass.
