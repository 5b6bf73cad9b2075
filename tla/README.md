# Hacker Typer in TLA+

Hacker Typer is a plugin of the Omarchy shell (Quickshell, QML and JavaScript).
Any key typed into its full-screen overlay reveals the next characters of a
bundled source file; Backspace takes them back; three presses of Alt or of
Caps Lock bring up a card. A panel in the bar selects the source and launches
the overlay, and so do commands. The bundled sources are thirteen programs of
their own, purpose-written for the plugin; most of them are small concurrent
systems.

This directory holds a model of the plugin, of its syntax highlighting and of
four of the bundled programs: TLA+ modules, TLC configurations, and theorems
with proofs for TLAPS. `PROJECT.json` maps each definition to the lines it
translates and lists the runs, theorems, mutants and hazards.

Run a check with `tlc -config MCSourceService.cfg MCSourceService`, a proof with
`tlapm HackerTyperProofs.tla`.

## 1. The system

### Components

| component | source | state | operations |
|---|---|---|---|
| typing model | `HackerTyperModel.js` | none | `clamp`, `advance`, `retreat`, `sourceById`, `parsePayload`, `prepareSource`, `preview` |
| source service | `Service.qml`, `SourceCatalog.js` | selected source, its text or error, the read under way, the injected shell and manifest | `selectSource`, `launch`, the IPC calls, `onLoaded`, `onLoadFailed` |
| overlay | `HackerTyper.qml` | open or not, progress, counters and card, cursor, target screen | `open`, `close`, `dismiss`, `toggle`, `handleKey`, the cursor timer |
| panel, bar widget | `Panel.qml`, `BarWidget.qml` | per screen: popup, cursor, dropdown value, launch timer, injected service | keys, clicks, `launchSelected`, the dropdown's `onChanged`, the injection of the service and its loss |
| syntax highlighting | `SyntaxHighlight.js` | a cache of regular expressions | `tokenize` |
| task orchestrator | `sources/task-orchestrator.ts` | task table, queues, workers | `submit`, `registerWorker`, `heartbeat`, `lease`, `begin`, `complete`, `fail`, `reclaimExpired`, `drain` |
| command coordinator | `sources/CommandCoordinator.cs` | nodes, leases, calls under way | `AddNode`, `RemoveNode`, `DispatchAsync`, `ReapExpiredLeases` |
| telemetry engine | `sources/telemetry-engine.cpp` | ring of samples, counters, worker threads | `start`, `stop`, `publish`, `worker_loop` |
| cluster reconciler | `sources/cluster-reconciler.go` | the stored snapshot; per call, attempt and plan | `Reconcile`, `Read`, `Commit`, `plan` |
| pulse bus, event pipeline, async observer, deploy coordinator, request router, packet engine, workspace rules | the other files of `sources/` | see section 5 | not modelled |
| fleet bootstrap, telemetry lab | `fleet-bootstrap.sh`, `telemetry-lab.sql` | none that outlives a statement | not modelled: output and queries |
| tests, manifest, documents | `tests/`, `manifest.json`, `*.md` | - | not modelled: read as statements about the code |

### How they interact

There is one service and one overlay; there is a panel for each screen. The
shell injects itself and the manifest into the service, and the service into
the panels, at moments of its choosing. The panels read the service's selection
and text through bindings and signals. A launch goes from a panel through a
timer of 120 ms to `Service.launch`, which asks the shell to summon the
overlay with a payload; the shell delivers the payload some time later, and
`open` begins by selecting the payload's source in the service. Commands reach
the service over IPC, and the overlay through the shell, without the service.
Reading a source is asynchronous: the `FileView` follows the path of the
selection and calls back. Screens come, go and take the focus at any time.

The highlighting is called by the overlay for the revealed part of the text,
again at every key. The bundled programs are only shown, never run; they are
modelled as the programs that they are.

### What is hard, and what correctness means

- **Reads race with selections.** A read may end after another selection, a
  selection may be taken back, the directory may move under a read. The view
  must always be that of the selection, must not stay empty without reason and
  must not lose a text that is there.
- **The text changes under a session**, by a selection or because it is read
  again from another directory, where its copy may be shorter or longer.
  Progress, keys and counters belong to a session; the text belongs to the
  service. Typing must reveal and rewind what it says it does; nothing of one
  session may leak into another.
- **Several panels, one selection.** The first choice in a dropdown destroys
  the binding that kept it in step; from then on a signal handler has to. A
  panel may also lose the service for a while, and the handler with it.
- **A launch passes three owners**: a timer in the panel, the service, the
  shell. None looks at the next. The overlay must open if it was asked to, and
  no more often.
- **The scanner stops anywhere**, in the middle of a sign or a string. Nothing
  may be lost or doubled, what is a comment must be coloured as one, and what
  was revealed before must keep its colour.
- **Orchestrator**: leases run out while their owners still report. No task may
  be lost, run twice at a time, be undone, or overtaken by a later equal.
- **Coordinator**: a dispatch is suspended while its node leaves, returns under
  the same id, or is given to somebody else by the reaper. Every way out has to
  give back what it took, and nothing else.
- **Engine**: threads race for a bounded ring, wake-ups get lost, publishers
  overlap with `stop`. Each sample is delivered once or overwritten, and `stop`
  ends.

- **Reconciler**: calls overlap with each other and with whoever else commits. A
  plan must not be stored for a cluster that it was not made for, nor count
  what is placed twice, and a call may give up only where others got on.
- **Text of a file**: marks, both ends of a line, hidden lines and blank lines meet
  in any order, and a preview is cut where the limit falls.

The hazards in `PROJECT.json` name the line for each of these, and the
properties that watch it or the reason why none does.

## 2. The modules

| module | models | extends |
|---|---|---|
| `TypingModel` | pure functions of `HackerTyperModel.js` | |
| `SourceView` | abstract specification: what panel and overlay may rely on of the service | |
| `SourceService` | `Service.qml` and the catalogue; implements `SourceView` | `TypingModel` |
| `Overlay` | `HackerTyper.qml` with its service | `SourceService` |
| `Panel` | `Panel.qml` and `BarWidget.qml`, one per screen, with their service | `SourceService` |
| `HackerTyper` | the plugin: service, panels, overlay, shell | `Panel`, `Overlay` |
| `SyntaxHighlight` | `SyntaxHighlight.js` | |
| `SourceText` | `prepareSource` and `preview` of `HackerTyperModel.js` | |
| `TaskOrchestrator`, `CommandCoordinator`, `TelemetryEngine`, `ClusterReconciler` | the bundled programs of those names | |

Each `MC...` module gives one of them its instances for TLC, and each
`...Proofs` module holds the theorems about it. `HackerTyperProofs` has those
about the service, the overlay, the panels and the plugin, in this order,
because each part rests on the one before. `TypingModel` is checked within the
modules that extend it. `DataInduction`
has what the proofs about data share: induction over numbers and over finite
sets, and the existence of functions that are defined by recursion.

**Variables** carry the names they have in the code. Those with the comment
"history" record what happened, decide nothing, and exist for the properties.
An **action** is a handler with all it calls: `Open` in `Overlay` is `open` with
`parsePayload`, the `selectSource` it calls and the path change that follows
from it; `Resume` in `CommandCoordinator` is everything from the `await` to the
end of `finally`. Definitions marked **"Faulty:"** are plausible mistakes, each
put next to the definition it would replace; the specifications never use
them. They are there to show that a property would notice.

### Correspondence

- A **text** is the path it was read from. That is enough to tell whose text is
  in view; `Overlay` adds a length for each path (`TextLength`), so that two
  directories may have copies of different length, and `SyntaxHighlight` the
  characters. What is assumed is that a file does not change while the plugin
  runs.
- **What the overlay reads** is `InView`: the service's text, or none as long as
  the shell has not given the overlay the service (`service`, `InjectService`).
  `replaced` remembers whether the text in view gave way to another or to none
  since the last key that fits progress to a text; `history` counts what the
  keys of the session did.
- **Reading**: `loading` is the path the `FileView` reads. It starts again when
  the path changes and drops the read of the old path (`FileViewFollowsPath`).
  Either callback may come at any later time.
- **The shell** (external, modelled from how the code uses it): `summons` is
  the sequence of payloads handed to it and not delivered. It may inject the
  service, itself and the manifest in any order and delivers in order. The
  manifest arrives at most once: nothing in the code handles a second. The
  overlay gets the service once. A panel gets it from `serviceFor`, which may
  also answer null, so that the panels in `Losers` may lose it and get it back
  any number of times; `missed` remembers that a panel without service and
  binding missed a selection.
- **Launches asked for** (`asked`) are those that something comes of: a summons
  that is handed to the shell, a timer that starts, a toggle that opens. One that
  returns for want of a text (`Panel.qml:53`), restarts a running timer, or
  finds no shell, is not counted (`AskIf`).
- **Screens** (external): `screens` and `focusedMonitor`. A screen that goes
  takes its panel and the timer in it along.
- **Keys** are the six classes that `handleKey` tells apart.
- In the orchestrator, **queues** are arrays that are sorted at each push; the
  model counts the entries of each task and pops one that no other precedes. A
  **clock** is reduced to whether a lease has run out; it is not set back. A
  worker's report of its active tasks may be wrong; `counted` remembers which
  workers started from the truth.
- In the coordinator, node **objects** are told apart from node ids, because a
  dispatch keeps the object. The class has no locks; the model lets other calls
  in where it gives up the thread, at `Task.Yield`, and nowhere else. After the
  yield the code may run on another thread, beside other calls; the plain lists
  and dictionaries of the class do not survive that, so that its callers have to
  keep calls apart, and the model supposes that they do. `reaped` counts the
  reaps of an object while it is in use, `lost` the leases that a command lost
  while it ran; both begin again at zero when nothing runs any more.
- In the engine a step takes a lock or touches an atomic, and reads of `running_`
  and of the ring are two steps in the predicate of `wait_for` (`TestRunning`,
  `TestRing`); the header of the module names the few accesses that are joined,
  and why that adds or hides nothing. The predicate and the sleep are steps of
  their own, because the notifications do not take `wait_mu_`.
- In the reconciler a call reads and plans in one step and commits in another, as
  the mutex is held in `Read` and in `Commit` and not in between. Others change
  nodes and workloads through the same `Commit` (`Edit`). Of a node the model
  keeps what is free, of a selector the nodes that match it; names are numbers,
  in their order. The context may be cancelled at any time and is looked at
  where the code does, after a conflict.
- In `SourceText` a file is a sequence of the **characters** that `prepareSource`
  tells apart: blanks, the mark, both ends of a line, the openers of a comment,
  the two headers, and code. Each state is one file, read so far; `kept` and
  `line` are what a reader keeps who goes through it character by character,
  and the property compares that with the replacements, the split and the two
  loops of the code.
- The scanner's **regular expression** is modelled by its alternatives, each
  the set of positions where its match from a given position ends; greedy and
  lazy repetition are the greatest and the least of the candidates.

## 3. What the runs check

| run | configuration | properties | what it shows |
|---|---|---|---|
| `service` | `MCSourceService` | `ViewMatchesSelection`, `LoadingIsTruthful`, `StaleTextIsReplaced`, `SettledTextStays`, `SelectionSettles`, `ImplementsSourceView` | reads, selections, injections, summons and commands in any order: the view is that of the selection, an empty view is being filled, a settled text stays, every selection settles, and the service implements `SourceView` |
| `typing` | `MCOverlayTyping` | `ProgressWithinText`, `ProgressIsTyped`, `KeysActAsTold` | what keys reveal and rewind while another source, or another directory's copy of the source, takes the place of the text under the session |
| `cards` | `MCOverlayCards` | `CardsAreEarned`, `CardsEndWithSession` | each third press earns a card, of its own key and session |
| `plugin` | `MCHackerTyper` | `TypeOK`, `NoUninvitedSession`, `OverlayKeepsScreen` | timers, summons and sessions never exceed the launches asked for; an overlay asked for by name keeps its screen while that is connected |
| `launch` | `MCHackerTyperLaunch` | `LaunchOpensOverlay`, `DropdownShowsSelection` | a launch opens the overlay in the end, whatever was launched before it and selected in between; the dropdown shows the selection, binding or no binding, whoever changes it |
| `highlight` | `MCSyntaxHighlight` | `NothingIsLost`, `ColoursStay`, `RegionsAreTrue` | the tokens are the text, colours stay as it grows, and the scanner agrees with an automaton that reads character by character |
| `orchestrator` | `MCTaskOrchestrator` | `QueuedOnce`, `ActiveIsHeld`, `AttemptsAreBounded`, `OldestFirst`, `TerminalIsFinal` | late reports, reclaims and retries neither lose, double nor undo a task, release each lease once, and let no task overtake an earlier equal |
| `coordinator` | `MCCommandCoordinator` | `IdleNodesAreFree`, `LeasesAreLive`, `ReapsBoundOverlap`, `LossesBoundRuns`, `ReservationsEnd` | nodes, leases and dispatches stay in step while nodes leave and return and leases are reaped; dispatches of a node or of a command overlap no more than reaps and lost leases account for; every reservation ends |
| `telemetry` | `MCTelemetryEngine` | `EachSampleOnce`, `CountersAgree`, `StopLeavesNothing`, `SamplesLeave`, `StopEnds` | each sample is in one place, what `stop` leaves behind came too late, and lost wake-ups delay but do not block |
| `reconciler` | `MCClusterReconciler` | `RetriesMeanProgress`, `PlacementsFit`, `PlansAreCurrent`, `PlansAreStable` | overlapping calls store no plan made for another cluster, placements fit and stay while the cluster does, and attempts are lost to the commits of others only |
| `text` | `MCSourceText` | `PreparedIsVisible`, `PreviewIsHonest` | the prepared text is what a reader would keep of the file; a preview is the beginning of it, or says that it is cut |
| `backspace` | `MCOverlayBackspace` | `BackspaceRewinds` | violated: see the finding |

All configurations check for deadlock but `MCClusterReconciler`: when its calls
and edits are used up, nothing is left to do. The type invariants of the modules
are proved (section 4); TLC checks that of the whole plugin, `TypeOK`, which
contains those of the service, the overlay and the panels.

### A finding

`README.md:24` of the plugin says "Backspace rewinds." It does unless the text
in view was replaced since the last key (`KeysActAsTold`, proved). If a shorter
text takes its place while the overlay is open, because another source is
selected by a command or another panel, or because the manifest arrives and the
source is read again from a directory with a shorter copy, progress stays where
it was, beyond the end of the new text, and the first Backspace
(`HackerTyper.qml:186`) only brings it back to that end: the key is accepted and
nothing on the screen goes away. Run `backspace` finds the shortest such
sequence.

### What the properties do not claim

- Which characters an open session shows. `ProgressIsTyped` bounds how many: no
  more than its keys released. When another text takes the place of the one in
  view, the first `progress` characters of the new one show at once, with no key
  pressed (`HackerTyper.qml:39`).
- Where an overlay is that was summoned without a name: it follows the focus
  (`HackerTyper.qml:86-88`), and one that fell back to another screen moves
  when the screen it was asked for returns. `OverlayKeepsScreen` is about named,
  connected screens, and about being on some screen at all.
- A panel that loses the service after its binding, and gets it back after
  another selection, shows the old source until the next one (`missed`).
- A late summons may bring an older selection back (`HackerTyper.qml:96`). The
  properties say that view and dropdowns follow it there, not that it may not.
- In the orchestrator attempts are bounded but for leases that ran out:
  `reclaimExpired` retries for ever, and `AttemptsAreBounded` permits it. A wrong
  heartbeat makes the count of active tasks wrong; `ActiveIsHeld` leaves its
  worker out from then on.
- In the coordinator dispatches on one node, and runs of one command, do overlap
  once leases are reaped or leave with their node: `ReapsBoundOverlap` and
  `LossesBoundRuns` say by how many. A node is lost if the expiry time overflows
  (`CommandCoordinator.cs:70`, between the reservation and the `try`);
  `IdleNodesAreFree` and `ReservationsEnd` leave such a node out.
- In the engine a full ring drops its oldest sample without telling;
  `CountersAgree` is the bookkeeping with that term.
- In the reconciler a replica may be left out although there is room by the end,
  if a workload that comes later has a negative weight, which nothing refuses:
  it gives room instead of taking it (`LaterOnesTake`). The run has a cluster of
  this kind (`Giver`).
- `RegionsAreTrue` leaves out texts with half an escape, or with an escaped
  newline: `\\.` takes no newline, and the scanner takes such a string for none.
  The file calls itself best effort. `ColoursStay` covers these texts too: it
  lets the second half of an escape, and nothing else, change colours, and
  never those in front of the last token.
- In the reconciler a workload keeps what it has only as long as nobody changes
  the cluster: each plan starts from nothing. `PlansAreStable` says no more.

### Bounds, and why they are enough

| run | bounds | why |
|---|---|---|
| `service` | 3 sources, 2 directories, 1 unknown id, 2 summons | a read can be dropped twice, once for a source and once for a directory; with two summons the second is stale when it arrives |
| `typing` | 2 sources with texts of 7 and 2 at home, of 2 and 4 beside the manifest; 3 characters a key, 4 presses | full steps, a short last step, presses at both ends, progress beyond the end of the other source and of the other copy |
| `cards` | 4 counted presses of each kind, all keys | a card, and a press after it; a repeat that must not count |
| `plugin` | 2 screens (symmetric), 1 source, 2 launches, 1 summons at a time; `ServiceFirst` | two launches that wait in different places; the overlay asked for on one screen, the focus on the other, either may go |
| `launch` | 1 screen, 2 sources, 2 launches, 1 summons at a time; the panel may lose its service; `ServiceFirst` | a launch behind another, selections in between by the panel, a command and a late summons, before and after the binding is gone or the service lost; two screens are out of reach with liveness: see below |
| `highlight` | every text of up to 5 of 9 characters, 3 kinds of languages | a number with its fraction and both its boundaries, a block comment with something in it, or a string with an escaped quote and something behind it, is 5 long |
| `orchestrator` | 2 tasks, 2 workers (symmetric) with room for 1, 2 kinds, 2 priorities, 2 attempts, 1 reclaim each | a task lost by one worker and taken by the other, while the other task moves; for `OldestFirst` more tasks are covered by the proof only |
| `coordinator` | 2 ids, 3 objects, 2 commands, 2 calls, 1 overflow | a node replaced under its id while the old object still runs a dispatch, which leaves, is reaped and is taken by the other; a call is used again when it ended, so two suffice for a dispatch after two that overlapped, on one node or of one command |
| `telemetry` | 2 publishers, 2 workers, ring and batch of 2, 3 samples | a full ring, two batches at once, a sample left over, a notification between the test and the sleep of each worker |
| `reconciler` | 2 nodes, 2 workloads, 8 clusters, 2 calls at a time (symmetric), 3 calls, 2 edits, 2 attempts | room that is enough, too small, or just enough if the first workload leaves the second its node, and a workload that gives room back; a call can lose all its attempts |
| `text` | every file of up to 5 of 8 characters, limits 0 to 3, 0 to 2 lines | a mark, a hidden line and what is behind it; both ends of a line of two characters; a text longer than the limit |

`ServiceFirst` is a constraint of the two runs of the plugin: the overlay has its
service before the first launch is asked for. From then on it holds for good, so
it cuts off no part of a behaviour that begins that way. Sessions that begin
without the service are in `typing` and `cards`, and in the proofs.

For several panels `DropdownShowsSelection` is the theorem
`DropdownAlwaysShowsSelection`. `MCPanel` is a configuration beside the runs, of
two panels alone that may both lose the service; it takes a minute, and is for
whoever changes `Panel.tla` and wants to know before proving anew.

The bounds are the constants named `Max...`; each stands in the guard of the
action that would count on for ever.

### Fairness

- **Reads end** (`Service.qml:61`): each path's read is weakly fair by itself. A
  read that is dropped again and again owes nothing.
- **In the plugin**, timers run out, and the shell delivers what it was given.
  No user input, command, injection or screen is fair.
- **Coordinator**: what was yielded to the scheduler is resumed.
- **Engine**: each worker thread runs when it can, and `wait_for` ends. The
  wake-ups are not needed for `SamplesLeave` and `StopEnds`; the time-out is,
  as the mutant `TimeOut_SleepsOn` shows. Publishers need not go on.

The other specifications state safety only and no fairness.

## 4. What is proved

The theorems hold for every value of the constants that satisfies the named
assumptions; the runs show the same formulas on the instances above.

| module | theorems | inductive invariant |
|---|---|---|
| `HackerTyperProofs`, service | `ServiceInvariant`, `ServiceTypeCorrect`, `ViewAlwaysMatches`, `LoadingAlwaysTruthful`, `StaleTextAlwaysReplaced`, `SettledTextAlwaysStays`, `ServiceImplementsView` | `ViewInv` |
| overlay | `OverlayInvariant`, `OverlayTypeCorrect`, `ProgressAlwaysWithinText`, `ProgressIsAlwaysTyped`, `CardsAreAlwaysEarned`, `CardsAlwaysEndWithSession`, `KeysAlwaysActAsTold`, `OverlayAlwaysKeepsScreen` | `OverlayInv` |
| panels and plugin | `PanelTypeCorrect`, `DropdownAlwaysShowsSelection`, `PluginTypeCorrect`, `PluginKeepsServiceRules`, `PluginImplementsOverlay`, `PluginShowsSelection`, `NeverUninvited` | `PanelInv`, `SwitchInv`, `AskInv` |
| `TaskOrchestratorProofs` | `TaskInvariant`, `OrchestratorTypeCorrect`, `AlwaysQueuedOnce`, `AlwaysOldestFirst`, `AttemptsAlwaysBounded`, `TerminalAlwaysFinal`, `ActiveAlwaysHeld` | `TaskInv`, `WorkerInv` |
| `CommandCoordinatorProofs` | `CoordinatorTypeCorrect`, `IdleNodesAreFreeAlways`, `LeasesAreLiveAlways`, `ReapsAlwaysBoundOverlap`, `LossesAlwaysBoundRuns` | `CoordinatorInv` |
| `SyntaxHighlightProofs` | `ScanInvariant`, `HighlightTypeCorrect`, `NothingIsEverLost`, `ScannedInvariant`, `ColoursAlwaysStay`, `RegionsAreAlwaysTrue` | `ScanInv`, `ColourInv` |
| `TelemetryEngineProofs` | `EngineInvariant`, `TelemetryTypeCorrect`, `StopAlwaysLeavesNothing`, `EachSampleAlwaysOnce`, `CountersAlwaysAgree` | `EngineInv`, `PlacedInv` |
| `ClusterReconcilerProofs` | `ReconcilerInvariant`, `RetriesAlwaysMeanProgress`, `PlansAreAlwaysCurrent`, `PlansAreAlwaysStable`, `PlacementsAlwaysFit` | `ReconcilerInv` |
| `SourceTextProofs` | `TextInvariant`, `PreparedIsAlwaysVisible`, `PreviewIsAlwaysHonest` | `TextInv` |

- **Service.** `ViewMatchesSelection` and `LoadingIsTruthful` are not inductive:
  nothing in them says what is in view when no read is under way, and from such
  a state the end of a read proves nothing. `IdleViewIsFilled` says it: the
  last read has left the text of the selected path, or an error. That the only
  read under way is that of the selected path makes each callback fill the view
  of the present selection. Under `ViewInv` each step of the service is a step
  of `SourceView` or changes nothing it sees (`ServiceImplementsView`, the
  safety part of the refinement).
- **Overlay.** Progress may be at any place of a text, and the text in view may go
  at any time, without the overlay doing anything. That `replaced` is set by
  every step that could push progress out of the text (`SessionWatches`: a text
  in view gives way to another or to none) makes `ProgressWithinText` inductive,
  with the lemmas on `Advance` and `Retreat` and the service's invariant; a text
  that comes into an empty view needs no such mark, because progress is 0 there
  or it replaced one before. `ProgressIsTyped` and the two equations of
  `CardsAreEarned` tie progress and the counters to the history of the session.
- **Panels.** Once the binding is gone only the handler keeps a panel in step,
  and the handler runs only in panels that have the service. `PanelOK` says what a
  panel without it needs to show the right value when the service comes back:
  its binding, or the present selection in the dropdown; else it has missed one.
- **Plugin.** Each step of the plugin is a step of the service, of the panels
  or of the overlay with its service (`PluginKeepsServiceRules`,
  `PluginImplementsOverlay`), so that everything proved of the overlay holds in
  the plugin. `NeverUninvited` is a count: a launch adds one to `asked`, and from
  then on one place at a time holds it: a waiting timer, a summons, a session.
- **Orchestrator.** `TaskOK` ties the entries, attempts and reclaims of each
  task to its state: a task that is leased, running or ended has no entry in its
  queue, and a task that waits has an attempt left. `OldestFirst` needs that tasks are
  created in the order of their times (`CreatedInOrder`) and that an untried task
  is queued, so that the pop would have had to prefer it. `ActiveIsHeld` counts:
  each step that gives a lease or takes one changes the set of the worker's
  tasks by one element, and its number by one (`WorkerInv`).
- **Coordinator.** Loads, reservations, reapings and what overlaps on a node are
  stated for one node object at a time (`ObjectOK`), lost leases for one command
  (`CommandOK`), and a step changes what runs on one object, or of one command,
  at most. `CallsHaveTargets` is the missing part: a suspended call has an object,
  so that what it gives back belongs to one. The two bounds are inductive only
  with their second halves: it is because a node that is free, or a command
  without a lease, has room in what was reaped or lost that the next dispatch
  keeps the first.
- **Scanner.** The tokens up to `lastEnd` are consecutive pieces of the text;
  each match begins behind `lastEnd`, and the gap before it becomes a piece of
  its own exactly if there is one. `ColoursStay` compares two scans, which the
  code runs one after the other. `ColourInv` says what the tokens of the text
  without its last character still are in the longer text: each but the last is
  a match of the same type with the same end, or a gap, unless a backslash was
  the last character, whose escape may have become whole. For that, each
  alternative of the regular expression has a lemma that says which of its
  matches an appended character leaves alone (`BlockCommentIsKept` to
  `MatchIsKept`). Both scans then agree token by token (`ColoursAreAlike`).
  For `RegionsAreTrue` the automaton is taken apart into its steps, an end of a
  string that the scanner reaches is one that is not escaped
  (`ReachedIsNotEscaped`, `EndIsReached`: the number of backslashes before it is
  even), and the tokens are followed one after the other: where one begins the
  automaton opens the same region, and leaves it where the token ends
  (`RegionsFollow`).
- **Engine.** `EachSampleOnce` becomes five disjoint sets, the samples that are
  being pushed, in the ring, in batches, delivered and overwritten, that
  together are the numbers taken (`PlacesInv`); each step moves one element from
  one to the next, or a stretch of the ring to a batch. `StopLeavesNothing` needs
  to know where workers are while the engine starts, runs and stops
  (`ControlOK`), and that after `stop` only late samples enter the ring
  (`LateOK`).
  `CountersAgree` adds the lengths of all batches by a fold: `HeldIsFold` gives the
  fold its recursive equation over sets of workers, and `HeldChanges` says that a
  step that changes one batch changes the sum by the difference.
- **Reconciler.** A plan that waits for its commit is the plan of the present
  store or its revision is behind (`PlansWait`): revisions only grow, and every
  commit of somebody else uses one up. What was planned last is what would be
  planned now (`StoredIsPlanned`), which makes planning again change nothing. That
  what is planned fits (`PlanFits`) is an induction over the replicas of a
  workload (`OneReplicaMore`), inside of one over the workloads
  (`OneWorkloadMore`): the room of each node is what it had less what was placed
  there, and a workload whose placing stopped early had no node left, nor has it
  one later if nobody gives room back.
- **Text.** `PreparedIsVisible` compares the text with a reader, and says nothing of
  what the lines before were. `TextInv` says that the lines which have ended and
  the line under way are the lines of the text as `prepareSource` splits it, and
  that those kept are what it prepares of the ended ones. Each stage then has a
  lemma on what one more character, or one more line, makes of its result:
  `WithoutMarkGrows`, `LineFeedsGrow`, `LinesGrow`, `PreparedGrows`; and the two
  regular expressions on the trimmed line are the reader's test on the line as
  it is (`HiddenIsHeader`). `PreviewIsHonest` rests on what trimming leaves: it
  begins and ends with ink (`TrimIs`), so that a cut of at least one character is
  not blank.

Assumptions, each named in its module and evaluated by TLC on every run of it:
`CatalogAssumption` (the catalogue is not empty and holds the initial id, the
assumed directory is one), `NoneAssumption` (`None` is no value), `OverlayAssumption`
(texts are not empty, a key reveals at least one character), `CountAssumption`
(finitely many screens), `OrchestratorAssumption` (numbers are numbers, at least
one attempt), `HighlightAssumption` (`IsLanguage`: comment signs have one or two characters,
none of a word, a number or a newline, and no word character opens a string, as
in every language of `SyntaxHighlight.js:28-147`; a dot, a newline and a
backslash are no letters), `CoordinatorAssumption` (finitely many calls
and commands), `TelemetryAssumption` (finitely many threads, at least one worker,
a ring and a batch of at least one), `ReconcilerAssumption` (at least one
attempt; `IsCluster`: finitely many nodes and workloads, with whole numbers for
room, replicas and weight, of which room and weight may be negative), and
`TextAssumption` (numbers of lines and limits are natural numbers).

### Only model-checked

- Liveness: `SelectionSettles`, `LaunchOpensOverlay`, `ReservationsEnd`,
  `SamplesLeave`, `StopEnds`, and the part of `ImplementsSourceView` that says an
  empty view is filled. The provers have no rules for fairness and `ENABLED`.

Every other property of the passing runs, invariant or action property, has its
theorem.

The library's induction theorems take the property as an operator, which the
provers cannot instantiate. `DataInduction` takes it as the set of what has it
instead, and derives induction over numbers (`NatSetInduction`), over an interval
and over finite sets from the well-foundedness of the subset ordering, and the
existence of functions defined by recursion (`StepwiseFunction`,
`ElementwiseFunction`). That is what the proofs about the scanner, the counters,
the plan and the texts use.

## 5. What is not modelled

- The markup that the overlay makes of the tokens; scrolling, focus, colours and
  layout.
- Bindings between the assignments of one handler: a handler is one step.
- Payloads, traces and journals of the bundled programs, where no decision
  depends on them; roles and capabilities are reduced to which node can run a
  command.
- The relaxed memory order of the engine's counters and of `running_`, its
  spurious wake-ups but as early time-outs, and a ring of capacity 0.
- `Summary` and the messages of the reconciler, and the phase that its loop sets
  before `plan` replaces it.
- The pulse bus (`kernel-like.c`) is no complete program: the types of its workers
  and routes and the links of its lists are declared nowhere. A model of it would
  be a guess about the missing part.
- Event pipeline, async observer, deploy coordinator, request router, packet
  engine and workspace rules run one step after the other for one caller; nothing
  in them interleaves, is retried against a change, or outlives a call but in
  plain tables. They are never run, only shown.
- The script and the queries keep no state. The tests check functions and texts
  and were read as documentation.

## 6. Plan

Done, in this order: typing model, service and its abstract specification,
overlay, panels, the plugin, with their proofs; the orchestrator and its proofs;
the coordinator; the scanner and its proofs; the telemetry engine. Then the
proofs about the coordinator, the counts of the orchestrator, the type
invariants and the screens of the plugin, and the engine; the cluster
reconciler with its proofs; the text of a file. Then induction over data, and
with it the proofs about colours and regions, the counters, the placements and
the texts.

What is left are the six sequential programs of section 5. Each would be a
function with a reference definition, of the kind of `SourceText`; they come last
because a unit test reaches what may go wrong in them. The plugin with two
screens under fairness, and texts longer than five characters, are beyond the
runs; of their safety, section 4 proves what the runs check.
