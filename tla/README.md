# herdr-tabline in TLA+

herdr-tabline renders tab labels for Herdr. A daemon per Herdr session re-renders every tab
on events and on a poll interval; a `rename-current` process does the same for one tab on a
keybinding; both share a label history in a state file. This directory holds the
specifications of what is concurrent, crash-prone or off-by-one-prone in that program, the
TLC configurations that check them on small instances, and the proofs that hold for every
instance.

Run everything from this directory: `tlc -workers 2 -config X.cfg M` checks module `M`,
`tlapm MProofs.tla` checks proofs.

## The system

| Component | State | Operations | Used by |
|---|---|---|---|
| Controller (`internal/controller/controller.go`) | none of its own between passes | `Reconcile`, `reconcileTab`, `commit` | runner, rename-current |
| Collector (`internal/collector`) | none | `Build`, `AttachProcess`, session summary | controller, status |
| Runner (`internal/controller/runner.go`) | stream, warm-up and dirty flags, settle, debounce and poll timers | `Run`, `subscribe`, `reconnect`, `refresh`, `applyIntervals` | daemon |
| State store (`internal/state/store.go`) | the history `tab -> (source label, rendered label)`, a lock file | `Load`, `Update` | controller |
| Daemon lock (`internal/state/lock_unix.go`) | one file: an flock and a PID | `Acquire`, `Release`, `PID`, `SignalStop` | daemon, start, stop |
| CLI (`internal/cli`) | none | `daemon`, `start`, `stop`, `rename-current`, `preview`, `status`, `validate-config` | Herdr, the user |
| Renderer (`internal/render`) | none | `Execute`, `ExecuteSession`, helpers | controller, preview, status |
| Configuration (`internal/config`) | current configuration, signature of the file | `ReloadIfChanged`, `Current`, `Resolve` | controller, runner |
| Herdr client (`internal/herdrapi`) | connections, at most one subscription | `Snapshot`, `ProcessInfo`, `RenameTab`, `Subscribe`, `Close` | controller, runner, CLI |

How they meet: the runner calls `Reconcile` between two selects. `Reconcile` reloads the
configuration, loads the history, takes a snapshot, walks the tabs (a process query and
possibly a rename each) and merges what it touched into the state file. Nothing is locked
across these steps, so the daemon's pass, actions' passes and the user's own renames
interleave freely. `start` and `stop` know the daemon only through the PID file.

What makes each one hard:

- *Controller*: everything it decides rests on a history and a snapshot that are stale by the
  time it acts, and its two effects, the rename and the history entry, can be torn apart by
  failures. It must not mistake its own labels for the user's, not touch tabs that are not
  its own, and settle.
- *Runner*: five wake-up sources race in one select, timers can fire while the loop is busy,
  and a stale stream, interval or flag must not lose or invent a refresh.
- *State store*: several processes, kills, loss of power.
- *Daemon lock*: system calls of three commands interleave; PIDs outlive processes.
- *Renderer*: cell widths at the cut.
- *Collector and profiles*: what the plugin wrote comes back with the next snapshot, and
  profiles match on it and templates show it; the mode is decided twice, before and after the
  process is known.
- *Configuration*: an editor saves, deletes and puts files back between the three reads of one
  reload.
- *Herdr client*: Herdr may be silent, answer anything and hang up, and cancellations and
  `Close` arrive in any state of any operation.

## The modules

| Module | Models | Its MC module and runs | Theorems |
|---|---|---|---|
| `Reconcile` | `Reconcile` of the daemon and of actions, over Herdr's labels and the state file | `MCReconcile`: `reconcile_solo`, `reconcile_shared`, `reconcile_concurrent`, `reconcile_late_profile` | `ReconcileProofs` |
| `Runner` | `Run`'s event loop and its timers | `MCRunner`: `runner` | `RunnerProofs` |
| `DaemonLock` | `Acquire`, `Release`, `SignalStop`, `start`, `daemon`, per system call | `MCDaemonLock`: `daemon_lock`, `daemon_stale_start` | `DaemonLockProofs` |
| `LabelStore` | what the store promises: atomic updates | checked as a property of `StateFile` | |
| `StateFile` | `Load` and `Update`, per system call | `MCStateFile`: `state_file` | `StateFileProofs` |
| `ConfigManager` | `ReloadIfChanged`, per read of the file, and the user's editor | `MCConfigManager`: `config_manager` | `ConfigManagerProofs` |
| `HerdrClient` | calls, `Subscribe` with its goroutine, `Close` | `MCHerdrClient`: `herdr_client` | `HerdrClientProofs` |
| `Collector` | `Build`, pane selection, numbering, source labels, `AttachProcess` | used by `TabPipeline` | |
| `Profiles` | `compile`'s checks and defaults, `Resolve`, matching; extends `Collector` | used by `TabPipeline` | |
| `TabPipeline` | passes over a changing session, composed of the two | `MCTabPipeline`: `tab_pipeline` | `TabPipelineProofs` |
| `Rendering` | cleaning and cutting of labels | `MCRendering`: `rendering` | `RenderingProofs` |

Operators that a comment introduces with "A plausible mistake" are not part of the
specifications: each states the bug that makes one property fail, to show that the property
depends on the code. `PROJECT.json` pairs them.

### Reconcile

`label` and `runs` are what Herdr shows and runs; `file` is the history. A reconciler `p` is
the daemon or one action; `pc[p]` follows a pass: `LoadHistory`, `TakeSnapshot`, then for each
tab of the snapshot, in any order, one of `LeaveTab`, `ProcessInfoFails` or `RequestRename`
with `RenameTab`, `RenameRefused` or `RenameReplyLost`, and at the end `Commit`, `CommitFails`
or `TargetMissing`; `Stop` ends a pass anywhere. `ReachTab` is the part of the loop body every
tab passes through: the source label is observed even when the tab is then left alone.
`Outside` is the user and Herdr. Which mode and which label a tab gets are the constant
functions `Mode[tab][process]` and `Render[source][process]`; the two calls of `Resolve` are
`WorthQuerying`, without the process, and `NeedsRename`, with it. A process query and the decision
taken on its answer are one step (the only other actors that could notice are Herdr and its
user, and what they do next they could have done before); the rename request is a step of
its own, so that labels change between the decision and the write. `given` and `wrote` are
history variables: the labels a tab ever got from outside and from the plugin.

`file` here is an atomic table: each `Load` and each `commit` is one step. That is what
`StateFile` justifies (theorem `ImplementsStore`).

`Begin` is who starts a pass: the runner the daemon's, the user an action's, which counts among
the things the user does (`edits`).

What is abstracted: the order of tabs (any) and profiles that read more than the process, which
are `TabPipeline`'s; and the refresh of the configuration at the beginning of a pass
(controller.go:94-97). `Mode` and `Render` stay the same for a whole behaviour, as `compiled` does
in `TabPipeline`; how the configuration itself is refreshed is `ConfigManager`'s.

### Runner

Time passes in units, in `PassTime`, whatever the goroutine does, so that a timer can fire
while the loop refreshes or waits to reconnect. A timer is the units left and whether its
channel holds a value; `Reset` and `Stop` do not empty the channel (the module declares Go
1.22, whose timers behave so), and a ticker drops ticks nobody reads. The `select` is one action per
case. `Refresh` is entered with the reason, because what follows it in the code differs. The
refresh itself, `Reconcile`, is one step in which the configuration may change; `intervals` is
the loop's pair `poll, debounce`, and `applyIntervals` retimes the ticker and the settle timer
when the first of the two changed. The delays of `backoffSchedule` are left out: a
resubscription is retried after some time.

### DaemonLock

A process is its PID; `pc` says which command it runs and which system call is next. `owner`
holds the flock, `recorded` is the file's content. SIGTERM cancels a running daemon and kills
any other process, including a daemon that has not yet called `NotifyContext` or whose
deferred `stop` already ran. `PidReuse` says whether a PID that is still in the file, or that
some process has read, may be given to another process. A probe really takes the lock for a
moment, as the code does.

### LabelStore and StateFile

`LabelStore` is the promise: every update is applied to the table the previous one left, a
loss of power brings back a table the store had since it was last flushed, and a table that cannot be
read is never replaced. `StateFile` is the mechanism: shared and exclusive flock, read,
compare, temporary file, sync, rename, sync of the directory, unlock; any step may fail, any
process may be killed at any step, and power may be lost. A file is the table it decodes to
and whether its data is flushed; unflushed data may be unreadable after a loss of power.
`Store == INSTANCE LabelStore WITH table <- Decoded(file), unflushed <- ...` is the refinement mapping.
A callback of `Update` that declines and one that changes nothing are one case
(`NothingToWrite`); the controller's never declines.

### ConfigManager

A call of `ReloadIfChanged` looks at the file three times, `Stat` for its time stamp, `Hash` for
its content and `Reload` for the configuration, each an action of its own, between which the
editor saves (`Save`), deletes (`Delete`) and puts an old file back (`Restore`), in any order and
as often as `MaxEdits` allows. A version of the file is a content and a time stamp, and so is a
signature; `Stat` and `Hash` may take the two halves of one from two versions. A missing file is one
version, with the zero signature, each time it is missing. The size a signature also holds is left
out, so that more mixed signatures are equal here than in the code.
`reloadMu` admits one goroutine at a time. A save in place is two saves, the first of a content
that `compile` may refuse. What is compiled is named by its content; that `compile` is right is
`Profiles`' subject.

What is assumed of the disk: the clock time stamps come from does not go back. Two saves may share
a stamp. A file that is put back keeps its old stamp, and putting it back takes longer than the
clock is coarse, so that a later save has another stamp than those before.

`again` and `crossed` are history variables: the file is a version it was before, and the
remembered signature was taken of another content than `Load` then read. Where both hold
(`Mistaken`) the next call may take the file for unchanged that never was in force.

### HerdrClient

An operation is a call or a subscription and has a goroutine; `pc` says where it is in the code:
waiting for a slot, dialling and writing, reading, in `requireConnectionEnd`, and then in the
deferred clean-up, in its order. `wg` and `slots` are the wait group's count and the buffered channel's
content. `cancelled` is the operation's context, `conn` our end of its connection; that a
`Close` cancels the contexts (`CloseCancels`) and a cancelled context shuts the connection
(`ShutConnection`) are steps of their own, because `context.AfterFunc` runs each in a goroutine.
Herdr answers the request, another one or nothing, sends more than it should, and hangs up.
What is read from a connection is a frame of one of the kinds the decoder tells apart. A
subscription's goroutine alternates between reading and sending on the channel; `Deliver` is the
runner taking an event. Deadlines of contexts are cancellations.

### Collector, Profiles, TabPipeline

`Collector` and `Profiles` are operators under the names of the code: how a snapshot becomes one
context per tab, which configuration files are accepted, and what mode, template and width a
context gets. A pattern is the set of the values it matches, a template the set of the fields it
shows. `TabPipeline` composes them: Herdr's session changes (tabs are opened, moved, closed and
renamed, panes move and are focused, agents and processes come and go) between any two steps of
a pass, and a pass is `BeginAuto` or `BeginAction`, `TakeSnapshot`, then for each context `PassOver`,
`ProcessInfoFails`, `LeaveLabel`, `RenameTab` or `RenameRefused`, and `Commit` or `TargetMissing`.
Its labels are the user's names or the record of the values a template showed, so that a label
tells what it was made of. `reconcileTab`'s query and rename are one step here, and passes do not
overlap; both are `Reconcile`'s. A closed tab's id may come back with another tab, whose entry
the history then still has. Of the foreground processes `AttachProcess` takes the first and, if
it is among them, the leader of their group. `ContextNow` and `AsDeclared` say in words of their own what
README promises, and the properties compare them with what passes did.

### Rendering

A text is a sequence of graphemes of the kinds the functions tell apart: one cell, two cells,
space, control character, `<no value>`, and regional indicators, two of which (`A`, `B`) make a
flag (`AB`) when one follows the other. `Segmented` is what uniseg makes of graphemes that are put
next to each other: `takeSuffix` collects them from the end in a string and splits that again to
reverse it (`ReverseGraphemes`), and what stands on both sides of a missing value meets when that is
stripped. The functions are operators under the names of the
code; a call of the engine is one step, so that TLC enumerates texts and widths as initial
states. `Texts` is a constant.

## What the runs show

| Run | Instance | Outcome |
|---|---|---|
| `reconcile_solo` | daemon, two tabs (one auto, one the user's), 4 outside changes, 2 failures of `read` or `refuse` | `SourceNeverOwn`, `UntouchedUnlessEligible`, `Converges`, `HistoryCatchesUp` hold (466,000 states) |
| `reconcile_shared` | daemon and action on one tab, 3 changes and starts of an action, 1 failure of `lost`, `stop` or `persist` | `RenderedWasWritten`, `SourceWasShown`, `DecorationsBounded`, `Converges` hold (271,000 states) |
| `reconcile_concurrent` | daemon and one start of an action, nobody else does anything | `SourceRecovers` fails |
| `reconcile_late_profile` | daemon, a tab that is auto only for one process | `Converges` fails |
| `daemon_lock` | 4 PIDs, 2 stops, 1 SIGKILL, starts and start-up failures without bound | `LockMatchesOwner`, `RecordedWhileRunning`, `StaleMeansGone`, `DaemonComesBack` hold (398,000 states) |
| `daemon_stale_start` | 3 PIDs, 1 SIGKILL, PIDs reused | `DaemonComesBack` fails |
| `runner` | poll intervals of 1 and 2 units, debounces of 0 and 1, one queued event, one failed resubscription | `WakeupsPending`, `NoEventDuringWarmUp`, `RefreshesForever`, `ReturnsOnCancel`, `IntervalApplied`, `WarmUpEnds` hold (43,000 states) |
| `state_file` | 3 processes, 2 tabs, 3 mutations, failures, kills and losses of power without bound | `NoLeftovers`, `AtomicUpdates`, `ReplacedOnlyToChange`, `CallsReturn` hold (48,000 states) |
| `config_manager` | 2 goroutines, 2 valid contents and a broken one, 3 changes of the file, 1 failing read of `stat` or `hash` | `TakesEffect`, `ReportedOnce`, `CatchesUp` hold (843,000 states) |
| `herdr_client` | 2 calls over 1 slot, one of them may be cancelled, 1 subscription, 1 goroutine that calls `Close` again and again | `CloseIsFinal`, `ConnectionsLimited`, `SuccessMeansApplied`, `CloseReturns`, `CallsReturn`, `HangupIsSeen` hold (248,000 states) |
| `tab_pipeline` | 3 tabs in 2 workspaces, 3 panes, 2 tabs to open, 4 accepted configurations and a refused one, 2 changes of the session, 1 action | `LabelsTellTheTruth`, `ResolvesAsDeclared`, `PreviewAgrees`, `SettlesDown` hold (711,000 states) |
| `rendering` | all texts of up to 4 graphemes, padded ones of 5, and rows of up to 5 regional indicators after wide graphemes, or of 3 with letters and missing values between; widths 0 to 9 | `FitsWidth`, `WastesNoCells`, `KeepsPadding`, `KeepsBothEnds`, `OnlyDisplayable` hold (33,000 states) |

### Where code and documentation part

Three runs show it:

1. `reconcile_concurrent`: the action renames a tab and commits between the daemon's `Load` and
   `Snapshot`. The daemon's history does not know the new label, so it counts as the user's,
   and `commit` stores it as the source label. Its own entry then says that source and label
   agree, so nothing corrects it. README:154 promises that a source label is never one the
   plugin wrote.
2. `reconcile_late_profile`: the first `Resolve`, made to save a process query, cannot see the
   process, so a `process_regex` profile can turn a tab off but never on (README:108).
   `PreviewAgrees` excludes such configurations: `preview` resolves once and shows the label.
3. `daemon_stale_start`: `daemonIsRunning` says it reports whether the lock is held but asks
   `kill(pid, 0)`. A stale PID in use by anything else stops `start` from ever starting a daemon.

Others were met while modelling and are excluded by a premise or a constant of a passing run:

- A name given between a pass's snapshot and its rename is lost without having been the source
  label. `Converges` and `HistoryCatchesUp` are about what the user did last before it settled.
- A dropped stream blocks the loop in `reconnect`, polls included, while a failed first
  subscription leaves polling on. `RefreshesForever` is checked with `HerdrComesBack`.
- A configuration can stay in force that should not: the file is missing when a call takes its
  signature, is saved before `Load` reads it, and is deleted afterwards. Every missing file has the
  zero signature (load.go:251-255), so later calls find it unchanged (load.go:230) until another
  version is saved, although README:52 and README:325-326 promise the defaults on the next pass.
  Putting an old file back with its stamp does the same. `EditsTakeEffect` is that promise;
  `config_manager` with `EditsTakeEffect` as an invariant finds these steps. `TakesEffect` and
  `CatchesUp` except such a version (`Mistaken`) and say that nothing else does this.
- `Execute` tests for displayable text before it strips `<no value>`, so a template of missing
  values only renders the empty label. `<no value>` is one grapheme here: one that stripping puts
  together from the parts around another is not seen.
- `takeSuffix` splits the reversed text anew. Of an odd number of regional indicators, three or
  more in a row, other pairs are flags from the end than from the beginning, and what is shown
  is torn: `A B | C` comes out as `B C | A`. `KeepsBothEnds` excepts such values (`ReadsAlike`).
- The signature is remembered although `Load` failed (load.go:243). For an invalid file that is
  how it is reported once only. But if the read inside `Load` fails for a moment after the
  signature was taken, the valid file is not loaded until it changes again: `TakesEffect` and
  `CatchesUp` need `"load" \notin Failures`.
- A settle timer that fired before `settle.Reset` leaves its value in the channel (Go 1.22
  timers) and ends a warm-up at once; a first subscription or a refresh that takes longer than
  the poll interval is enough. `Runner` reproduces it; the duration of a warm-up is no property.

What the code keeps all the same: in the situations of 1, and when a pass dies between a
rename and its commit, history stays *honest* (`RenderedWasWritten`, `SourceWasShown`), and once the
user starts no more actions labels converge, to one that decorates an earlier rendering. While
actions go on they need not: the daemon and an action that each load before the other's commit,
and take their snapshot after its rename, render each other's labels, and a template that quotes
`.Tab.Label` gives a longer one each time. `DecorationsBounded` says how far that goes: three
decorations for an action at most, one for a failure.

### Bounds, and why they suffice

- `MaxEdits`, `MaxFaults`: four changes from outside are a rename, a closure, a reopening and
  another rename during a pass; one lost reply or one stop is enough to tear a rename
  from its entry. Two tabs are needed for one tab's failure to disturb another. With an
  action the tab is shared, so one suffices; three starts let the daemon and the action take
  labels from each other and again, or the user act between two of them.
- Labels are numbers, and `MCRender` gives each source and process a number of its own, so that
  no two causes of a label can be confused, however often it was decorated. No label decorated
  more than `MaxDecorations` times is quoted; `DecorationsBounded` shows that none is met, since
  1 + 3 * 3 + 1 is 11. The other runs decorate less.
- Four PIDs: two contending daemons, a start and a stop. Starts are unbounded; only stops and
  SIGKILLs are counted.
- Runner: with intervals of one and two units a timer can be reset half-way, fire while the
  loop is busy and be retimed both ways; each of the two intervals changes without the other,
  and a debounce of none fires as it is set. One queued event stands for a burst, because
  `SendEvent` may refill the queue at any time.
- StateFile needs no bounds: its state space is finite.
- ConfigManager: three changes are one between each two reads of a call, and one that brings an
  earlier version back, deletes the file or makes it valid again; the second goroutine's call can begin
  and end around any of them.
- HerdrClient: with one slot the second call waits for the first. `Close` may come before,
  between and after everything else; `Closers` repeat it, which exercises `closeDone`. One
  buffered event is enough to be read from a connection that was shut meanwhile. Only the action's
  rename (`Impatient`) is ever cancelled by its caller; `Close` cancels every operation.
- TabPipeline: the third tab stands between two of another workspace, so that numbering by
  workspace and by strip differ; a tab has two panes, one pane or none; two changes are a
  pane that leaves a tab whose layout still names it, a rename and a move during a pass, or a
  tab that is closed and another that takes its id, workspace and label changed. The other tab
  to open is new; either may be opened while a pass goes on.
  One agent status has an icon and one has none.
  The configurations are the defaults, profiles that match on the labels the plugin replaces,
  profiles that override each other, modes that depend on the process, and a width of 1025.
- Rendering: with up to five graphemes and widths to nine every budget of prefix and suffix
  occurs with one- and two-cell graphemes on both sides of the cut, and every row of two to five
  indicators is cut at each of its places. uniseg also knows clusters of three and four cells,
  with which a cut may leave more than one cell unused: `WastesNoCells` is about graphemes of at
  most two.

### Fairness

- `Reconcile`: the daemon keeps calling `Reconcile` (the runner's ticker), and a pass, once
  begun, proceeds. This assumes that Herdr answers or drops each call, since no call has a
  deadline. Actions, the user and failures are not fair.
- `Runner`: time passes, the goroutine is scheduled, and a ready case of the `select` is chosen in the
  end (Go's `select` is uniformly random: strong fairness per case, needed of the context, the
  settle timer and the ticker only). Herdr's events and hang-ups are not fair.
- `DaemonLock`: every process runs. That `start` is invoked again and again is a premise of
  `DaemonComesBack`, as are a last stop, a last kill and a last failing start-up.
- `StateFile`: every process runs, and flock is granted to one who asks while it is free again
  and again. flock does not queue, so overlapping readers could starve a writer;
  `CallsReturn` is about runs in which they pause (`ReadersPause`).
- `ConfigManager`: `ReloadIfChanged` is called again and again and proceeds (the runner's ticker,
  and `Reconcile` begins with it). The editor and failures are not fair.
- `HerdrClient`: goroutines run, those of `AfterFunc` included. Nothing is expected of Herdr, of
  who may cancel, and of the receiver of the events. That Herdr deals with the calls that reach
  it is a premise of the second half of `CallsReturn`, and that the runner takes events one of
  `HangupIsSeen`: without them nothing but a cancellation ends a call, for it has no deadline.
- `TabPipeline` has no fairness: it states safety only, `SettlesDown` included.

## What is proved

The proofs hold for every value of the constants that satisfies each module's assumptions: any
number of tabs, reconcilers, processes, labels and PIDs, and any bounds.

- `ReconcileProofs!TypeCorrect`: `TypeInv` adds to `TypeOK` that a pass in state `rename` has a
  rename to request, for a tab of its own snapshot, and that the loop only visits tabs of
  that snapshot. Type correctness needs it because `Apply` reads `job`.
- `RenderedHonest` and `SourcesHonest` (`RenderedWasWritten`, `SourceWasShown`): an invariant of the file alone is not inductive,
  because `Commit` writes what a pass gathered earlier. `HonestInv` says of every entry in
  the file, in a loaded history and in an update, and of every label in a snapshot, that it
  comes from labels the tab had; `given` and `wrote` only grow.
- `SoloSourceNeverOwn`: `SourceNeverOwn` with the assumption `Solo`: no actions, and no fault in
  which a rename is done and not recorded. The argument is that every label the tab shows is either given, or the rendered label of the
  file's entry, or one for which a pass holds a pending entry (`LabelsRecognised`, `Pending`,
  `PassSound`). Without `Solo` the property is false; run `reconcile_concurrent` shows how.
- `UsersTabsUntouched`: `UntouchedUnlessEligible`, strengthened by what a requested rename
  was allowed by.
- `DaemonLockProofs`: `LockInv` (`LockExclusive`, `RunningIsRecorded`) says that whoever writes
  the record holds the lock; it holds with reuse of PIDs. `UpIsNeverStale` adds that a number
  in the file or in a command's memory is, or was, a daemon that got as far as recording itself; it needs
  `~PidReuse`.
- `RunnerProofs`: `WakeupsNeverLost` needs that a debounce or settle timer is pending or
  about to be set at every point of the loop, not only in the select; `WarmUpIsQuiet` needs
  that the loop is not dirty when it subscribes.
- `StateFileProofs!ImplementsStore`: the invariant says who may hold the lock with whom, and that
  while a process is past its read the file is still the one it read and
  its temporary file is the mutation of it; then `CommitRename` is `LabelStore`'s `Update`,
  `SyncDir` its `Flush`, and every other step a stutter.

- `NothingLeftBehind` (`NoLeftovers`) rests on `Tidy`: a temporary file belongs to the process
  between writing and renaming it, which holds the lock. `ReplacesOnlyToChange` rests on
  `Differs`: what a process has encoded is not the table in the file, which cannot
  change while it holds the lock.
- `ConfigManagerProofs`: `ManagerInv` says that one goroutine at a time is inside (`Exclusive`), that a
  signature taken of a file nobody touched is that file's (`SignaturesFresh`), and that every
  signature is *spent*: a version the file had, or a mixture of two that it can never become
  for the first time (`SignaturesSpent`). So a mixed signature differs from every new version, and
  the next call loads the file. `ChangesTakeEffect` adds `Explained`: the configuration in force is
  explained by the signature unless `Load` read another content (`crossed`), and then the signature is
  not the file's unless the file is a version that came back (`again`); with the assumption
  `"load" \notin Failures`. `InvalidEditsReportedOnce` adds that what was reported is what the
  signature says, or is gone (`Remembered`).
- `HerdrClientProofs`: `LocalInv` says where each operation can be, what it owns there and what
  it knows of the answer (`Places`, `Owned`, `Answered`), and gives `SuccessIsReal`. `Counts`
  equates `wg` with the number of operations under way and `slots` with that of calls between
  taking and releasing one; it gives type correctness (neither becomes negative) and
  `ConnectionsAreLimited`. With `Closing`, that after `wg` was seen to be zero nothing can begin,
  it gives `CloseLeavesNothing`.

- `RenderingProofs`: for every text over the kinds of graphemes and every width, `LabelsFit`,
  `CutsAreTight`, `PaddingSurvives`, `EndsSurvive` and `NothingElseShown` (`FitsWidth`,
  `WastesNoCells`, `KeepsPadding`, `KeepsBothEnds`, `OnlyDisplayable`). `DisplayWidth` adds up
  over concatenation and reversal, and `TakePrefix` and `TakeSuffix` stop within one cell of
  their budget. That splitting the reversed text anew changes no width and, under `ReadsAlike`,
  no text rests on what `Segmented` does along a sequence (`SegmentedIs`, `SuffixTaken`): in a text
  as it is displayed no indicator follows a lone one, so flags and lone ones are split as widths
  add up; and where no lone one follows a flag either, the reversed text is split as the text was.
  What remains is a case for each way `ApplyMaxWidth` and `TruncateMiddle` cut.
  The proof asks that a branch of `CASE` be the one the code takes: where guards overlapped,
  the definitions are now chains of `IF`, in the order of the code.
- `TabPipelineProofs!ProfilesApplyInOrder` (`ResolvesAsDeclared`): applying the profiles in turn
  gives every setting the value of the last one that matches and sets it, by induction over
  the profiles (`ResolvesInOrder`), and that value passed validation (`DeclaredIsValid`).
- `PreviewIsWhatIsWritten` (`PreviewAgrees`): `DecisionOK` says that `decision` follows from the
  context it names; that a mode which no process-matching profile sets does not depend on the process is
  `ModeWithoutProcess`.
- `LabelsAreTrue` and `PassesSettle` (`LabelsTellTheTruth`, `SettlesDown`): that quiet implies
  right labels is not inductive, since a pass builds its contexts from a history written by earlier
  passes. `Memory` says of that history what is needed: each label of the plugin's is on file with
  the user's label it replaced, or will be when the pass in progress commits. So the source
  label of every context is the user's, `Build` computes from it what the README defines (`SnapshotIsNow`,
  from `BuildsContexts` and `SelectsShown`), and `QuietOK` follows the loop: the tabs behind it
  show the right label, the contexts ahead are up to date. A label the pass writes disturbs
  neither, because profiles and templates see source labels only (`ShownAlike`).

The last two theorems have the hypothesis `Distinct`: the record that stands for a rendered
label is none of the user's names, nor `Nothing`, and an entry is not `Nothing`. It is about the
values the model chooses, and the run's values satisfy it; but in the code both kinds of label
are strings, and a user who types exactly what the plugin rendered is not told apart from it.
What is assumed of constants: ids in a snapshot are unique, every tab has a layout, if an
empty one, tabs start with and are given labels of `Names`, which `Nothing`, the empty string, is not among
(`SessionsAssumption`, `ArrivalsAssumption`, `NamesAssumption`). That passes do not overlap is
part of the model; where they do, `reconcile_concurrent` shows what is lost.

How the proofs do induction over data: the library's induction theorems take an operator as a
parameter, which the provers cannot instantiate. `Least`, that a set of natural numbers has a
least element, is proved from well-foundedness, which is about a relation, and `Induction` is its
form for a set of numbers. `FoldLeft` is a recursive function on sets of indices;
`FoldExists` shows that the recursion has a solution, from which its values on `1..0`, `1..1`,
... are a sequence to do induction along. That is why the models fold instead of declaring
recursive operators. Both modules prove these few lemmas for themselves.

Only model-checked: everything under fairness (`Converges`, `HistoryCatchesUp`,
`DaemonComesBack`, `RefreshesForever`, `ReturnsOnCancel`, `WarmUpEnds`, `IntervalApplied`,
`CatchesUp`, `CloseReturns`, `HangupIsSeen` and `CallsReturn` of both modules): liveness and
`ENABLED` are beyond the prover used. `TabPipeline` has no type invariant of its own; what its
proofs need of types is in `SessionOK`, `PassOK` and `HistoryOK`.

## What is not modelled

- Template execution and the helpers besides `truncateMiddle` and `statusIcon`, grapheme segmentation
  other than of regional indicators (Hangul letters and prepended marks also combine in one order
  only), JSON and TOML syntax, whether regular expressions and globs compile and what they match: libraries, or
  pure functions without a history. A template that fails on a tab is a `read` failure of `Reconcile`, and
  `TabPipeline`'s templates do not fail.
- `validate-config`, `status` and the session summary: they read and print.
- A configuration that changes between passes, in `Reconcile` and `TabPipeline` (see above).
- `preview` takes its snapshot before it loads the history (app.go:182, 186); `PreviewAgrees` compares
  it with a pass on the same context.
- `compile`'s bounds on the two durations; that modes, widths and names are checked is modelled.
- In `TabPipeline`, templates that show `.Tab.CurrentLabel` or `.Tab.RenderedLabel`: such a label
  may legitimately grow with each pass, so `SettlesDown` is not meant for them. Users' labels
  are not empty.
- The delays of `backoffSchedule`, and a property on how long a warm-up is quiet (see above).
- `SignalStop` between reading a PID and signalling it: with `PidReuse` it can
  reach a process that is no daemon. The window is known and is not part of a run.

## Plan

What is left, in this order; each property with a mistake that breaks it.

1. A refinement: `TabPipeline`'s passes implement those of `Reconcile` with `Mode` and `Render` given
   by `Resolve` and `Execute`, and `Reconcile`'s file is `LabelStore`'s table.
2. `Session`: `Reconcile` over `LabelStore` with losses of power, to see what a rolled-back
   history does to source labels; and the empty label of `Rendering`.
3. The quiet period of the warm-up: what does hold when no timer fired before it was reset.
