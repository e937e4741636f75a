# Magnetofon in TLA+

Magnetofon (`src/src-cpp`, C++17, Qt 6, libmpv) is a desktop audio player. Its core
logic is small, and all of it is reactive: a playlist, a player that drives an
asynchronous playback engine, and helpers that drive child processes, a download, a
capture thread and a second instance of the program. This directory holds TLA+ models
of that logic, the TLC runs that check them, and TLAPS proofs about them.

Line numbers refer to `src/src-cpp/...` unless another directory is named. The file
`PROJECT.json` maps every definition to the lines it was translated from.

## 1. Inventory

| Component | State | Operations | Interacts with | Modelled |
|---|---|---|---|---|
| Playlist model `models/PlaylistModel.*` | rows, current row | add file/files/folder, load and save a list, remove, move, clear, select, next, previous, followPlayback | signals to the player and to QML | `PlaylistModel` |
| Audio player, transport `audio/AudioPlayer.*` | file, loaded/playing/paused flags, load guard, pending play, record of the core's queue, resynchronisation timer | load, play, pause, toggle, stop, gapless setting, syncNextTrack, processMpvEvents | playlist (signals, posted calls), libmpv (requests, events, properties) | `AudioPlayer` |
| libmpv (external) | its playlist, current entry, pause, events | executes requests, plays, goes on to the next entry, reports | audio player | `MpvCore` |
| Visualizer launcher `models/VisualizerLauncher.*` | child process, two timers, restart flag, status message, settings and their storage | toggle, setters, preset source, timers, process reports | projectMSDL, QSettings, the disk | `VisualizerLauncher` |
| DSP, equalizer, speaker profiles `audio/AudioPlayer.cpp:533-716`, `audio/AudioRouting.cpp` | settings and their storage, source layout, last graph applied | setters, profile resets, applyAudioFilters, layout reports | libmpv | `FilterGraph` |
| Media information, video window, meters | copies of properties, smoothing | reports, show and hide | libmpv, analyzer | no |
| Preset pack downloader `models/PresetPackDownloader.*` | reply, zip file, extraction process, state of the panel | check, download, data, finish, extract | network, disk, unzip, launcher | `PresetPackDownloader` |
| PulseAudio analyzer `audio/PulseAudioAnalyzer.*` | capture thread, stop flag, levels under a mutex | start, capture, snapshot, stop | PulseAudio, meters | `PulseAudioAnalyzer` |
| Single instance `main.cpp` | lock file, socket path, requests | take the lock, listen, hand over files, quit | other starts of the program | `FileOpening`, `SingleInstance` |
| Tag reader `audio/TrackMetadataReader.cpp` | none | read tags | playlist (display only) | no |
| QML interface `ui/qml` | display | calls the objects above | all | its calls are user actions |

### What is hard, and what makes each component correct

* **Playlist.** Every edit adjusts `m_currentIndex` by its own arithmetic, and emits its
  own selection of five signals, on which the player depends. Correct: the current row
  names the same track through every edit (or its successor when it is removed), there is
  one exactly when there are rows, no file is listed twice, every change is signalled,
  and a handoff made by the engine never selects (which would reload the track).
* **Audio player.** Requests to libmpv are executed later, events are read every so many
  milliseconds, the pause property is reported after them and only with its latest value,
  selections are delivered by posted calls, and the gapless queue is edited by a sequence
  of synchronous commands while the core may go on to the next entry. Three flags and two
  records in the player must follow. Correct: when everything is quiet, they agree with
  the core; no guard or flag stays on an obsolete value; every load is answered; an edit
  of the list never interrupts the track that plays; the album stops or repeats as the
  setting says. Two of these have limits in the code, named below: the resynchronisation
  races with the core, and a list of one track does not repeat.
* **Visualizer launcher.** Two timers, a posted call and a process that starts, stops or
  crashes at any time share one restart flag, and the text of the status message is read
  back as state (line 491). Correct: a process asked to end does end, changed settings
  reach a running process, the kill timer hits the process it was started for, a message
  about a process is not left standing, settings are read back as they were stored.
* **Filter graph.** The format of the source is read as two properties of a core that goes on
  meanwhile, the graph is left alone during a handoff, and the core may refuse it. Correct:
  when everything is quiet the core has the graph that the settings and the source that
  really plays demand, and the speaker settings survive a restart.
* **Preset pack downloader.** Data, the end of the reply, unzip, its time limit and the end
  of the program come in any order, and results of writes are not looked at. Correct: unzip
  gets exactly what was sent, a pack that becomes installed is complete, what is called
  installed is there or was removed after the last count, and a reply that has ended ends the
  download.
* **PulseAudio analyzer.** Two threads share three results, a mutex and two flags, and the
  thread starts before the constructor has finished. Correct: a snapshot is of one block,
  the analyzer is available only while it records, and its destructor returns.
* **Single instance.** Processes start, quit, crash and time out beside one another, and the
  path of the socket is a file that each of them may remove. Correct: a player that listens
  stays reachable, files are opened once, success is reported only for files that were, and
  every client ends.

## 2. Plan

Order of work, the most important behaviour first; 1 to 10 are done.

1. `PlayQueue` (abstract) and `PlaylistModel`, run `playlist`.
2. `MpvCore` and `AudioPlayer`, which composes `PlaylistModel` and `MpvCore` by INSTANCE;
   runs `transport`, `gapless_edits`, `loads`, `albums`, and the two runs that refute a
   comment of the code.
3. `PlaylistModelProofs`: type correctness, index validity, uniqueness, refinement, and
   what the signals announce.
4. `VisualizerLauncher`, run `visualizer`.
5. `VisualizerLauncherProofs`: its safety invariants and the settings.
6. `AudioPlayerProofs`: `TypeOK`, `PlayingFlagExact`, `NoStuckLoad`, `PauseViewSound`, and
   `ViewSettles` without gapless mode; `GaplessProofs`: `QueueMirrorsPlaylist`,
   `NeverInterrupted` and `ViewSettles` while the list is edited and the mode changed.
7. `FileOpening` (abstract) and `SingleInstance`, run `instances`; `SingleInstanceProofs`.
8. `FilterGraph`, run `filters`; `FilterGraphProofs`.
9. `PresetPackDownloader`, run `packs`; `PresetPackProofs`.
10. `PulseAudioAnalyzer`, run `capture`; `PulseAudioProofs`.
11. Left: `ViewSettles` in gapless mode with every user action and corrupt files; a
    `PlaylistStore` with file names as text (what `savePlaylist` writes and `loadPlaylist`
    reads back).

Proofs are about modules without RECURSIVE operators; parameters are constants with named
assumptions; invariants are conjunctions of named parts.

## 3. The modules

### `PlayQueue` and `PlaylistModel`

`PlayQueue` is what a playlist promises: a sequence of distinct files and *which file* is
current; adding, removing, moving, selecting, clearing. It has no row number.

`PlaylistModel` is the class. `tracks` and `currentIndex` are its fields; `signals` is
what the last operation emitted (so that properties, and the player, can depend on it);
`batch` is what the loop of `addFiles`, `addFolder` or `loadPlaylist` has still to add, so
that a file may disappear between two additions; `present` is the disk. Each operation is
one action, `batch` keeps the GUI thread busy. The refinement mapping reads the current
row as a file: `Queue == INSTANCE PlayQueue WITH queue <- tracks, cur <- CurrentFile`.

`Operate` is all that is asked of the list; `followPlayback`, which mirrors what the engine
has done already, is beside it in `Next`, so that "only a handoff moves the current track
silently" is a statement about which operation acts and not about the shape of a step.

Abstracted: a track is its canonical path; tags and display roles are left out.

### `MpvCore`

External code, modelled from how `AudioPlayer.cpp` uses it: the playlist from the current
entry on, the stage of that entry, the `path` and `pause` properties, asynchronous
requests (`cmds`, executed in order, later), synchronous commands (`ClearList`,
`AppendEntry`, which take effect at once and overtake requests), events in order, and the
observed property, reported after the events with its latest value only (`fresh`,
`published`). The core may fail to open a file, reach its end, and go on by itself.

### `AudioPlayer`

The transport of the class, composed with the two modules above. Two actors move: the GUI
thread and the core. A handler is one step, except `syncNextTrack` (compare the path,
clear, append one by one, remember the ids) and `processMpvEvents` (read events until
there are none), which are sequences of steps with the program counter `pc`, because the
core goes on in between. The connections of `setPlaylist` are in `Heard`: a selection is
posted, `emptied()` stops, the other signals start the resynchronisation timer.

| Variable | Field | Variable | Field |
|---|---|---|---|
| `currentFile` | `m_currentFile` | `queuedFiles` | `m_queuedFiles` |
| `fileLoaded` | `m_fileLoaded` | `startedFile` | `m_startedFile` |
| `isPlaying`, `paused` | `m_isPlaying`, `m_paused` | `syncTimer` | `m_queueSyncTimer` |
| `loadPending` | `m_loadPending` | `posted` | queued `trackSelected` calls |
| `playWhenLoaded` | `m_playWhenLoaded` | `pc`, `caller`, `rest` | control of the GUI thread |

`raced` is a history variable: it becomes true for good when the core leaves its entry after
`syncNextTrack` has compared the path and before it has made its last edit (`Editing`). The
code does not exclude that, and cannot tell; what holds only short of it says so.

`m_nativeFiles` (id to file) is reduced to a flag `known` of each entry. A handoff reports
the file by id when the id is known, else by the path property, as the code does.

### `VisualizerLauncher`

The child process (`proc`, and `signal`, the strongest signal it was sent), the restart
timer, the kill timer, `m_restartAfterStop`, the posted `launchVisuals`, `m_processFailed`,
the status message, the settings in memory and in QSettings, and what is on the disk. Timers
have no length: one that runs may fire at any time. Three of the settings limit each other
and are kept, in half seconds, with the clamps of the setters and of `loadSettings`; the
others, which behave alike, are one value `look`. `applied` says that the process was
started with the present settings (history of `buildArguments`).

### `FileOpening` and `SingleInstance`

`FileOpening` is what a launch promises whichever process serves it: its files are opened by
one player at most, and success means that they are open. `SingleInstance` is `main.cpp`: `pc`
is how far each process has come, `lock` the lock file, `endpoint` the process the path of the
socket leads to. The order of `main` is the order of the actions: lock, `removeServer` and
`listen`, its own files, event loop, and at the end the server (which removes the path), then
the lock. A crash leaves both behind. The refinement reads a process as its launch, and the
state "answered" as success.

Abstracted: a request is one value; the three waits of a client have no length; a player that
refuses connections because too many wait is not modelled. A client that gives up reports a
failure although its files may still be opened: `FileOpening` allows that, and the code does it.

### `FilterGraph`

`applyAudioFilters` is `Apply`: the output channels and the graph are sent when they differ
from the record (`appliedChannels`, `appliedFilter`), the record is changed only when the core
has taken them, and the graph is left alone between two entries of the queue (`HandingOver`).
`updateSourceAudioParams` is two actions, `ReadChannels` and `ReadLayout`, with the core free
in between and `seen` the number just read. A graph is a record of what its text is made from:
the gains, the kind of bass management, and the speaker settings that this kind uses.

Abstracted: preamp and bands are one value, and so are the five cutoffs of the surround
profile; the transport asks for loads and stops and fills and empties the queue at any time,
which is more than `AudioPlayer` does. External assumption: the core reports that a format has
gone before it has the next one (`Decode` waits for `published = NoFormat`), and hands out
events before property reports.

### `PresetPackDownloader`

The handlers of the download, of its end and of the extraction, `checkInstallationStatus`, the
launcher's `refreshPresetLibrary` that follows `isInstalledChanged`, and, as actors beside the
GUI thread, the server, unzip and the disk. The GUI thread waits for unzip in `pc =
"extracting"`; the time limit is a nondeterministic end of the wait. A program that ends in
between leaves an unzip behind (`orphan`). `lost` records that a write failed, which the code
does not look at. Presets may be deleted at any time (`RemovePresets`), of which the program
learns only when it counts again; `gone` and `goneLocal` are what was removed since it did. The
server may also stop sending and never answer: `downloadPack` sets no transfer timeout.

Abstracted: the pack is a number of pieces sent in order, its presets are numbered in the
order of extraction. External assumption: unzip refuses a zip file that is not whole.

### `PulseAudioAnalyzer`

Both threads, one access to shared state a step. `left`, `right` and `spectrum` hold the number
of the block they were computed from, so that a snapshot that mixes two blocks shows. The
constructor starts the thread (a member initialiser) before the mutex and the levels are
initialised: `Construct` is the rest of the constructor, and `early` records that the thread
had used them before. That race is real in the code and excluded from `SnapshotWhole` by name;
nothing else is excluded.

## 4. The runs

All deadlock checks are off: in every module the user may simply stop acting, and then a
state without successors is a program at rest. Operators marked "Fault" in the modules are
plausible wrong versions of the operator after them; substituting one makes the property
it is meant for fail, which shows that the property can fail. No action uses them.

| Run | Question | Result |
|---|---|---|
| `playlist` | Over four files, one of which may vanish, and additions with repetitions, does every history keep the row valid, files unique, changes signalled, selections announced, and implement `PlayQueue`? | holds, complete state space |
| `transport` | Two arbitrary user actions without gapless mode, one file that cannot be decoded, one that may vanish: can the lamp or the pause state be wrong, and do all flags agree with the core once all is quiet? | no; they do |
| `gapless_edits` | Two additions, moves or changes of mode during an album of files that can be decoded: do core, record and playlist agree at rest, and is a loaded file ever replaced? | they agree, and never, unless the core has left an entry inside an edit (`raced`) |
| `loads` | Can the load guard get stuck, is every load answered, and does a gapless player come to rest? | no; yes, under fairness |
| `albums` | Left alone: does a gapless album stop after its last track, and a normal one repeat for ever? Lists of one, two and three tracks | yes, under fairness; a list of one is played once in either mode |
| `visualizer` | Four acts of the user or the disk against every timing of process and timers | all six properties hold |
| `instances` | Three starts, each of which may quit or crash anywhere: is the player reachable, are files opened once and success true, do clients end and requests get served? | yes, complete state space |
| `filters` | Two acts on settings, transport or program against two files or tracks in three formats, with refusals: does the core end up with the right graph? | yes, unless it refused the last one |
| `packs` | Four downloads, restarts, removals of presets or changes of the disk against failures of server, writes and unzip: is what is handed over, counted and offered true, and does a download end when its reply has? | yes, up to what was removed since the last count |
| `capture` | Every interleaving of the two threads: is a snapshot of one block, is availability true, does the destructor return? | yes |
| `end_during_load` | "Do not cancel the new track's pending play request" (`audio/AudioPlayer.cpp:397-398`) | refuted |
| `edit_race` | never "against the wrong playing entry" (`audio/AudioPlayer.cpp:254-255`) | refuted |

### Bounds, and why they are enough

* Files: three (four in `playlist`). Row arithmetic distinguishes before, at and after the
  current row; three rows have all of these, a fourth file vanishes.
* `MaxOps` bounds how often the user acts: every hazard found or excluded is a race between
  the core and one or two user actions, and the core, the timers and the event loop are not
  bounded. Without a user the album still plays, hands over and repeats.
* `UserActions` selects the actions of an instance; together the passing runs use all.
  `Startup` is the command line, `Batches` what dialogs add, `Corrupt` files that exist and
  cannot be decoded, `Volatile` files that may vanish.
* The core moves freely in every run, inside `syncNextTrack` too. `gapless_edits` keeps to
  additions, moves and changes of mode and to files that can be decoded: with a corrupt file, a
  removal or a selection the queues may differ, which are the first cases under Findings.
* `albums` has lists of one, two and three tracks: nothing after the track that plays, a last
  one, and one between.
* `visualizer`: durations below, inside and above each limit; `MaxOps = 4` allows start,
  change, stop and start again.
* `instances`: three processes are a player, its client and the one that takes over between
  them; `MaxAttempts = 2` is one attempt that fails and another. The code's 50 differ in number
  only, and the proofs are for any.
* `filters`: a stereo source and six channels in two layouts, of which one has a bass management
  of its own; a number above every range of the speaker panel. `MaxOps = 2` and `MaxFiles = 2`:
  a wrong graph needs a change of settings and a change of source; the proofs are for any.
* `packs`: a pack of three pieces and three presets, more than one of which count as installed,
  so that missing, partial and complete differ both for the transfer and for the count; none,
  one or two presets elsewhere put the count below and above the limit. `MaxOps = 4` allows a
  failed download, a second one, and a restart, a removal or a change of the disk inside either.
* `capture`: nothing is bounded; blocks are numbered 1 to `MaxBlocks = 3` over and over, and
  three are enough to tell the last two apart from the one before.

### Fairness

`AudioPlayer`: a handler that has begun ends (WF of `Handler`) and files waiting in `batch`
are added (WF): the GUI thread runs to completion. Posted calls, the single-shot timer and
the event timer are each served again and again although other handlers come in between
(SF): Qt's event loop does not starve a source. Each part of the core's thread goes on
(SF, since an executed request can disable it for a while). Nothing is assumed of the user
or the disk; a paused player need not play. `albums` has no user, so playback never pauses.

`VisualizerLauncher`: timers that run fire, the posted call is executed, a start succeeds or
fails, and a process sent SIGKILL ends (WF each). A process sent only SIGTERM, or nothing,
need not end; that the kill timer is needed for `StopEnds` is what its fault shows.

`SingleInstance`: main threads go on, event loops serve every socket (WF each); nobody need
quit. `FilterGraph`: the event timer keeps running, the core reports what has changed and ends
a file that it was asked to end (WF each); it need not decode, and nothing is assumed of the
user. `PresetPackDownloader`: the end of a reply is handled and the wait for unzip ends (its
120 s limit) (WF each). Nothing is assumed of the server, which need neither send nor answer,
nor of unzip; so `DownloadEnds` is about downloads whose reply has ended.
`PulseAudioAnalyzer`: the capture thread runs, so that calls to the sound server return, and
the waiting GUI thread is woken (WF each). Snapshots need not be taken.

## 5. Findings

Two statements are refuted (PROJECT.json quotes them and says what the code does): a comment's
promise that an old END_FILE does not cancel the new track's play, and one that edits are made
only against the entry that plays. Met while modelling, and kept in the models as the code has
them, without a property that forbids them:

* A queued track of a gapless album that cannot be decoded makes the player forget its record
  of the queue (`m_queuedFiles`, `audio/AudioPlayer.cpp:408`) while mpv keeps the tracks behind
  it. If gapless mode is turned off before the next track is loaded, `syncNextTrack` compares
  an empty wish with an empty record and returns (line 262): mpv keeps the leftover tracks and
  goes on to them by itself, although "turning the button off restores normal track-by-track
  playback" (`README.md:119`). The model shows it when it is started on four files of which
  the second is corrupt: `QueueMirrorsPlaylist` fails.
* A queued track is removed just as mpv goes over to it by itself: the resync finds another path
  playing and returns (`audio/AudioPlayer.cpp:256`), and when the track's events are read
  `followPlayback` finds no row for it. mpv plays a file that is not in the playlist while the
  highlight stays on the track before it, although "the playing track retains its illuminated
  track number" (`README.md:107`) (`gapless_edits` with `remove` as the user's action).
* A row is selected while the file of another load has just been loaded: its `FILE_LOADED` is read
  after the second request, `syncNextTrack` fills the queue for the old file behind the new
  entry (lines 263-271), and the `STOP` of the old file makes the player forget the queue (line
  408). The wish and the record are both empty again at the next sync, and mpv keeps the
  entries (`gapless_edits` with `select`; the model plays b with a second b behind it).
* A list of one track does not repeat without gapless mode: at its end `nextTrack` names the row
  that is current already, and `setCurrentIndex` returns at once
  (`models/PlaylistModel.cpp:107`, 419-424). Longer lists repeat; no document speaks of either.
* Presets that are deleted while the program runs stay counted and "installed": only the
  constructor and a successful extraction count (`models/PresetPackDownloader.cpp:27-31, 179-182`).
* A server that stalls without closing the connection leaves the button disabled until the
  program is started again: no transfer timeout is set (lines 106-110).
* Double-clicking the current row after a stop, or after its load failed, plays nothing:
  `setCurrentIndex` returns at once for the row that is current (`models/PlaylistModel.cpp:107`).
* The end of a track that is read after the user's stop starts the next track
  (`audio/AudioPlayer.cpp:414`).
* `play()` after `stop()` loads into a core that is not paused, which may sound before filters
  and queue are prepared (`audio/AudioPlayer.cpp:474`).
* The analyzer's thread may use mutex and levels before they are initialised
  (`audio/PulseAudioAnalyzer.hpp:28-33`): undefined behaviour, unlikely since the thread first
  asks the sound server for a source.
* A failed extraction is not followed by a count (`models/PresetPackDownloader.cpp:193`), so that
  presets it left are not shown until the next start; more than 1000 of about 9000 presets count
  as the full pack (line 62); results of writes are not looked at (line 116), so that only unzip
  notices a full disk.
* A client that gives up after 5 s reports a failure for files that the player opens all the same
  (`main.cpp:104-107`).
* A stop is not final for the visualizer when a setting is changed while the process is
  still ending: `scheduleRestartIfRunning` starts the timer, `performRestart` overwrites
  `m_restartAfterStop`, or launches when the process has gone (lines 431-464). No document
  promises otherwise, so no property forbids it; the model contains it.
* A stop pressed while the process is starting is followed by the "Running" message (line
  472), after which its death by SIGTERM counts as a crash (line 491).
* Activating a file that has been deleted makes it current and highlighted without effect on
  playback (`audio/AudioPlayer.cpp:429`).

## 6. The proofs

`PlaylistModelProofs` (TLAPS, for every set of files, every `Volatile` and `Batches`;
assumptions `FileAssumption`: `NoFile` is no file, and `BatchAssumption`: batches are
sequences of files, `Volatile` is a set of files).

* `PlaylistSafety`: `TypeOK`, `IndexValid` and `UniqueTracks` always hold. Their conjunction
  is inductive: the range of the row needs `IndexValid` where the last row is removed, and
  uniqueness needs the types only. The two lemmas about sequences, `RemoveAtElements` and
  `InsertAtElements`, say where each element goes; from them follow the lemmas of each
  operation, and `NextInv` has one step per action.
* `PlaylistRefinesQueue`: `Spec => ImplementsPlayQueue`. Each action maps to one of
  `PlayQueue` or to a stutter; the invariant is needed for `CurrentFile` to be a row's file
  and for an edit not to confuse two rows with the same file.
* `EditsSignalled`: `Spec => ResyncSignalled`. A step that leaves the three signals out leaves
  rows and current row alone, so it needs no invariant.
* `NewCurrentAnnounced`: `Spec => SelectionAnnounced`: no operation in `Operate` makes another
  track current without announcing it (`OperateAnnounces`, one step per operation).
  `MoveKeepsCurrent` is the lemma that a move takes the current row along; `RemovePlaceStep` says
  which row is current after a removal. Both need the invariant of `PlaylistSafety`.

`VisualizerLauncherProofs` (for every durations the panel may ask for and every bound on
user actions; assumption `LauncherAssumption`).

* `LauncherSafety`: `TypeOK`, `KillTimerScoped` and `StatusTruthful` always hold. They are
  not inductive alone: `Exited` leaves the message alone after a failure, so `FailureIsOver`
  (a running process has not failed) is needed, and the settings stay in their ranges only
  together with `Fits` (each duration is where the loader would put it).
* `SettingsKept`: `Spec => SettingsSurvive`. Needed beside `Fits`: `saved = settings`, what
  is stored is what is in force. `LoaderKeeps` says that the loader's limits change nothing
  in settings that fit, and each setter has a lemma that its result fits.

`AudioPlayerProofs` (for any files, lists, bounds and interleavings; the types use
`PlayerAssumption`, the lamp, the load guard and the pause state no assumption on the
constants).

* `PlayerTypes`: `Spec => []TypeOK`. The playlist's part is not proved again: `PlaylistStep`
  says that each step of the player is one of `PlaylistModel` or leaves the list alone, and
  `PlaylistKept` takes the invariant from `PlaylistModelProofs` by INSTANCE. Two facts are
  needed beside the types: the core has an entry whenever it is busy with one (`HasEntry`), and
  `syncNextTrack` has a file left whenever it is about to append one (`ThreadInv`).
* `PlayLampExact`: `Spec => []PlayingFlagExact`. The lamp lags between the FILE_LOADED event
  and `Release`, across the steps of `syncNextTrack` that the core may interleave with.
  `LampInv` says that meanwhile the file stays loaded, and that the lamp is exact elsewhere.
* `LoadNeverStuck`: `Spec => []NoStuckLoad`. A stop request behind a load would take back
  what the load promises, so the inductive form (`LoadOpen`) is: a load is asked for and no
  stop waits behind it, or no stop is asked for at all and the entry is under way or its
  conclusive event is on the way. `LoadInv` adds that a pending load has no remembered native
  queue and no edit of it half done: otherwise the core could go on to a next entry and
  never report on the one asked for. The queues of requests and events need only be
  sequences (`IsQueue`), whatever they hold; so the whole type invariant is not needed.
* `PauseNeverObsolete`: `Spec => []PauseViewSound`. Reports are merged, so one may say what was
  true before requests that are still queued. `Final` is the value the core ends with, that of
  the last pause request, or the present one if none is queued. `PauseInv` says that the player
  believes in it already, or that a report is not read yet (`fresh`), or that the value last
  reported is another one, so that the core has yet to report the final one.
* `ViewSettlesTrackByTrack`: `Spec => []ViewSettles` under `TrackByTrack` (gapless mode is off
  and stays off, as in `transport`; any user actions). Events that were sent before the last
  request are read after it, and change the player's flags for a while; only the newest event
  counts. `Seen` says which one it must be at each stage of the core, and what the flags are
  when it has been read. It needs that there is one entry at most (`OneEntry`) and nothing
  queued behind it (`NoQueue`), and that no id is remembered (`Unnamed`). The lamp follows by
  `LampInv`, and the pause state by `PauseInv`.

`GaplessProofs` (for any files, lists, command lines and bounds, in both modes, under
`PlayerAssumption` and `EditsOnly`). `EditsOnly` is the setting of `gapless_edits`: the user
adds, moves and changes the mode; every file can be played and stays. A corrupt file is the first
case under Findings, and one removal or one selection is enough for the second and the third. The
core moves as it likes, and each theorem says what is lost when it leaves its entry between the
comparison of the path and the last edit of the queue (`raced`, the race of `edit_race`): nothing
is claimed after that, because the code cannot tell. Before it, and through every handoff
elsewhere, everything is claimed.

* `QueueFollowsPlaylist`: `Spec => []QueueMirrorsPlaylist`.
* `NeverInterruptedByEdits`: `Spec => NeverInterrupted`.
* `ViewSettlesGapless`: `Spec => [](~raced => ViewSettles)`.

`AdvanceRaces` says that all the core can do by itself inside an edit is to leave its entry,
`RacedStays` that a race is never undone, so that the invariant has to be kept by steps without
one only.

All three follow from one inductive invariant, `GaplessInv`. The player reads of a
native handoff after the fact, and the core may be several entries further. `HandoffAt(n, k, q)`
counts: the player has read its `n`-th event of a handoff, the core is at place `q` of the `k`-th
handoff after it, so there are `3k + q - n` unread events, each of which is determined
(`UnreadFrom`), and the core's list is what is left of the player's record behind its `k`-th
entry (`CoreAt`). `Phase` says that this holds, or that a load is on its way (`Loading`), or that
there is nothing to play (`Resting`). `Editable` says that inside `syncNextTrack` the player is
up to date and that what it has appended and what it has still to append are together the queue
that is wanted: this is where the comparison of the path (`audio/AudioPlayer.cpp:256`) is needed,
by `AtCurrent`. `Due` says that a queue that is not the wanted one is about to be looked at; it
is kept through edits because `EditsSignalled` holds of the playlist, and through handoffs
because the next queue is the rest of this one.

`SingleInstanceProofs` (for any processes and number of attempts; `InstanceAssumption`).

* `PlayerStaysReachable`: needs `LockHeld`, that who is between its lock and the end of `main`
  holds the lock: so there is one at most, and nobody else touches the path.
* `HandoverImplementsOpening`: needs that a request in the mail is not opened yet
  (`MailUnopened`), nor a process that has not got so far (`NotYetOpened`), that files are opened
  once (`OpenedOnce`), and that answers are true (`AnswersTrue`, `Answered`).

`FilterGraphProofs` (for any formats, gains and numbers asked for; `FilterAssumption`).

* `GraphSettles`: `FilterSettles` holds because a read that was overtaken is always followed by
  another: `ReadFresh` says that what is known is the present format or a report or event is on
  its way, `EventsOrdered` that the last event tells whether a file is open, `RecordsTrue` that
  the record is what the core has taken. `ApplyRight` is the lemma about `applyAudioFilters`.
* `SpeakersKept`: stored and current settings are equal and in range, and clamping keeps what is.

`PresetPackProofs` (for any size of pack and any limit; `PackAssumption`).

* `NeverClaimsTooMuch`, `NothingSkipped`, `InstalledWhole`: the count was true when it was made,
  and what is there together with what was removed since never shrinks; `PiecesKept` says that,
  unless a write failed, the zip file and the unread pieces together are what was sent;
  `ExtractedKept` that what the present unzip extracted is in the directory it was given.

`PulseAudioProofs` (for any number of blocks; `BlocksAssumption`).

* `NoTornSnapshot`: `LevelsAgree` and `CopiesAgree` say which of the three are already of the new
  block at each step inside the mutex. `OnlyWhileRecording` follows from `Recording`, which ties
  the stream to the thread's place.

Only model-checked: the liveness properties (fairness is out of the prover's reach:
`LoadAnswered`, `ComesToRest`, `AlbumStops`, `AlbumRepeats`, `ChangesApplied`, `StopEnds`,
`ClientsEnd`, `RequestsServed`, `SourceServed`, `DestructionEnds`, `DownloadEnds`) and the two
refutations. All invariants, action properties and refinements that the runs check are proved.
The type invariant of `PlaylistModel` is proved, and TLC checks it as a part of
`AudioPlayer`'s in `transport`.

## 7. What is not modelled

Wording, layout, tags, the natural sort of folders, search paths of programs, presets and
textures, environment variables, the preset name parsed from the process output, volume,
position and seeking: nothing in the modelled state depends on them. The numerical code
(FFT, meters) is out of TLC's reach. Failures of libmpv to start, and errors of single API
calls, are left out of `AudioPlayer`: a player without a core does nothing.

Whole components: media information, the video window and the meters copy properties of libmpv
for display; the tag reader is a function without state; the QML panels lay out and animate,
and their handlers are the user actions of the modules. Decisions of the modelled state depend
on none of them. Nearly all lines of C and C++ in the repository are third-party headers and the
projectM runtime under `src/resources`, of which the program calls an executable only, so that
the share of lines modelled is small although the program's own logic is covered.
