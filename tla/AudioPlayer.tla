----------------------------- MODULE AudioPlayer -----------------------------
(***************************************************************************)
(* audio/AudioPlayer.cpp: the transport.  It joins the playlist            *)
(* (PlaylistModel) to the playback core (MpvCore), follows both, and keeps *)
(* the core's own queue equal to the rest of the playlist in gapless mode. *)
(*                                                                         *)
(* Two actors move: the GUI thread, which runs one handler at a time, and  *)
(* the core.  A handler is one step, except where it reads or edits the    *)
(* core more than once while the core goes on: syncNextTrack is a sequence *)
(* of steps (`pc`), and one pass of processMpvEvents reads event after     *)
(* event until there is none left (pc = "drain").                          *)
(*                                                                         *)
(* DSP, media information, video window, position and volume are not here. *)
(*                                                                         *)
(* A definition marked as a fault is a plausible wrong version of the one  *)
(* after it, kept to show which property would notice; no action uses it.  *)
(***************************************************************************)
EXTENDS Integers, Sequences, SequencesExt

CONSTANTS File, NoFile, Volatile, Batches,
          Corrupt,       \* files that exist and cannot be played
          Startup,       \* the possible command lines: lists of files
          GaplessModes,  \* the possible stored settings of gapless playback
          UserActions,   \* what the user does in this instance
          MaxOps         \* bound: how many times

ASSUME PlayerAssumption ==
    /\ NoFile \notin File
    /\ Volatile \subseteq File
    /\ Batches \subseteq Seq(File)
    /\ Startup \subseteq Seq(File)
    /\ Corrupt \subseteq File
    /\ GaplessModes \subseteq BOOLEAN
    /\ MaxOps \in Nat

VARIABLES tracks, currentIndex, batch, present, signals    \* PlaylistModel
VARIABLES list, stage, playing, corePaused, published,     \* MpvCore
          fresh, cmds, events
VARIABLES
    gaplessEnabled,  \* m_gaplessEnabled
    currentFile,     \* m_currentFile
    fileLoaded,      \* m_fileLoaded
    isPlaying,       \* m_isPlaying
    paused,          \* m_paused
    loadPending,     \* m_loadPending
    playWhenLoaded,  \* m_playWhenLoaded
    queuedFiles,     \* m_queuedFiles: what the core is believed to play next
    startedFile,     \* m_startedFile
    posted,          \* queued deliveries of trackSelected
    syncTimer,       \* m_queueSyncTimer is running
    pc,              \* what the GUI thread is doing
    caller,          \* where syncNextTrack returns to
    rest,            \* files syncNextTrack has still to append
    ops,             \* user actions so far
    raced            \* history: the core has left an entry within an edit of its queue

Playlist == INSTANCE PlaylistModel
Core == INSTANCE MpvCore

rows == <<tracks, currentIndex, batch>>
core == <<list, stage, playing, corePaused, published, fresh, events>>
transport == <<currentFile, fileLoaded, isPlaying, paused, loadPending,
               playWhenLoaded, queuedFiles>>
thread == <<pc, caller, rest>>
vars == <<rows, present, signals, core, cmds, transport, gaplessEnabled,
          startedFile, posted, syncTimer, thread, ops, raced>>

NoSignal == UNCHANGED rows /\ signals' = Playlist!Quiet

\* The GUI thread is in its event loop, outside every handler.
GuiFree == pc = "loop" /\ batch = <<>>

Init ==
    /\ tracks = <<>> /\ currentIndex = -1
    /\ batch \in Startup
    /\ present \in {P \in SUBSET File : File \ Volatile \subseteq P}
    /\ signals = Playlist!Quiet
    /\ Core!Init
    /\ gaplessEnabled \in GaplessModes
    /\ currentFile = NoFile /\ startedFile = NoFile
    /\ fileLoaded = FALSE /\ isPlaying = FALSE /\ paused = FALSE
    /\ loadPending = FALSE /\ playWhenLoaded = FALSE
    /\ queuedFiles = <<>> /\ posted = <<>>
    /\ syncTimer = TRUE                       \* setPlaylist ends with resync()
    /\ pc = "loop" /\ caller = "loop" /\ rest = <<>>
    /\ ops = 0 /\ raced = FALSE

-----------------------------------------------------------------------------
(***************************************************************************)
(* Transport: load, play, pause, stop.                                     *)
(***************************************************************************)

\* Fault: the play lamp stays lit.
UnloadOnly == fileLoaded' = FALSE /\ UNCHANGED isPlaying

\* setFileLoaded(false)
Unload == fileLoaded' = FALSE /\ isPlaying' = FALSE

\* Ask the core to pause or to go on, and expect it to.
AskPause(value) ==
    /\ paused' = value
    /\ cmds' = Append(cmds, Core!SetPause(value))

\* play() when nothing has been loaded first.
Play ==
    \/ /\ currentFile = NoFile
       /\ UNCHANGED <<transport, cmds>>
    \/ /\ currentFile # NoFile /\ fileLoaded
       /\ playWhenLoaded' = TRUE
       /\ isPlaying' = TRUE
       /\ AskPause(FALSE)
       /\ UNCHANGED <<currentFile, fileLoaded, loadPending, queuedFiles>>
    \/ /\ currentFile # NoFile /\ ~fileLoaded
       /\ playWhenLoaded' = TRUE
       /\ loadPending' = TRUE
       /\ IF loadPending
          THEN UNCHANGED <<cmds, queuedFiles>>
          ELSE /\ cmds' = Append(cmds, Core!LoadFile(currentFile))
               /\ queuedFiles' = <<>>
       /\ UNCHANGED <<currentFile, fileLoaded, isPlaying, paused>>

Pause ==
    /\ playWhenLoaded' = FALSE
    /\ isPlaying' = FALSE
    /\ AskPause(TRUE)
    /\ UNCHANGED <<currentFile, fileLoaded, loadPending, queuedFiles>>

Stop ==
    /\ playWhenLoaded' = FALSE
    /\ loadPending' = FALSE
    /\ queuedFiles' = <<>>
    /\ syncTimer' = FALSE
    /\ cmds' = Append(cmds, Core!StopPlayback)
    /\ Unload
    /\ UNCHANGED <<currentFile, paused>>

\* load(file); play(): the core is paused and told to replace its entry, and
\* play() only records that playback is to start once the file is loaded.
LoadAndPlay(file) ==
    /\ currentFile' = file
    /\ playWhenLoaded' = TRUE
    /\ loadPending' = TRUE
    /\ queuedFiles' = <<>>
    /\ paused' = TRUE
    /\ cmds' = cmds \o <<Core!SetPause(TRUE), Core!LoadFile(file)>>
    /\ Core!ForgetEntries
    /\ Unload

\* Fault: a delivery is posted even when no track is selected.
PostedAlways(s) == Append(posted, s.selected)

Posted(s) == IF s.selected = NoFile THEN posted ELSE Append(posted, s.selected)

\* The connections of setPlaylist(): a selection is posted, emptied() stops,
\* the other signals start the resynchronisation timer.
Heard ==
    LET s == signals' IN
    /\ posted' = Posted(s)
    /\ \/ s.emptied /\ Stop
       \/ /\ ~s.emptied
          /\ syncTimer' = (syncTimer \/ s.count \/ s.index \/ s.moved)
          /\ UNCHANGED <<transport, cmds>>

-----------------------------------------------------------------------------
(***************************************************************************)
(* The user.                                                               *)
(***************************************************************************)
Act(action) ==
    /\ GuiFree /\ action \in UserActions /\ ops < MaxOps
    /\ ops' = ops + 1
    /\ UNCHANGED <<core, startedFile, raced>>

EditPlaylist ==
    /\ \/ Act("select") /\ \E row \in Playlist!Rows : Playlist!SetCurrentIndex(row)
       \/ Act("next") /\ Playlist!NextTrack
       \/ Act("previous") /\ Playlist!PreviousTrack
       \/ Act("remove") /\ \E row \in Playlist!Rows : Playlist!RemoveTrack(row)
       \/ Act("move") /\ \E from, to \in Playlist!Rows : Playlist!MoveTrack(from, to)
       \/ Act("clear") /\ Playlist!Clear
       \/ Act("add") /\ \E files \in Batches : Playlist!AddFiles(files)
       \/ Act("open") /\ \E files \in Batches : Playlist!LoadPlaylist(files)
    /\ Heard
    /\ UNCHANGED <<gaplessEnabled, thread>>

TogglePlayPause ==
    /\ Act("toggle")
    /\ IF isPlaying THEN Pause ELSE Play
    /\ NoSignal
    /\ UNCHANGED <<present, gaplessEnabled, posted, syncTimer, thread>>

PressStop ==
    /\ Act("stop")
    /\ Stop
    /\ NoSignal
    /\ UNCHANGED <<present, gaplessEnabled, posted, thread>>

SetGaplessEnabled ==
    /\ Act("gapless")
    /\ gaplessEnabled' = ~gaplessEnabled
    /\ pc' = "sync" /\ caller' = "loop" /\ rest' = <<>>
    /\ NoSignal
    /\ UNCHANGED <<present, cmds, transport, posted, syncTimer>>

-----------------------------------------------------------------------------
(***************************************************************************)
(* The GUI thread by itself.                                               *)
(***************************************************************************)

\* One addFile of the loop being executed.
AddFile ==
    /\ pc = "loop"
    /\ Playlist!AddFile
    /\ Heard
    /\ UNCHANGED <<core, gaplessEnabled, startedFile, thread, ops, raced>>

\* A posted trackSelected arrives: obsolete unless its file is still current.
\* load() of a file that is gone changes nothing, and play() follows anyway.
TrackSelected ==
    /\ GuiFree
    /\ posted # <<>>
    /\ posted' = Tail(posted)
    /\ LET file == Head(posted) IN
       \/ /\ file # Playlist!CurrentFile
          /\ UNCHANGED <<transport, cmds, list, events>>
       \/ /\ file = Playlist!CurrentFile /\ file \in present
          /\ LoadAndPlay(file)
       \/ /\ file = Playlist!CurrentFile /\ file \notin present
          /\ Play
          /\ UNCHANGED <<list, events>>
    /\ NoSignal
    /\ UNCHANGED <<present, stage, playing, corePaused, published, fresh,
                   gaplessEnabled, startedFile, syncTimer, thread, ops, raced>>

\* Fault: the timer starts itself again.
TimerFiresRepeating == syncTimer /\ UNCHANGED syncTimer

\* m_queueSyncTimer is a single-shot timer.
TimerFires == syncTimer /\ syncTimer' = FALSE

SyncTimeout ==
    /\ GuiFree
    /\ TimerFires
    /\ pc' = "sync" /\ caller' = "loop" /\ rest' = <<>>
    /\ NoSignal
    /\ UNCHANGED <<present, core, cmds, transport, gaplessEnabled, startedFile,
                   posted, ops, raced>>

-----------------------------------------------------------------------------
(***************************************************************************)
(* syncNextTrack().                                                        *)
(***************************************************************************)
SyncDone == pc' = IF caller = "loaded" THEN "release" ELSE "loop"

\* What the core should play after the current file.
WantedNext ==
    IF gaplessEnabled /\ Playlist!CurrentFile = currentFile
    THEN Playlist!Upcoming ELSE <<>>

\* Fault: the core may have gone on to another entry already.
SyncNeededBlindly == fileLoaded /\ ~loadPending /\ WantedNext # queuedFiles

\* Nothing is edited while another entry than m_currentFile is playing: the
\* events of that handoff will bring the player up to date first.
SyncNeeded ==
    /\ fileLoaded /\ ~loadPending
    /\ playing = currentFile
    /\ WantedNext # queuedFiles

\* syncNextTrack has compared the path and has not edited everything yet.
Editing == pc \in {"clear", "append", "remember"}

SyncCheck ==
    /\ pc = "sync"
    /\ \/ SyncNeeded /\ pc' = "clear" /\ rest' = WantedNext
       \/ ~SyncNeeded /\ SyncDone /\ UNCHANGED rest
    /\ NoSignal
    /\ UNCHANGED <<present, core, cmds, transport, gaplessEnabled, startedFile,
                   posted, syncTimer, caller, ops, raced>>

SyncEdit ==
    /\ \/ /\ pc = "clear"
          /\ Core!ClearList
          /\ queuedFiles' = <<>>
          /\ pc' = IF rest = <<>> THEN "remember" ELSE "append"
          /\ UNCHANGED <<rest, events>>
       \/ /\ pc = "append"
          /\ Core!AppendEntry(Head(rest))
          /\ queuedFiles' = Append(queuedFiles, Head(rest))
          /\ rest' = Tail(rest)
          /\ pc' = IF Len(rest) = 1 THEN "remember" ELSE "append"
          /\ UNCHANGED events
       \/ /\ pc = "remember"
          /\ Core!RememberEntries
          /\ SyncDone
          /\ UNCHANGED <<rest, queuedFiles>>
    /\ NoSignal
    /\ UNCHANGED <<present, stage, playing, corePaused, published, fresh, cmds,
                   currentFile, fileLoaded, isPlaying, paused, loadPending,
                   playWhenLoaded, gaplessEnabled, startedFile, posted,
                   syncTimer, caller, ops, raced>>

-----------------------------------------------------------------------------
(***************************************************************************)
(* processMpvEvents(): one pass reads everything there is.                 *)
(***************************************************************************)
Tick ==
    /\ GuiFree
    /\ events # <<>> \/ fresh
    /\ pc' = "drain"
    /\ NoSignal
    /\ UNCHANGED <<present, core, cmds, transport, gaplessEnabled, startedFile,
                   posted, syncTimer, caller, rest, ops, raced>>

TickDone ==
    /\ pc = "drain"
    /\ events = <<>> /\ ~fresh
    /\ pc' = "loop"
    /\ NoSignal
    /\ UNCHANGED <<present, core, cmds, transport, gaplessEnabled, startedFile,
                   posted, syncTimer, caller, rest, ops, raced>>

\* Fault: the pause state is of no interest while nothing is loaded.
TakePauseLoaded ==
    /\ paused' = (IF fileLoaded THEN published ELSE paused)
    /\ isPlaying' = (~paused' /\ fileLoaded /\ currentFile # NoFile)

TakePause ==
    /\ paused' = published
    /\ isPlaying' = (~published /\ fileLoaded /\ currentFile # NoFile)

\* Property changes are delivered when no event is left.
PauseChanged ==
    /\ pc = "drain"
    /\ events = <<>> /\ fresh
    /\ fresh' = FALSE
    /\ TakePause
    /\ NoSignal
    /\ UNCHANGED <<present, list, stage, playing, corePaused, published, cmds,
                   events, currentFile, fileLoaded, loadPending, playWhenLoaded,
                   queuedFiles, gaplessEnabled, startedFile, posted, syncTimer,
                   thread, ops, raced>>

Read(kind) ==
    /\ pc = "drain"
    /\ events # <<>> /\ Head(events).kind = kind
    /\ events' = Tail(events)
    /\ UNCHANGED <<present, list, stage, playing, corePaused, published, fresh,
                   gaplessEnabled, ops, raced>>

\* MPV_EVENT_START_FILE
FileStarted ==
    /\ Read("start")
    /\ LET entry == Head(events).entry IN
       startedFile' = IF entry.known THEN entry.file ELSE NoFile
    /\ IF loadPending \/ ~gaplessEnabled
       THEN Unload ELSE UNCHANGED <<fileLoaded, isPlaying>>
    /\ NoSignal
    /\ UNCHANGED <<cmds, currentFile, paused, loadPending, playWhenLoaded,
                   queuedFiles, posted, syncTimer, thread>>

\* What is left of m_queuedFiles once `file` plays.
QueuedAfter(file) ==
    IF file \in ToSet(queuedFiles)
    THEN LET i == CHOOSE i \in DOMAIN queuedFiles :
                     /\ queuedFiles[i] = file
                     /\ \A j \in 1 .. i - 1 : queuedFiles[j] # file
         IN  SubSeq(queuedFiles, i + 1, Len(queuedFiles))
    ELSE queuedFiles

\* MPV_EVENT_FILE_LOADED up to its call of syncNextTrack()
FileLoaded ==
    /\ Read("loaded")
    /\ LET file == IF startedFile # NoFile THEN startedFile ELSE playing IN
       \/ /\ file \notin {NoFile, currentFile}
          /\ currentFile' = file
          /\ queuedFiles' = QueuedAfter(file)
          /\ Playlist!FollowPlayback(file)
          /\ syncTimer' = (syncTimer \/ signals'.index)
       \/ /\ file \in {NoFile, currentFile}
          /\ NoSignal
          /\ UNCHANGED <<currentFile, queuedFiles, syncTimer>>
    /\ loadPending' = FALSE
    /\ fileLoaded' = TRUE
    /\ pc' = "sync" /\ caller' = "loaded" /\ rest' = <<>>
    /\ posted' = Posted(signals')
    /\ UNCHANGED <<cmds, isPlaying, paused, playWhenLoaded, startedFile>>

\* ... and after it: only now may a paused core start playing.
Release ==
    /\ pc = "release"
    /\ pc' = "drain"
    /\ IF playWhenLoaded THEN AskPause(FALSE) ELSE UNCHANGED <<paused, cmds>>
    /\ isPlaying' = (~paused' /\ currentFile # NoFile)
    /\ NoSignal
    /\ UNCHANGED <<present, core, currentFile, fileLoaded, loadPending,
                   playWhenLoaded, queuedFiles, gaplessEnabled, startedFile,
                   posted, syncTimer, caller, rest, ops, raced>>

\* Faults: any end is ignored during a load; a gapless album advances as well.
EndIgnoredLoading(reason) ==
    loadPending \/ (reason = "EOF" /\ queuedFiles # <<>>)

TrackEndedAlways(reason) == reason = "EOF"

\* MPV_EVENT_END_FILE: ignored for an entry being replaced, and for the end of
\* an entry that the core follows with another by itself.
EndIgnored(reason) ==
    \/ loadPending /\ reason = "STOP"
    \/ reason = "EOF" /\ queuedFiles # <<>>

\* trackEnded() has an effect: the playlist advances.
TrackEnded(reason) == reason = "EOF" /\ ~gaplessEnabled

FileEnded ==
    /\ Read("end")
    /\ LET reason == Head(events).reason IN
       \/ /\ EndIgnored(reason)
          /\ NoSignal
          /\ UNCHANGED <<transport, cmds, posted, syncTimer>>
       \/ /\ ~EndIgnored(reason)
          /\ queuedFiles' = <<>>
          /\ loadPending' = FALSE
          /\ playWhenLoaded' = FALSE
          /\ Unload
          /\ IF TrackEnded(reason)
             THEN Playlist!NextTrack ELSE NoSignal /\ UNCHANGED present
          /\ posted' = Posted(signals')
          /\ syncTimer' = (syncTimer \/ signals'.index)
          /\ UNCHANGED <<currentFile, paused, cmds>>
    /\ UNCHANGED <<startedFile, thread>>

-----------------------------------------------------------------------------
(***************************************************************************)
(* The core and the disk.                                                  *)
(***************************************************************************)
CoreDo(step) ==
    /\ step
    /\ raced' = (raced \/ (Editing /\ playing # NoFile /\ playing' = NoFile))
    /\ NoSignal
    /\ UNCHANGED <<transport, gaplessEnabled, startedFile, posted, syncTimer,
                   thread, ops>>

CoreExec == CoreDo(Core!Exec)
CoreAdvance == CoreDo(Core!Advance)
CorePublish == CoreDo(Core!Publish)

Vanish ==
    /\ \E file \in Volatile : Playlist!Vanish(file)
    /\ UNCHANGED <<core, cmds, transport, gaplessEnabled, startedFile, posted,
                   syncTimer, thread, ops, raced>>

User == EditPlaylist \/ TogglePlayPause \/ PressStop \/ SetGaplessEnabled

\* What the event loop may start, and what continues a handler once started.
Loop == AddFile \/ TrackSelected \/ SyncTimeout \/ Tick
Handler == \/ SyncCheck \/ SyncEdit
           \/ TickDone \/ PauseChanged \/ FileStarted \/ FileLoaded \/ Release
           \/ FileEnded

Next == User \/ Loop \/ Handler \/ CoreExec \/ CoreAdvance \/ CorePublish \/ Vanish

Spec == Init /\ [][Next]_vars

\* Qt's event loop serves each source again and again, a handler that has
\* started runs to its end, and so does each part of the core's own loop.  The
\* user and the disk are under no obligation.
Fairness ==
    /\ WF_vars(AddFile) /\ SF_vars(TrackSelected)
    /\ SF_vars(SyncTimeout) /\ SF_vars(Tick)
    /\ WF_vars(Handler)
    /\ SF_vars(CoreExec) /\ SF_vars(CoreAdvance) /\ SF_vars(CorePublish)

FairSpec == Spec /\ Fairness

-----------------------------------------------------------------------------
(***************************************************************************)
(* Properties.                                                             *)
(***************************************************************************)

\* The variables hold values of their types (AudioPlayer.hpp:165-194).
TypeOK ==
    /\ Playlist!TypeOK
    /\ list \in Seq(Core!Entry) /\ stage \in Core!Stage
    /\ playing \in File \cup {NoFile}
    /\ corePaused \in BOOLEAN /\ published \in BOOLEAN /\ fresh \in BOOLEAN
    /\ cmds \in Seq(Core!Request) /\ events \in Seq(Core!Event)
    /\ gaplessEnabled \in BOOLEAN
    /\ currentFile \in File \cup {NoFile}
    /\ fileLoaded \in BOOLEAN /\ isPlaying \in BOOLEAN /\ paused \in BOOLEAN
    /\ loadPending \in BOOLEAN /\ playWhenLoaded \in BOOLEAN
    /\ queuedFiles \in Seq(File)
    /\ startedFile \in File \cup {NoFile}
    /\ posted \in Seq(File)
    /\ syncTimer \in BOOLEAN
    /\ pc \in {"loop", "drain", "sync", "clear", "append", "remember", "release"}
    /\ caller \in {"loop", "loaded"}
    /\ rest \in Seq(File)
    /\ ops \in 0 .. MaxOps /\ raced \in BOOLEAN

\* Whenever a handler has ended, the play lamp is lit exactly when a file is
\* loaded and not paused: setPlaying (AudioPlayer.cpp:202-208) is called often
\* enough, with the right argument, by all who change one of the three.
PlayingFlagExact ==
    pc \in {"loop", "drain"} =>
        (isPlaying <=> fileLoaded /\ ~paused /\ currentFile # NoFile)

\* The pause state the core will have once it has executed every request.
PausesAsked == {i \in DOMAIN cmds : cmds[i].op = "pause"}
FinalPause == IF PausesAsked = {} THEN corePaused ELSE cmds[Max(PausesAsked)].value

\* m_paused is written at once by load, play and pause, and again by reports
\* that may be older than the last request (AudioPlayer.cpp:376-380).  It never
\* settles on an obsolete value: either it is what the core will end with, or a
\* report that will correct it is on its way or still to be made.
PauseViewSound == paused = FinalPause \/ published # FinalPause \/ fresh

\* m_loadPending is never left set for a load that nobody will answer, which
\* would make queueLoadCurrentFile (AudioPlayer.cpp:291) refuse all later ones:
\* the request, the entry or a conclusive event is still on its way.
NoStuckLoad ==
    loadPending =>
        \/ \E i \in DOMAIN cmds : cmds[i].op = "load"
        \/ stage \in {"replacing", "pending", "opening"}
        \/ \E i \in DOMAIN events :
              \/ events[i].kind = "loaded"
              \/ events[i].kind = "end" /\ events[i].reason # "STOP"

\* Nothing is under way: no request, event, report, delivery or timer.
Quiescent ==
    /\ pc = "loop" /\ batch = <<>> /\ posted = <<>> /\ ~syncTimer
    /\ cmds = <<>> /\ events = <<>> /\ ~fresh /\ published = corePaused
    /\ stage \in {"idle", "loaded"}

\* When all is quiet the player's view of the core is right, whatever stale
\* FILE_LOADED and END_FILE events were read on the way: a file is loaded when
\* the core has one, it is that one, and the lamp tells whether it plays.
ViewSettles ==
    Quiescent =>
        /\ fileLoaded <=> stage = "loaded"
        /\ fileLoaded => playing = currentFile
        /\ isPlaying <=> stage = "loaded" /\ ~corePaused

\* While the user adds and moves tracks and changes the mode, and every file can
\* be decoded: when all is quiet, the highlighted row is the entry the core
\* plays, and the core's queue, what the player believes it to be, and the rest
\* of the playlist are the same files, whenever the handoffs come and are read
\* (syncNextTrack, AudioPlayer.cpp:248-272).  Nothing is said once the core has
\* left an entry between syncNextTrack's comparison and its last edit (`raced`;
\* EditsPlayingEntry shows the race), and it does not hold when tracks are
\* removed or selected, or cannot be decoded.
QueueMirrorsPlaylist ==
    Quiescent /\ fileLoaded /\ ~raced =>
        /\ Playlist!CurrentFile = playing
        /\ queuedFiles = [i \in DOMAIN Tail(list) |-> Tail(list)[i].file]
        /\ queuedFiles = WantedNext

\* While the user only edits the queue or changes the mode, no file is loaded
\* over one that plays: "appends to its queue without interrupting the active
\* track" and "reorder it without changing playback" (README.md:107), and the
\* tracks of a gapless album are never reloaded
\* (AudioPlayerIntegrationTest.cpp:122).  Additions, moves and changes of mode
\* are the edits meant, up to a race of syncNextTrack with the core (`raced`).
NeverInterrupted ==
    [][(\E i \in Len(cmds) + 1 .. Len(cmds') : cmds'[i].op = "load")
          => ~fileLoaded \/ raced]_vars

\* A load that was asked for is eventually answered: loaded, failed or stopped
\* (m_loadPending is cleared at AudioPlayer.cpp:340, 409, 440 and 503).
LoadAnswered == loadPending ~> ~loadPending

\* In gapless mode, once the user leaves it alone, the player comes to rest: no
\* endless chase between handoffs, row changes and the resynchronisation timer
\* they start (AudioPlayer.cpp:228-231, 264-286).
ComesToRest == <>[]Quiescent

\* "In gapless mode the album stops at the end of the queue rather than
\* restarting it" (README.md:119): left alone, the last track is reached and
\* everything comes to rest after it.
AlbumStops ==
    gaplessEnabled =>
        /\ <>(fileLoaded /\ currentIndex = Len(tracks) - 1)
        /\ <>[](Quiescent /\ stage = "idle" /\ ~isPlaying)

\* "Normal track-by-track playback" (README.md:119): left alone, every track of
\* a list of several is played again and again.  A list of one is played once
\* and comes to rest: there nextTrack names the current row, and
\* setCurrentIndex does nothing (PlaylistModel.cpp:106-107).
AlbumRepeats ==
    ~gaplessEnabled =>
        /\ \A f \in File :
              []<>(Len(tracks) > 1 /\ f \in ToSet(tracks) => isPlaying /\ currentFile = f)
        /\ <>[](Len(tracks) = 1) =>
              <>isPlaying /\ <>[](Quiescent /\ stage = "idle" /\ ~isPlaying)

-----------------------------------------------------------------------------
(***************************************************************************)
(* Statements of the documentation, the comments and the tests that the    *)
(* code does not keep; each is refuted by a run of its own.                *)
(***************************************************************************)

\* "Do not cancel the new track's pending play request" (AudioPlayer.cpp:397-
\* 398): while the core has not even taken the load request, no END_FILE can be
\* about the new track, so none may cancel it.
PendingPlayKept ==
    [][pc = "drain" /\ loadPending /\ playWhenLoaded
          /\ (\E i \in DOMAIN cmds : cmds[i].op = "load")
          => playWhenLoaded']_vars

\* The queue is not edited "against the wrong playing entry" (AudioPlayer.cpp:
\* 254-255): the entry the core keeps, or appends to, is the player's own.
EditsPlayingEntry ==
    [][pc' # pc /\ pc \in {"clear", "append"}
          => list # <<>> /\ Head(list).file = currentFile]_vars
=============================================================================
