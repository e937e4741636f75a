-------------------------- MODULE AudioPlayerProofs --------------------------
(***************************************************************************)
(* What AudioPlayer guarantees for any files, any lists, any number of     *)
(* user actions and any interleaving with the core, proved; the last part  *)
(* supposes that gapless mode stays off.                                   *)
(***************************************************************************)
EXTENDS AudioPlayer, SequenceTheorems, WellFoundedInduction, TLAPS

(***************************************************************************)
(* The playlist in the player.  Every step of the player is a step of      *)
(* PlaylistModel, or leaves the list alone and emits nothing.              *)
(***************************************************************************)
Proved == INSTANCE PlaylistModelProofs

PlaylistInv == Playlist!TypeOK /\ Playlist!IndexValid /\ Playlist!UniqueTracks

\* The two instances of PlaylistModel say the same.
LEMMA ListInv ==
    /\ PlaylistInv <=> Proved!Inv
    /\ PlaylistInv' <=> Proved!Inv'
BY DEF PlaylistInv, Proved!Inv, Proved!TypeOK, Proved!IndexValid, Proved!UniqueTracks,
       Playlist!TypeOK, Playlist!IndexValid, Playlist!UniqueTracks,
       Proved!Count, Playlist!Count, Proved!Signals, Playlist!Signals

LEMMA ListOperate == Playlist!Operate => Proved!Operate
BY DEF Playlist!Operate, Playlist!AddFile, Playlist!Addable, Playlist!NoChange,
       Playlist!AddFiles, Playlist!LoadPlaylist, Playlist!SetCurrentIndex,
       Playlist!SelectRow, Playlist!RemoveTrack, Playlist!MoveTrack,
       Playlist!NextTrack, Playlist!PreviousTrack, Playlist!Clear,
       Playlist!ClearRows,
       Playlist!Idle, Playlist!Rows, Playlist!Count, Playlist!CurrentFile,
       Playlist!Quiet, Playlist!IndexAfterMove, Playlist!IndexAfterRemove,
       Playlist!ToSet, Playlist!RemoveAt, Playlist!InsertAt,
       Proved!Operate, Proved!AddFile, Proved!Addable, Proved!NoChange,
       Proved!AddFiles, Proved!LoadPlaylist, Proved!SetCurrentIndex,
       Proved!SelectRow, Proved!RemoveTrack, Proved!MoveTrack,
       Proved!NextTrack, Proved!PreviousTrack, Proved!Clear,
       Proved!ClearRows,
       Proved!Idle, Proved!Rows, Proved!Count, Proved!CurrentFile,
       Proved!Quiet, Proved!IndexAfterMove, Proved!IndexAfterRemove,
       Proved!ToSet, Proved!RemoveAt, Proved!InsertAt

LEMMA ListNext == Playlist!Next => Proved!Next
BY ListOperate
   DEF Playlist!Next, Playlist!FollowPlayback, Playlist!Vanish, Playlist!NoChange,
       Playlist!Rows, Playlist!Count, Playlist!CurrentFile, Playlist!Quiet, Playlist!ToSet,
       Proved!Next, Proved!FollowPlayback, Proved!Vanish, Proved!NoChange,
       Proved!Rows, Proved!Count, Proved!CurrentFile, Proved!Quiet, Proved!ToSet

PlaylistStep ==
    \/ Playlist!Next
    \/ NoSignal /\ UNCHANGED present

LEMMA PlaylistKept == PlaylistInv /\ PlaylistStep => PlaylistInv'
<1>1. NoFile \notin File /\ Batches \subseteq Seq(File) /\ Volatile \subseteq File
  BY PlayerAssumption
<1>2. CASE PlaylistInv /\ Playlist!Next
  BY <1>1, <1>2, ListInv, ListNext, Proved!NextInv, Proved!FileAssumption,
     Proved!BatchAssumption
<1>3. CASE PlaylistInv /\ NoSignal /\ UNCHANGED present
  <2>1. Playlist!Quiet \in Playlist!Signals
    BY DEF Playlist!Quiet, Playlist!Signals
  <2>2. QED
    BY <1>3, <2>1 DEF NoSignal, rows, PlaylistInv, Playlist!TypeOK, Playlist!IndexValid,
       Playlist!UniqueTracks, Playlist!Count
<1>4. QED
  BY <1>2, <1>3 DEF PlaylistStep

LEMMA QuietStep == NoSignal /\ UNCHANGED present => PlaylistStep
BY DEF PlaylistStep

LEMMA EditStep == EditPlaylist => PlaylistStep
<1> USE DEF PlaylistStep, Playlist!Next, Playlist!Operate
<1> SUFFICES ASSUME EditPlaylist PROVE Playlist!Next
  OBVIOUS
<1> QED
  BY DEF EditPlaylist

LEMMA FollowPlaylist ==
    ASSUME NEW file \in File, Playlist!FollowPlayback(file)
    PROVE  PlaylistStep
BY DEF PlaylistStep, Playlist!Next

-----------------------------------------------------------------------------
(***************************************************************************)
(* Types.  A handler that appends has a file to append, and the core has   *)
(* an entry whenever it is busy with one.                                  *)
(***************************************************************************)
CoreTyped ==
    /\ list \in Seq(Core!Entry) /\ stage \in Core!Stage
    /\ playing \in File \cup {NoFile}
    /\ corePaused \in BOOLEAN /\ published \in BOOLEAN /\ fresh \in BOOLEAN
    /\ events \in Seq(Core!Event)

TransportTyped ==
    /\ cmds \in Seq(Core!Request)
    /\ currentFile \in File \cup {NoFile}
    /\ fileLoaded \in BOOLEAN /\ isPlaying \in BOOLEAN /\ paused \in BOOLEAN
    /\ loadPending \in BOOLEAN /\ playWhenLoaded \in BOOLEAN
    /\ queuedFiles \in Seq(File)

LoopTyped ==
    /\ gaplessEnabled \in BOOLEAN
    /\ startedFile \in File \cup {NoFile}
    /\ posted \in Seq(File)
    /\ syncTimer \in BOOLEAN
    /\ ops \in 0 .. MaxOps /\ raced \in BOOLEAN

ThreadTyped ==
    /\ pc \in {"loop", "drain", "sync", "clear", "append", "remember", "release"}
    /\ caller \in {"loop", "loaded"}
    /\ rest \in Seq(File)

Typed == CoreTyped /\ TransportTyped /\ LoopTyped /\ ThreadTyped

HasEntry == Core!HasCurrent => list # <<>>

TypeInv ==
    /\ PlaylistInv /\ Typed
    /\ HasEntry
    /\ pc = "append" => rest # <<>>

LEMMA TypedIs == TypeOK <=> Playlist!TypeOK /\ Typed
BY DEF TypeOK, Typed, CoreTyped, TransportTyped, LoopTyped, ThreadTyped

\* A sequence whose elements are replaced one for one.
LEMMA MapTyped ==
    ASSUME NEW S, NEW T, NEW s \in Seq(S),
           NEW t, t = [i \in DOMAIN s |-> t[i]], \A i \in DOMAIN s : t[i] \in T
    PROVE  t \in Seq(T) /\ Len(t) = Len(s)
<1>1. DOMAIN s = 1 .. Len(s) /\ Len(s) \in Nat
  OBVIOUS
<1>2. t \in [1 .. Len(s) -> T]
  BY <1>1
<1>3. t \in Seq(T)
  BY <1>1, <1>2, SeqDef
<1>4. QED
  BY <1>1, <1>2, <1>3

LEMMA RequestTypes ==
    /\ \A value \in BOOLEAN : Core!SetPause(value) \in Core!Request
    /\ \A file \in File : Core!LoadFile(file) \in Core!Request
    /\ Core!StopPlayback \in Core!Request
BY DEF Core!Request, Core!SetPause, Core!LoadFile, Core!StopPlayback

\* One request joins the others, or two of them.
LEMMA AskTyped ==
    ASSUME NEW R, NEW s \in Seq(R), NEW r \in R, NEW q \in R
    PROVE  Append(s, r) \in Seq(R) /\ s \o <<r, q>> \in Seq(R)
<1>1. <<r, q>> \in Seq(R)
  OBVIOUS
<1>2. QED
  BY <1>1

LEMMA PlayTyped == TransportTyped /\ Play => TransportTyped'
<1> SUFFICES ASSUME TransportTyped, Play PROVE TransportTyped'
  OBVIOUS
<1>1. Append(cmds, Core!SetPause(FALSE)) \in Seq(Core!Request)
  BY RequestTypes, AskTyped, Zenon DEF TransportTyped
<1>2. currentFile # NoFile => Append(cmds, Core!LoadFile(currentFile)) \in Seq(Core!Request)
  <2>1. CASE currentFile # NoFile
    <3>1. currentFile \in File
      BY <2>1 DEF TransportTyped
    <3>2. QED
      BY <3>1, RequestTypes, AskTyped, Zenon DEF TransportTyped
  <2>2. QED
    BY <2>1
<1>3. <<>> \in Seq(File)
  OBVIOUS
<1>4. CASE UNCHANGED <<transport, cmds>>
  BY <1>4 DEF transport, TransportTyped
<1>5. CASE /\ playWhenLoaded' = TRUE /\ isPlaying' = TRUE /\ AskPause(FALSE)
           /\ UNCHANGED <<currentFile, fileLoaded, loadPending, queuedFiles>>
  BY <1>5, <1>1, Zenon DEF AskPause, TransportTyped
<1>6. CASE /\ playWhenLoaded' = TRUE /\ loadPending' = TRUE
           /\ currentFile # NoFile
           /\ \/ UNCHANGED <<cmds, queuedFiles>>
              \/ cmds' = Append(cmds, Core!LoadFile(currentFile)) /\ queuedFiles' = <<>>
           /\ UNCHANGED <<currentFile, fileLoaded, isPlaying, paused>>
  BY <1>6, <1>2, <1>3, Zenon DEF TransportTyped
<1>7. QED
  BY <1>4, <1>5, <1>6, Zenon DEF Play

LEMMA PauseTyped == TransportTyped /\ Pause => TransportTyped'
<1> SUFFICES ASSUME TransportTyped, Pause PROVE TransportTyped'
  OBVIOUS
<1>1. Append(cmds, Core!SetPause(TRUE)) \in Seq(Core!Request)
  BY RequestTypes, AskTyped, Zenon DEF TransportTyped
<1>2. QED
  BY <1>1, Zenon DEF Pause, AskPause, TransportTyped

LEMMA StopTyped == TransportTyped /\ Stop => TransportTyped' /\ syncTimer' \in BOOLEAN
<1> SUFFICES ASSUME TransportTyped, Stop PROVE TransportTyped' /\ syncTimer' \in BOOLEAN
  OBVIOUS
<1>1. Append(cmds, Core!StopPlayback) \in Seq(Core!Request)
  BY RequestTypes, AskTyped, Zenon DEF TransportTyped
<1>2. <<>> \in Seq(File)
  OBVIOUS
<1>3. QED
  BY <1>1, <1>2, Zenon DEF Stop, Unload, TransportTyped

LEMMA ForgetTyped == CoreTyped /\ Core!ForgetEntries => list' \in Seq(Core!Entry) /\ events' \in Seq(Core!Event)
<1> SUFFICES ASSUME CoreTyped, Core!ForgetEntries
             PROVE  list' \in Seq(Core!Entry) /\ events' \in Seq(Core!Event)
  OBVIOUS
<1>1. ASSUME NEW i \in DOMAIN list
      PROVE  [list[i] EXCEPT !.known = FALSE] \in Core!Entry
  <2>1. list[i] \in Core!Entry
    BY <1>1 DEF CoreTyped
  <2>2. QED
    BY <2>1 DEF Core!Entry
<1>2. list' \in Seq(Core!Entry)
  BY <1>1, MapTyped DEF CoreTyped, Core!ForgetEntries, Core!Unknown
<1>3. ASSUME NEW i \in DOMAIN events
      PROVE  (IF events[i].kind = "start"
              THEN [events[i] EXCEPT !.entry.known = FALSE] ELSE events[i]) \in Core!Event
  <2>1. events[i] \in Core!Event
    BY <1>3 DEF CoreTyped
  <2>2. CASE events[i].kind = "start"
    <3>1. events[i] \in [kind : {"start"}, entry : Core!Entry]
      BY <2>1, <2>2 DEF Core!Event
    <3>2. [events[i] EXCEPT !.entry.known = FALSE] \in [kind : {"start"}, entry : Core!Entry]
      BY <3>1 DEF Core!Entry
    <3>3. QED
      BY <2>2, <3>2 DEF Core!Event
  <2>3. QED
    BY <2>1, <2>2
<1>4. events' \in Seq(Core!Event)
  BY <1>3, MapTyped DEF CoreTyped, Core!ForgetEntries
<1>5. QED
  BY <1>2, <1>4

LEMMA RememberTyped == CoreTyped /\ Core!RememberEntries => list' \in Seq(Core!Entry) /\ events' \in Seq(Core!Event)
<1> SUFFICES ASSUME CoreTyped, Core!RememberEntries
             PROVE  list' \in Seq(Core!Entry) /\ events' \in Seq(Core!Event)
  OBVIOUS
<1>1. ASSUME NEW i \in DOMAIN list
      PROVE  [list[i] EXCEPT !.known = TRUE] \in Core!Entry
  <2>1. list[i] \in Core!Entry
    BY <1>1 DEF CoreTyped
  <2>2. QED
    BY <2>1 DEF Core!Entry
<1>2. list' \in Seq(Core!Entry)
  BY <1>1, MapTyped DEF CoreTyped, Core!RememberEntries, Core!Known
<1>3. ASSUME NEW i \in DOMAIN events
      PROVE  (IF i \in Core!UnreadStarts
              THEN [events[i] EXCEPT !.entry.known = TRUE] ELSE events[i]) \in Core!Event
  <2>1. events[i] \in Core!Event
    BY <1>3 DEF CoreTyped
  <2>2. CASE i \in Core!UnreadStarts
    <3>1. events[i] \in [kind : {"start"}, entry : Core!Entry]
      BY <2>1, <2>2 DEF Core!Event, Core!UnreadStarts
    <3>2. [events[i] EXCEPT !.entry.known = TRUE] \in [kind : {"start"}, entry : Core!Entry]
      BY <3>1 DEF Core!Entry
    <3>3. QED
      BY <2>2, <3>2 DEF Core!Event
  <2>3. QED
    BY <2>1, <2>2
<1>4. events' \in Seq(Core!Event)
  BY <1>3, MapTyped DEF CoreTyped, Core!RememberEntries
<1>5. QED
  BY <1>2, <1>4

LEMMA LoadTyped ==
    ASSUME TransportTyped, CoreTyped, NEW file \in File, LoadAndPlay(file)
    PROVE  /\ TransportTyped'
           /\ list' \in Seq(Core!Entry) /\ events' \in Seq(Core!Event)
<1>1. list' \in Seq(Core!Entry) /\ events' \in Seq(Core!Event)
  BY ForgetTyped DEF LoadAndPlay
<1>2. cmds \o <<Core!SetPause(TRUE), Core!LoadFile(file)>> \in Seq(Core!Request)
  <2>1. Core!SetPause(TRUE) \in Core!Request /\ Core!LoadFile(file) \in Core!Request
    BY RequestTypes
  <2>2. QED
    BY <2>1, AskTyped, Zenon DEF TransportTyped
<1>3. <<>> \in Seq(File)
  OBVIOUS
<1>4. TransportTyped'
  BY <1>2, <1>3, Zenon DEF LoadAndPlay, Unload, TransportTyped
<1>5. QED
  BY <1>1, <1>4

LEMMA PostedTyped ==
    ASSUME posted \in Seq(File), PlaylistInv'
    PROVE  Posted(signals') \in Seq(File)
<1>1. signals'.selected \in File \cup {NoFile}
  BY DEF PlaylistInv, Playlist!TypeOK, Playlist!Signals
<1>2. QED
  BY <1>1 DEF Posted

LEMMA SignalsTyped ==
    ASSUME PlaylistInv'
    PROVE  /\ signals'.count \in BOOLEAN /\ signals'.index \in BOOLEAN
           /\ signals'.moved \in BOOLEAN /\ signals'.emptied \in BOOLEAN
BY DEF PlaylistInv, Playlist!TypeOK, Playlist!Signals

LEMMA HeardTyped ==
    ASSUME TransportTyped, LoopTyped, PlaylistInv', Heard
    PROVE  TransportTyped' /\ posted' \in Seq(File) /\ syncTimer' \in BOOLEAN
<1>1. posted' \in Seq(File)
  BY PostedTyped DEF LoopTyped, Heard
<1>2. CASE Stop
  BY <1>1, <1>2, StopTyped
<1>3. CASE /\ syncTimer' = (syncTimer \/ signals'.count \/ signals'.index \/ signals'.moved)
           /\ UNCHANGED <<transport, cmds>>
  BY <1>1, <1>3, SignalsTyped, Zenon DEF LoopTyped, TransportTyped, transport
<1>4. QED
  BY <1>2, <1>3, Zenon DEF Heard

\* Parts of a step that leave a part of the types alone.
LEMMA CoreSame == CoreTyped /\ HasEntry /\ UNCHANGED core => CoreTyped' /\ HasEntry'
BY DEF CoreTyped, HasEntry, Core!HasCurrent, core

LEMMA TransportSame == TransportTyped /\ UNCHANGED <<transport, cmds>> => TransportTyped'
BY DEF TransportTyped, transport

ThreadInv == ThreadTyped /\ (pc = "append" => rest # <<>>)

LEMMA ThreadSame == ThreadInv /\ UNCHANGED thread => ThreadInv'
BY DEF ThreadInv, ThreadTyped, thread

TypeParts ==
    /\ PlaylistInv /\ CoreTyped /\ HasEntry
    /\ TransportTyped /\ LoopTyped /\ ThreadInv

LEMMA TypeInvIs == (TypeInv <=> TypeParts) /\ (TypeInv' <=> TypeParts')
BY DEF TypeInv, TypeParts, Typed, ThreadInv

LEMMA OneMoreOp ==
    ASSUME LoopTyped, NEW action, Act(action)
    PROVE  /\ ops' \in 0 .. MaxOps /\ startedFile' \in File \cup {NoFile}
           /\ UNCHANGED <<core, raced>>
BY PlayerAssumption DEF LoopTyped, Act

LEMMA UserTypes == TypeInv /\ User => TypeInv'
<1> SUFFICES ASSUME TypeInv, User PROVE TypeInv'
  OBVIOUS
<1> USE TypeInvIs DEF TypeParts
<1>1. ops' \in 0 .. MaxOps /\ startedFile' \in File \cup {NoFile} /\ UNCHANGED <<core, raced>>
  BY OneMoreOp DEF User, EditPlaylist, TogglePlayPause, PressStop, SetGaplessEnabled
<1>2. CoreTyped' /\ HasEntry'
  BY <1>1, CoreSame
<1>3. CASE EditPlaylist
  <2>1. PlaylistInv'
    BY <1>3, EditStep, PlaylistKept
  <2>2. Heard /\ UNCHANGED <<gaplessEnabled, thread>>
    BY <1>3 DEF EditPlaylist
  <2>3. QED
    BY <1>1, <1>2, <2>1, <2>2, HeardTyped, ThreadSame DEF LoopTyped
<1>4. CASE TogglePlayPause
  <2>1. PlaylistInv'
    BY <1>4, QuietStep, PlaylistKept DEF TogglePlayPause
  <2>2. UNCHANGED <<gaplessEnabled, posted, syncTimer, thread>> /\ (Pause \/ Play)
    BY <1>4 DEF TogglePlayPause
  <2>3. QED
    BY <1>1, <1>2, <2>1, <2>2, PlayTyped, PauseTyped, ThreadSame DEF LoopTyped
<1>5. CASE PressStop
  <2>1. PlaylistInv'
    BY <1>5, QuietStep, PlaylistKept DEF PressStop
  <2>2. UNCHANGED <<gaplessEnabled, posted, thread>> /\ Stop
    BY <1>5 DEF PressStop
  <2>3. QED
    BY <1>1, <1>2, <2>1, <2>2, StopTyped, ThreadSame DEF LoopTyped
<1>6. CASE SetGaplessEnabled
  <2>1. PlaylistInv'
    BY <1>6, QuietStep, PlaylistKept DEF SetGaplessEnabled
  <2>2. ThreadInv'
    BY <1>6 DEF SetGaplessEnabled, ThreadInv, ThreadTyped
  <2>3. TransportTyped' /\ gaplessEnabled' \in BOOLEAN /\ UNCHANGED <<posted, syncTimer>>
    BY <1>6, TransportSame DEF SetGaplessEnabled, LoopTyped
  <2>4. QED
    BY <1>1, <1>2, <2>1, <2>2, <2>3 DEF LoopTyped
<1>7. QED
  BY <1>3, <1>4, <1>5, <1>6 DEF User

LEMMA TrackSelectedTypes == TypeInv /\ TrackSelected => TypeInv'
<1> SUFFICES ASSUME TypeInv, TrackSelected PROVE TypeInv'
  OBVIOUS
<1> USE TypeInvIs DEF TypeParts
<1>1. PlaylistInv' /\ ThreadInv'
  BY QuietStep, PlaylistKept, ThreadSame DEF TrackSelected
<1>2. posted' \in Seq(File) /\ Head(posted) \in File
  BY DEF TrackSelected, LoopTyped
<1>3. LoopTyped'
  BY <1>2 DEF TrackSelected, LoopTyped
<1>4. /\ TransportTyped'
      /\ list' \in Seq(Core!Entry) /\ events' \in Seq(Core!Event) /\ (list # <<>> => list' # <<>>)
  <2>1. CASE UNCHANGED <<transport, cmds, list, events>>
    BY <2>1, TransportSame DEF CoreTyped
  <2>2. CASE LoadAndPlay(Head(posted))
    <3>1. list' \in Seq(Core!Entry) /\ events' \in Seq(Core!Event) /\ TransportTyped'
      BY <2>2, <1>2, LoadTyped
    <3>2. list # <<>> => list' # <<>>
      BY <2>2 DEF LoadAndPlay, Core!ForgetEntries, Core!Unknown, CoreTyped
    <3>3. QED
      BY <3>1, <3>2
  <2>3. CASE Play /\ UNCHANGED <<list, events>>
    BY <2>3, PlayTyped DEF CoreTyped
  <2>4. QED
    BY <2>1, <2>2, <2>3 DEF TrackSelected
<1>5. UNCHANGED <<stage, playing, corePaused, published, fresh>>
  BY DEF TrackSelected
<1>6. CoreTyped' /\ HasEntry'
  BY <1>4, <1>5 DEF CoreTyped, HasEntry, Core!HasCurrent
<1>7. QED
  BY <1>1, <1>3, <1>4, <1>6

LEMMA LoopTypes == TypeInv /\ Loop => TypeInv'
<1> SUFFICES ASSUME TypeInv, Loop PROVE TypeInv'
  OBVIOUS
<1> USE TypeInvIs DEF TypeParts
<1>1. CASE AddFile
  <2>1. PlaylistInv'
    BY <1>1, PlaylistKept DEF AddFile, PlaylistStep, Playlist!Next, Playlist!Operate
  <2>2. Heard /\ UNCHANGED <<core, gaplessEnabled, startedFile, thread, ops, raced>>
    BY <1>1 DEF AddFile
  <2>3. QED
    BY <2>1, <2>2, HeardTyped, ThreadSame, CoreSame DEF LoopTyped
<1>2. CASE TrackSelected
  BY <1>2, TrackSelectedTypes
<1>3. CASE SyncTimeout
  <2>1. PlaylistInv' /\ CoreTyped' /\ HasEntry' /\ TransportTyped'
    BY <1>3, QuietStep, PlaylistKept, CoreSame, TransportSame DEF SyncTimeout
  <2>2. ThreadInv'
    BY <1>3 DEF SyncTimeout, ThreadInv, ThreadTyped
  <2>3. LoopTyped'
    BY <1>3, Zenon DEF SyncTimeout, TimerFires, LoopTyped
  <2>4. QED
    BY <2>1, <2>2, <2>3
<1>4. CASE Tick
  <2>1. PlaylistInv' /\ CoreTyped' /\ HasEntry' /\ TransportTyped'
    BY <1>4, QuietStep, PlaylistKept, CoreSame, TransportSame DEF Tick
  <2>2. ThreadInv' /\ LoopTyped'
    BY <1>4 DEF Tick, ThreadInv, ThreadTyped, LoopTyped
  <2>3. QED
    BY <2>1, <2>2
<1>5. QED
  BY <1>1, <1>2, <1>3, <1>4 DEF Loop

LEMMA WantedTyped == PlaylistInv => WantedNext \in Seq(File)
<1>1. <<>> \in Seq(File)
  OBVIOUS
<1>2. PlaylistInv => Playlist!Upcoming \in Seq(File)
  <2>1. ASSUME PlaylistInv PROVE Playlist!Upcoming \in Seq(File)
    <3>1. tracks \in Seq(File) /\ currentIndex \in -1 .. Len(tracks) - 1
      BY <2>1 DEF PlaylistInv, Playlist!TypeOK, Playlist!Count
    <3>2. QED
      BY <3>1, SubSeqProperties DEF Playlist!Upcoming, Playlist!Count
  <2>2. QED
    BY <2>1
<1>3. QED
  BY <1>1, <1>2 DEF WantedNext

LEMMA SyncTypes == TypeInv /\ (SyncCheck \/ SyncEdit) => TypeInv'
<1> SUFFICES ASSUME TypeInv, SyncCheck \/ SyncEdit PROVE TypeInv'
  OBVIOUS
<1> USE TypeInvIs DEF TypeParts
<1>1. PlaylistInv'
  BY QuietStep, PlaylistKept DEF SyncCheck, SyncEdit
<1>2. LoopTyped'
  BY DEF SyncCheck, SyncEdit, LoopTyped
<1>3. CASE SyncCheck
  <2>1. CoreTyped' /\ HasEntry' /\ TransportTyped'
    BY <1>3, CoreSame, TransportSame DEF SyncCheck
  <2>2. ThreadInv'
    BY <1>3, WantedTyped DEF SyncCheck, SyncDone, ThreadInv, ThreadTyped
  <2>3. QED
    BY <1>1, <1>2, <2>1, <2>2
<1>4. CASE SyncEdit
  <2>1. /\ UNCHANGED <<stage, playing, corePaused, published, fresh, cmds,
                       currentFile, fileLoaded, isPlaying, paused, loadPending,
                       playWhenLoaded, caller>>
    BY <1>4 DEF SyncEdit
  <2>2. CASE pc = "clear" /\ Core!ClearList /\ queuedFiles' = <<>>
             /\ pc' = (IF rest = <<>> THEN "remember" ELSE "append")
             /\ UNCHANGED <<rest, events>>
    <3>1. list' \in Seq(Core!Entry) /\ (Core!HasCurrent => list' # <<>>)
      BY <2>2 DEF Core!ClearList, CoreTyped, HasEntry
    <3>2. ThreadInv' /\ queuedFiles' \in Seq(File)
      BY <2>1, <2>2 DEF ThreadInv, ThreadTyped
    <3>3. events' = events
      BY <2>2
    <3>4. CoreTyped' /\ HasEntry'
      BY <2>1, <3>1, <3>3, Zenon DEF CoreTyped, HasEntry, Core!HasCurrent
    <3>5. TransportTyped'
      BY <2>1, <3>2, Zenon DEF TransportTyped
    <3>6. QED
      BY <1>1, <1>2, <3>2, <3>4, <3>5
  <2>3. CASE pc = "append" /\ Core!AppendEntry(Head(rest))
             /\ queuedFiles' = Append(queuedFiles, Head(rest))
             /\ rest' = Tail(rest)
             /\ pc' = (IF Len(rest) = 1 THEN "remember" ELSE "append")
             /\ UNCHANGED events
    <3>1. Head(rest) \in File /\ rest \in Seq(File) /\ Len(rest) > 0
      BY <2>3 DEF ThreadInv, ThreadTyped
    <3>2. [file |-> Head(rest), known |-> FALSE] \in Core!Entry
      BY <3>1 DEF Core!Entry
    <3>3. list' \in Seq(Core!Entry) /\ list' # <<>>
      BY <2>3, <3>2 DEF Core!AppendEntry, CoreTyped
    <3>4. ThreadInv'
      <4>1. rest' \in Seq(File) /\ Len(rest') = Len(rest) - 1
        BY <2>3, <3>1
      <4>2. pc' = "append" => rest' # <<>>
        BY <2>3, <3>1, <4>1
      <4>3. pc' \in {"remember", "append"} /\ caller' \in {"loop", "loaded"}
        BY <2>1, <2>3 DEF ThreadInv, ThreadTyped
      <4>4. QED
        BY <4>1, <4>2, <4>3 DEF ThreadInv, ThreadTyped
    <3>5. queuedFiles' \in Seq(File)
      BY <2>3, <3>1 DEF TransportTyped
    <3>6. events' = events
      BY <2>3
    <3>7. CoreTyped' /\ HasEntry'
      BY <2>1, <3>3, <3>6, Zenon DEF CoreTyped, HasEntry
    <3>8. TransportTyped'
      BY <2>1, <3>5, Zenon DEF TransportTyped
    <3>9. QED
      BY <1>1, <1>2, <3>4, <3>7, <3>8
  <2>4. CASE pc = "remember" /\ Core!RememberEntries /\ SyncDone
             /\ UNCHANGED <<rest, queuedFiles>>
    <3>1. list' \in Seq(Core!Entry) /\ events' \in Seq(Core!Event)
      BY <2>4, RememberTyped
    <3>2. list # <<>> => list' # <<>>
      BY <2>4 DEF Core!RememberEntries, Core!Known, CoreTyped
    <3>3. ThreadInv'
      BY <2>1, <2>4 DEF ThreadInv, ThreadTyped, SyncDone
    <3>4. CoreTyped' /\ HasEntry'
      BY <2>1, <3>1, <3>2, Zenon DEF CoreTyped, HasEntry, Core!HasCurrent
    <3>5. TransportTyped'
      BY <2>1, <2>4, Zenon DEF TransportTyped
    <3>6. QED
      BY <1>1, <1>2, <3>3, <3>4, <3>5
  <2>5. QED
    BY <1>4, <2>2, <2>3, <2>4, Zenon DEF SyncEdit
<1>5. QED
  BY <1>3, <1>4

\* What reading an event does to the core's own variables.
LEMMA ReadTyped ==
    ASSUME CoreTyped, HasEntry, NEW kind, Read(kind)
    PROVE  CoreTyped' /\ HasEntry'
<1>1. events' \in Seq(Core!Event)
  BY DEF Read, CoreTyped
<1>2. UNCHANGED <<list, stage, playing, corePaused, published, fresh>>
  BY DEF Read
<1>3. QED
  BY <1>1, <1>2 DEF CoreTyped, HasEntry, Core!HasCurrent

LEMMA FileStartedTypes == TypeInv /\ FileStarted => TypeInv'
<1> SUFFICES ASSUME TypeInv, FileStarted PROVE TypeInv'
  OBVIOUS
<1> USE TypeInvIs DEF TypeParts
<1>1. PlaylistInv' /\ CoreTyped' /\ HasEntry' /\ ThreadInv'
  BY QuietStep, PlaylistKept, ReadTyped, ThreadSame DEF FileStarted, Read
<1>2. startedFile' \in File \cup {NoFile}
  <2>1. Head(events) \in Core!Event /\ Head(events).kind = "start"
    BY DEF FileStarted, Read, CoreTyped
  <2>2. Head(events) \in [kind : {"start"}, entry : Core!Entry]
    BY <2>1 DEF Core!Event
  <2>3. Head(events).entry.file \in File
    BY <2>2 DEF Core!Entry
  <2>4. QED
    BY <2>3 DEF FileStarted
<1>3. LoopTyped'
  BY <1>2 DEF FileStarted, Read, LoopTyped
<1>4. /\ UNCHANGED <<cmds, currentFile, paused, loadPending, playWhenLoaded, queuedFiles>>
      /\ Unload \/ UNCHANGED <<fileLoaded, isPlaying>>
  BY DEF FileStarted
<1>5. TransportTyped'
  BY <1>4, Zenon DEF TransportTyped, Unload
<1>6. QED
  BY <1>1, <1>3, <1>5

\* A set of natural numbers has a least element.
LEMMA Below ==
    ASSUME NEW m \in Nat, NEW n \in Nat, ~(<<n, m>> \in OpToRel(<, Nat))
    PROVE  m <= n
BY DEF OpToRel

LEMMA LeastOf ==
    ASSUME NEW N, N \subseteq Nat, N # {}
    PROVE  \E m \in N : \A n \in N : m <= n
<1>1. PICK m \in N : \A n \in N : ~(<<n, m>> \in OpToRel(<, Nat))
  BY WFMin, NatLessThanWellFounded
<1>2. ASSUME NEW n \in N PROVE m <= n
  <2>1. m \in Nat /\ n \in Nat /\ ~(<<n, m>> \in OpToRel(<, Nat))
    BY <1>1
  <2>2. QED
    BY <2>1, Below
<1>3. QED
  BY <1>2

LEMMA QueuedAfterTyped ==
    ASSUME queuedFiles \in Seq(File), NEW file
    PROVE  QueuedAfter(file) \in Seq(File)
<1>1. CASE file \in ToSet(queuedFiles)
  <2>1. Len(queuedFiles) \in Nat /\ DOMAIN queuedFiles = 1 .. Len(queuedFiles)
    OBVIOUS
  <2>2. \A i : i \in DOMAIN queuedFiles =>
            SubSeq(queuedFiles, i + 1, Len(queuedFiles)) \in Seq(File)
    <3>1. ASSUME NEW i, i \in DOMAIN queuedFiles
          PROVE  SubSeq(queuedFiles, i + 1, Len(queuedFiles)) \in Seq(File)
      BY <2>1, <3>1, SubSeqProperties
    <3>2. QED
      BY <3>1
  <2> DEFINE First(i) == /\ i \in DOMAIN queuedFiles /\ queuedFiles[i] = file
                         /\ \A j \in 1 .. i - 1 : queuedFiles[j] # file
  <2>3. \E i : First(i)
    <3>1. PICK k \in DOMAIN queuedFiles : queuedFiles[k] = file
      BY <1>1 DEF ToSet
    <3> DEFINE at == {i \in Nat : i \in DOMAIN queuedFiles /\ queuedFiles[i] = file}
    <3>2. at # {} /\ at \subseteq Nat
      BY <2>1, <3>1
    <3>3. PICK m \in at : \A n \in at : m <= n
      BY <3>2, LeastOf, Zenon
    <3>4. \A j \in 1 .. m - 1 : j \in DOMAIN queuedFiles /\ ~(m <= j)
      BY <2>1, <3>3
    <3>5. \A j \in 1 .. m - 1 : j \notin at
      BY <3>3, <3>4
    <3>6. \A j \in 1 .. m - 1 : queuedFiles[j] # file
      BY <3>4, <3>5, <2>1
    <3>7. QED
      BY <3>3, <3>6
  <2>4. (CHOOSE i : First(i)) \in DOMAIN queuedFiles
    BY <2>3
  <2>5. QED
    BY <1>1, <2>2, <2>4 DEF QueuedAfter
<1>2. CASE file \notin ToSet(queuedFiles)
  BY <1>2 DEF QueuedAfter
<1>3. QED
  BY <1>1, <1>2

LEMMA FileLoadedTypes == TypeInv /\ FileLoaded => TypeInv'
<1> SUFFICES ASSUME TypeInv, FileLoaded PROVE TypeInv'
  OBVIOUS
<1> USE TypeInvIs DEF TypeParts
<1> DEFINE file == IF startedFile # NoFile THEN startedFile ELSE playing
<1>1. file \in File \cup {NoFile}
  BY DEF LoopTyped, CoreTyped
<1>2. /\ PlaylistInv' /\ currentFile' \in File \cup {NoFile}
      /\ queuedFiles' \in Seq(File)
      /\ syncTimer' = (syncTimer \/ signals'.index) \/ syncTimer' = syncTimer
  <2>1. CASE /\ file \notin {NoFile, currentFile}
             /\ currentFile' = file
             /\ queuedFiles' = QueuedAfter(file)
             /\ Playlist!FollowPlayback(file)
             /\ syncTimer' = (syncTimer \/ signals'.index)
    <3>1. file \in File
      BY <1>1, <2>1
    <3>2. PlaylistInv'
      BY <2>1, <3>1, FollowPlaylist, PlaylistKept
    <3>3. queuedFiles' \in Seq(File)
      BY <2>1, QueuedAfterTyped DEF TransportTyped
    <3>4. QED
      BY <2>1, <3>1, <3>2, <3>3
  <2>2. CASE /\ NoSignal
             /\ UNCHANGED <<currentFile, queuedFiles, syncTimer>>
    <3>1. UNCHANGED present
      BY DEF FileLoaded, Read
    <3>2. QED
      BY <2>2, <3>1, QuietStep, PlaylistKept DEF TransportTyped
  <2>3. QED
    BY <2>1, <2>2 DEF FileLoaded
<1>3. CoreTyped' /\ HasEntry'
  BY ReadTyped DEF FileLoaded
<1>4. posted' \in Seq(File)
  BY <1>2, PostedTyped DEF FileLoaded, LoopTyped
<1>5. syncTimer' \in BOOLEAN
  BY <1>2, SignalsTyped, Zenon DEF LoopTyped
<1>6. LoopTyped'
  BY <1>4, <1>5 DEF FileLoaded, Read, LoopTyped
<1>7. TransportTyped'
  BY <1>2, Zenon DEF FileLoaded, TransportTyped
<1>8. ThreadInv'
  BY DEF FileLoaded, ThreadInv, ThreadTyped
<1>9. QED
  BY <1>2, <1>3, <1>6, <1>7, <1>8

LEMMA ReleaseTypes == TypeInv /\ Release => TypeInv'
<1> SUFFICES ASSUME TypeInv, Release PROVE TypeInv'
  OBVIOUS
<1> USE TypeInvIs DEF TypeParts
<1>1. PlaylistInv' /\ CoreTyped' /\ HasEntry'
  BY QuietStep, PlaylistKept, CoreSame DEF Release
<1>2. LoopTyped' /\ ThreadInv'
  BY DEF Release, LoopTyped, ThreadInv, ThreadTyped
<1>3. Append(cmds, Core!SetPause(FALSE)) \in Seq(Core!Request)
  BY RequestTypes, AskTyped, Zenon DEF TransportTyped
<1>4. paused' \in BOOLEAN /\ cmds' \in Seq(Core!Request)
  BY <1>3, Zenon DEF Release, AskPause, TransportTyped
<1>5. /\ isPlaying' = (~paused' /\ currentFile # NoFile)
      /\ UNCHANGED <<currentFile, fileLoaded, loadPending, playWhenLoaded, queuedFiles>>
  BY DEF Release
<1>6. isPlaying' \in BOOLEAN
  BY <1>5
<1>7. TransportTyped'
  BY <1>4, <1>5, <1>6, Zenon DEF TransportTyped
<1>8. QED
  BY <1>1, <1>2, <1>7

LEMMA PauseChangedTypes == TypeInv /\ PauseChanged => TypeInv'
<1> SUFFICES ASSUME TypeInv, PauseChanged PROVE TypeInv'
  OBVIOUS
<1> USE TypeInvIs DEF TypeParts
<1>1. PlaylistInv' /\ ThreadInv'
  BY QuietStep, PlaylistKept, ThreadSame DEF PauseChanged
<1>2. LoopTyped'
  BY DEF PauseChanged, LoopTyped
<1>3. CoreTyped' /\ HasEntry'
  BY DEF PauseChanged, CoreTyped, HasEntry, Core!HasCurrent
<1>4. /\ paused' = published
      /\ isPlaying' = (~published /\ fileLoaded /\ currentFile # NoFile)
      /\ UNCHANGED <<cmds, currentFile, fileLoaded, loadPending, playWhenLoaded, queuedFiles>>
  BY DEF PauseChanged, TakePause
<1>5. isPlaying' \in BOOLEAN /\ published \in BOOLEAN
  BY <1>4 DEF CoreTyped
<1>6. TransportTyped'
  BY <1>4, <1>5, Zenon DEF TransportTyped
<1>7. QED
  BY <1>1, <1>2, <1>3, <1>6

LEMMA FileEndedTypes == TypeInv /\ FileEnded => TypeInv'
<1> SUFFICES ASSUME TypeInv, FileEnded PROVE TypeInv'
  OBVIOUS
<1> USE TypeInvIs DEF TypeParts
<1> DEFINE reason == Head(events).reason
<1>1. CoreTyped' /\ HasEntry' /\ ThreadInv'
  BY ReadTyped, ThreadSame DEF FileEnded
<1>2. UNCHANGED <<gaplessEnabled, startedFile, ops, raced>>
  BY DEF FileEnded, Read
<1>3. CASE NoSignal /\ UNCHANGED <<transport, cmds, posted, syncTimer>>
  <2>1. PlaylistInv'
    BY <1>3, QuietStep, PlaylistKept DEF FileEnded, Read
  <2>2. TransportTyped' /\ LoopTyped'
    BY <1>2, <1>3, TransportSame DEF LoopTyped
  <2>3. QED
    BY <1>1, <2>1, <2>2
<1>4. CASE /\ queuedFiles' = <<>>
           /\ loadPending' = FALSE
           /\ playWhenLoaded' = FALSE
           /\ Unload
           /\ IF TrackEnded(reason)
              THEN Playlist!NextTrack ELSE NoSignal /\ UNCHANGED present
           /\ posted' = Posted(signals')
           /\ syncTimer' = (syncTimer \/ signals'.index)
           /\ UNCHANGED <<currentFile, paused, cmds>>
  <2>1. PlaylistInv'
    BY <1>4, PlaylistKept DEF PlaylistStep, Playlist!Next, Playlist!Operate
  <2>2. posted' \in Seq(File)
    BY <1>4, <2>1, PostedTyped DEF LoopTyped
  <2>3. syncTimer' \in BOOLEAN
    BY <1>4, <2>1, SignalsTyped, Zenon DEF LoopTyped
  <2>4. LoopTyped'
    BY <1>2, <2>2, <2>3 DEF LoopTyped
  <2>5. queuedFiles' \in Seq(File)
    BY <1>4
  <2>6. TransportTyped'
    BY <1>4, <2>5, Zenon DEF TransportTyped, Unload
  <2>7. QED
    BY <1>1, <2>1, <2>4, <2>6
<1>5. QED
  BY <1>3, <1>4, Zenon DEF FileEnded

LEMMA HandlerTypes == TypeInv /\ Handler => TypeInv'
<1> SUFFICES ASSUME TypeInv, Handler PROVE TypeInv'
  OBVIOUS
<1>1. CASE TickDone
  <2> USE TypeInvIs DEF TypeParts
  <2>1. PlaylistInv' /\ CoreTyped' /\ HasEntry' /\ TransportTyped'
    BY <1>1, QuietStep, PlaylistKept, CoreSame, TransportSame DEF TickDone
  <2>2. ThreadInv' /\ LoopTyped'
    BY <1>1 DEF TickDone, ThreadInv, ThreadTyped, LoopTyped
  <2>3. QED
    BY <2>1, <2>2
<1>2. QED
  BY <1>1, SyncTypes, PauseChangedTypes, FileStartedTypes, FileLoadedTypes, ReleaseTypes,
     FileEndedTypes DEF Handler

-----------------------------------------------------------------------------
\* Steps of the core.
LEMMA ExecTyped ==
    ASSUME CoreTyped, HasEntry, cmds \in Seq(Core!Request), Core!Exec
    PROVE  CoreTyped' /\ HasEntry' /\ cmds' \in Seq(Core!Request)
<1>1. cmds # <<>> /\ cmds' = Tail(cmds)
  BY DEF Core!Exec, Core!ExecPause, Core!ExecLoad, Core!ExecStop
<1>2. cmds' \in Seq(Core!Request) /\ Head(cmds) \in Core!Request
  BY <1>1
<1>3. CASE Core!ExecPause
  <2>1. Head(cmds).op = "pause"
    BY <1>3 DEF Core!ExecPause
  <2>2. Head(cmds) \in [op : {"pause"}, value : BOOLEAN]
    BY <1>2, <2>1 DEF Core!Request
  <2>3. Head(cmds).value \in BOOLEAN
    BY <2>2
  <2>4. UNCHANGED <<list, stage, playing, published, fresh, events>> /\ corePaused' = Head(cmds).value
    BY <1>3 DEF Core!ExecPause, Core!player
  <2>5. QED
    BY <1>2, <2>3, <2>4, Zenon DEF CoreTyped, HasEntry, Core!HasCurrent
<1>4. CASE Core!ExecLoad
  <2>1. Head(cmds).op = "load"
    BY <1>4 DEF Core!ExecLoad
  <2>2. Head(cmds) \in [op : {"load"}, file : File]
    BY <1>2, <2>1 DEF Core!Request
  <2>3. [file |-> Head(cmds).file, known |-> FALSE] \in Core!Entry
    BY <2>2 DEF Core!Entry
  <2>4. list' \in Seq(Core!Entry) /\ list' # <<>>
    BY <1>4, <2>3 DEF Core!ExecLoad
  <2>5. stage' \in Core!Stage
    BY <1>4 DEF Core!ExecLoad, Core!Stage
  <2>6. UNCHANGED <<playing, corePaused, published, fresh, events>>
    BY <1>4 DEF Core!ExecLoad, Core!pauseVars
  <2>7. QED
    BY <1>2, <2>4, <2>5, <2>6, Zenon DEF CoreTyped, HasEntry
<1>5. CASE Core!ExecStop
  <2>1. list' \in Seq(Core!Entry) /\ stage' \in {"idle", "stopping"}
    BY <1>5 DEF Core!ExecStop
  <2>2. stage' \in Core!Stage /\ ~Core!HasCurrent'
    BY <2>1 DEF Core!Stage, Core!HasCurrent
  <2>3. UNCHANGED <<playing, corePaused, published, fresh, events>>
    BY <1>5 DEF Core!ExecStop, Core!pauseVars
  <2>4. QED
    BY <1>2, <2>1, <2>2, <2>3, Zenon DEF CoreTyped, HasEntry
<1>6. QED
  BY <1>3, <1>4, <1>5 DEF Core!Exec

LEMMA SentTyped ==
    ASSUME CoreTyped, NEW e \in Core!Event, Core!Emit(e)
    PROVE  events' \in Seq(Core!Event)
BY AskTyped, Zenon DEF CoreTyped, Core!Emit

LEMMA EventTypes ==
    /\ \A entry \in Core!Entry : [kind |-> "start", entry |-> entry] \in Core!Event
    /\ [kind |-> "loaded"] \in Core!Event
    /\ \A reason \in {"EOF", "STOP", "ERROR"} : [kind |-> "end", reason |-> reason] \in Core!Event
BY DEF Core!Event

LEMMA AdvanceTyped ==
    ASSUME CoreTyped, HasEntry, Core!Advance
    PROVE  CoreTyped' /\ HasEntry' /\ UNCHANGED cmds
<1>1. UNCHANGED <<corePaused, published, fresh, cmds>>
  BY DEF Core!Advance, Core!Unwind, Core!Start, Core!Loaded, Core!Fail, Core!Eof, Core!NextEntry,
         Core!pauseVars
<1> SUFFICES /\ list' \in Seq(Core!Entry) /\ stage' \in Core!Stage
             /\ playing' \in File \cup {NoFile}
             /\ events' \in Seq(Core!Event)
             /\ stage' \in {"idle", "stopping"} \/ list' # <<>>
  BY <1>1, Zenon DEF CoreTyped, HasEntry, Core!HasCurrent
<1>2. CASE Core!Unwind
  <2>1. events' \in Seq(Core!Event)
    BY <1>2, EventTypes, SentTyped DEF Core!Unwind
  <2>2. QED
    BY <1>2, <2>1 DEF Core!Unwind, Core!Stage, CoreTyped, HasEntry, Core!HasCurrent
<1>3. CASE Core!Start
  <2>1. list # <<>>
    BY <1>3 DEF Core!Start, HasEntry, Core!HasCurrent
  <2>2. list[1] \in Core!Entry
    BY <2>1 DEF CoreTyped
  <2>3. list[1].file \in File
    BY <2>2 DEF Core!Entry
  <2>4. events' \in Seq(Core!Event)
    BY <1>3, <2>2, EventTypes, SentTyped, Zenon DEF Core!Start
  <2>5. QED
    BY <1>3, <2>1, <2>3, <2>4 DEF Core!Start, Core!Stage, CoreTyped
<1>4. CASE Core!Loaded
  <2>1. events' \in Seq(Core!Event)
    BY <1>4, EventTypes, SentTyped DEF Core!Loaded
  <2>2. QED
    BY <1>4, <2>1 DEF Core!Loaded, Core!Stage, CoreTyped, HasEntry, Core!HasCurrent
<1>5. CASE Core!Fail \/ Core!Eof
  <2>1. events' \in Seq(Core!Event)
    BY <1>5, EventTypes, SentTyped DEF Core!Fail, Core!Eof
  <2>2. Core!NextEntry /\ list # <<>> /\ list \in Seq(Core!Entry)
    BY <1>5 DEF Core!Fail, Core!Eof, HasEntry, Core!HasCurrent, CoreTyped
  <2>3. list' \in Seq(Core!Entry) /\ Len(list') = Len(list) - 1
    BY <2>2 DEF Core!NextEntry
  <2>4. stage' = IF Len(list) = 1 THEN "idle" ELSE "pending"
    BY <2>2 DEF Core!NextEntry
  <2>5. stage' # "idle" => list' # <<>>
    BY <2>2, <2>3, <2>4
  <2>6. stage' \in Core!Stage /\ playing' = NoFile
    BY <2>2 DEF Core!NextEntry, Core!Stage
  <2>7. QED
    BY <2>1, <2>3, <2>5, <2>6
<1>6. QED
  BY <1>2, <1>3, <1>4, <1>5 DEF Core!Advance

LEMMA CoreTypes == TypeInv /\ (CoreExec \/ CoreAdvance \/ CorePublish) => TypeInv'
<1> SUFFICES ASSUME TypeInv, CoreExec \/ CoreAdvance \/ CorePublish PROVE TypeInv'
  OBVIOUS
<1> USE TypeInvIs DEF TypeParts
<1>1. /\ NoSignal
      /\ UNCHANGED <<transport, gaplessEnabled, startedFile, posted, syncTimer, thread, ops>>
      /\ UNCHANGED present
  BY DEF CoreExec, CoreAdvance, CorePublish, CoreDo, Core!Exec, Core!ExecPause, Core!ExecLoad,
         Core!ExecStop, Core!Advance, Core!Unwind, Core!Start, Core!Loaded, Core!Fail, Core!Eof,
         Core!NextEntry, Core!Publish
<1>2. PlaylistInv' /\ ThreadInv'
  BY <1>1, QuietStep, PlaylistKept, ThreadSame
<1>3. LoopTyped'
  <2>1. raced' \in BOOLEAN
    BY Zenon DEF CoreExec, CoreAdvance, CorePublish, CoreDo, LoopTyped
  <2>2. QED
    BY <1>1, <2>1 DEF LoopTyped
<1>4. CoreTyped' /\ HasEntry' /\ cmds' \in Seq(Core!Request)
  <2>1. CASE Core!Publish
    BY <2>1 DEF Core!Publish, Core!player, CoreTyped, HasEntry, Core!HasCurrent, TransportTyped
  <2>2. CASE Core!Exec
    BY <2>2, ExecTyped DEF TransportTyped
  <2>3. CASE Core!Advance
    BY <2>3, AdvanceTyped DEF TransportTyped
  <2>4. QED
    BY <2>1, <2>2, <2>3 DEF CoreExec, CoreAdvance, CorePublish, CoreDo
<1>5. TransportTyped'
  BY <1>1, <1>4, Zenon DEF TransportTyped, transport
<1>6. QED
  BY <1>2, <1>3, <1>4, <1>5

LEMMA VanishTypes == TypeInv /\ Vanish => TypeInv'
<1> SUFFICES ASSUME TypeInv, Vanish PROVE TypeInv'
  OBVIOUS
<1> USE TypeInvIs DEF TypeParts
<1>1. PlaylistInv'
  BY PlaylistKept DEF Vanish, PlaylistStep, Playlist!Next
<1>2. CoreTyped' /\ HasEntry' /\ TransportTyped' /\ ThreadInv'
  BY CoreSame, TransportSame, ThreadSame DEF Vanish
<1>3. LoopTyped'
  BY DEF Vanish, LoopTyped
<1>4. QED
  BY <1>1, <1>2, <1>3

LEMMA TypeNext == TypeInv /\ [Next]_vars => TypeInv'
<1> SUFFICES ASSUME TypeInv, [Next]_vars PROVE TypeInv'
  OBVIOUS
<1>1. CASE UNCHANGED vars
  <2> USE TypeInvIs DEF TypeParts
  <2>1. CoreTyped' /\ HasEntry' /\ TransportTyped' /\ ThreadInv'
    BY <1>1, CoreSame, TransportSame, ThreadSame DEF vars
  <2>2. LoopTyped'
    BY <1>1 DEF vars, LoopTyped
  <2>3. PlaylistInv'
    BY <1>1 DEF vars, rows, PlaylistInv, Playlist!TypeOK, Playlist!IndexValid,
       Playlist!UniqueTracks, Playlist!Count
  <2>4. QED
    BY <2>1, <2>2, <2>3
<1>2. QED
  BY <1>1, UserTypes, LoopTypes, HandlerTypes, CoreTypes, VanishTypes DEF Next

LEMMA TypeInit == Init => TypeInv
<1> SUFFICES ASSUME Init PROVE TypeInv
  OBVIOUS
<1>1. PlaylistInv
  <2>1. Playlist!Quiet \in Playlist!Signals
    BY DEF Playlist!Quiet, Playlist!Signals
  <2>2. batch \in Seq(File)
    BY PlayerAssumption DEF Init
  <2>3. tracks = <<>> /\ currentIndex = -1 /\ present \subseteq File /\ signals = Playlist!Quiet
    BY DEF Init
  <2>4. tracks \in Seq(File) /\ Len(tracks) = 0
    BY <2>3
  <2>5. Playlist!UniqueTracks
    BY <2>3 DEF Playlist!UniqueTracks
  <2>6. QED
    BY <2>1, <2>2, <2>3, <2>4, <2>5
       DEF PlaylistInv, Playlist!TypeOK, Playlist!IndexValid, Playlist!Count
<1>2. CoreTyped /\ HasEntry
  <2>1. /\ list = <<>> /\ events = <<>> /\ stage = "idle" /\ playing = NoFile
        /\ corePaused = FALSE /\ published = FALSE /\ fresh = TRUE
    BY DEF Init, Core!Init
  <2>2. list \in Seq(Core!Entry) /\ events \in Seq(Core!Event)
    BY <2>1
  <2>3. stage \in Core!Stage /\ HasEntry
    BY <2>1 DEF Core!Stage, HasEntry, Core!HasCurrent
  <2>4. QED
    BY <2>1, <2>2, <2>3, Zenon DEF CoreTyped
<1>3. TransportTyped
  <2>1. cmds = <<>> /\ queuedFiles = <<>>
    BY DEF Init, Core!Init
  <2>2. cmds \in Seq(Core!Request) /\ queuedFiles \in Seq(File)
    BY <2>1
  <2>3. QED
    BY <2>2, Zenon DEF Init, TransportTyped
<1>4. LoopTyped
  <2>1. ops \in 0 .. MaxOps /\ posted \in Seq(File)
    BY PlayerAssumption DEF Init
  <2>2. QED
    BY <2>1, PlayerAssumption, Zenon DEF Init, LoopTyped
<1>5. ThreadInv
  BY DEF Init, ThreadInv, ThreadTyped
<1>6. QED
  BY <1>1, <1>2, <1>3, <1>4, <1>5, TypeInvIs DEF TypeParts

LEMMA TypesHold == Spec => []TypeInv
BY TypeInit, TypeNext, PTL DEF Spec

\* The types hold in every reachable state, for any files, lists and number of
\* user actions: no handler reads the head of an empty list, whatever the order
\* of the core's steps (AudioPlayer.hpp:165-194).
THEOREM PlayerTypes == Spec => []TypeOK
<1>1. TypeInv => TypeOK
  BY TypedIs DEF TypeInv, PlaylistInv
<1>2. QED
  BY <1>1, TypesHold, PTL

-----------------------------------------------------------------------------
(***************************************************************************)
(* The play lamp.                                                          *)
(***************************************************************************)
LampExact == isPlaying <=> fileLoaded /\ ~paused /\ currentFile # NoFile

\* Between FILE_LOADED and the end of its handler the lamp lags behind; until
\* then the file stays loaded.
Lagging ==
    \/ caller = "loaded" /\ pc \in {"sync", "clear", "append", "remember"}
    \/ pc = "release"

LampInv == IF Lagging THEN fileLoaded ELSE LampExact

\* A step that leaves the lamp and its reasons alone, outside that handler.
LEMMA LampSame ==
    ASSUME LampInv, UNCHANGED <<isPlaying, fileLoaded, paused, currentFile, pc, caller>>
    PROVE  LampInv'
BY DEF LampInv, Lagging, LampExact

\* The operations of the transport leave it exact.
LEMMA PlayLamp == LampExact /\ Play => LampExact'
<1> SUFFICES ASSUME LampExact, Play PROVE LampExact'
  OBVIOUS
<1>1. CASE UNCHANGED <<currentFile, fileLoaded, isPlaying, paused>>
  BY <1>1 DEF LampExact
<1>2. CASE /\ currentFile # NoFile /\ fileLoaded
           /\ isPlaying' = TRUE /\ AskPause(FALSE)
           /\ UNCHANGED <<currentFile, fileLoaded>>
  BY <1>2 DEF LampExact, AskPause
<1>3. QED
  BY <1>1, <1>2 DEF Play, transport

LEMMA PauseLamp == Pause => LampExact'
BY DEF Pause, LampExact, AskPause

LEMMA StopLamp == Stop => LampExact'
BY DEF Stop, LampExact, Unload

LEMMA LoadLamp == ASSUME NEW file, LoadAndPlay(file) PROVE LampExact'
BY DEF LoadAndPlay, LampExact, Unload

LEMMA HeardLamp == LampExact /\ Heard => LampExact'
<1> SUFFICES ASSUME LampExact, Heard PROVE LampExact'
  OBVIOUS
<1>1. CASE Stop
  BY <1>1, StopLamp
<1>2. CASE UNCHANGED transport
  BY <1>2 DEF transport, LampExact
<1>3. QED
  BY <1>1, <1>2 DEF Heard

\* In the event loop the lamp is exact, and a handler that ends there, or that
\* goes on in syncNextTrack for the loop, leaves it so.
LEMMA LampAtLoop == LampInv /\ pc \in {"loop", "drain"} => LampExact
BY DEF LampInv, Lagging

LEMMA LampStays ==
    ASSUME LampExact', pc' \in {"loop", "drain"}
    PROVE  LampInv'
BY DEF LampInv, Lagging

LEMMA UserLamp == LampInv /\ User => LampInv'
<1> SUFFICES ASSUME LampInv, User PROVE LampInv'
  OBVIOUS
<1>1. pc = "loop" /\ LampExact
  BY LampAtLoop
     DEF User, EditPlaylist, TogglePlayPause, PressStop, SetGaplessEnabled, Act, GuiFree
<1>2. CASE EditPlaylist
  BY <1>1, <1>2, HeardLamp, LampStays DEF EditPlaylist, thread
<1>3. CASE TogglePlayPause
  BY <1>1, <1>3, PlayLamp, PauseLamp, LampStays DEF TogglePlayPause, thread
<1>4. CASE PressStop
  BY <1>1, <1>4, StopLamp, LampStays DEF PressStop, thread
<1>5. CASE SetGaplessEnabled
  BY <1>1, <1>5 DEF SetGaplessEnabled, transport, LampInv, Lagging, LampExact
<1>6. QED
  BY <1>2, <1>3, <1>4, <1>5 DEF User

LEMMA LoopLamp == LampInv /\ Loop => LampInv'
<1> SUFFICES ASSUME LampInv, Loop PROVE LampInv'
  OBVIOUS
<1>1. pc = "loop" /\ LampExact
  BY LampAtLoop DEF Loop, AddFile, TrackSelected, SyncTimeout, Tick, GuiFree
<1>2. CASE AddFile
  BY <1>1, <1>2, HeardLamp, LampStays DEF AddFile, thread
<1>3. CASE TrackSelected
  <2>1. pc' = "loop"
    BY <1>1, <1>3 DEF TrackSelected, thread
  <2>2. CASE UNCHANGED transport
    BY <1>1, <2>1, <2>2, LampStays DEF transport, LampExact
  <2>3. CASE LoadAndPlay(Head(posted)) \/ Play
    BY <1>1, <2>1, <2>3, LoadLamp, PlayLamp, LampStays
  <2>4. QED
    BY <1>3, <2>2, <2>3 DEF TrackSelected
<1>4. CASE SyncTimeout
  BY <1>1, <1>4 DEF SyncTimeout, transport, LampInv, Lagging, LampExact
<1>5. CASE Tick
  BY <1>1, <1>5, LampStays DEF Tick, transport, LampExact
<1>6. QED
  BY <1>2, <1>3, <1>4, <1>5 DEF Loop

LEMMA HandlerLamp == LampInv /\ Handler => LampInv'
<1> SUFFICES ASSUME LampInv, Handler PROVE LampInv'
  OBVIOUS
<1>1. CASE SyncCheck
  BY <1>1 DEF SyncCheck, SyncDone, transport, LampInv, Lagging, LampExact
<1>2. CASE SyncEdit
  BY <1>2 DEF SyncEdit, SyncDone, LampInv, Lagging, LampExact
<1>3. CASE TickDone
  BY <1>3 DEF TickDone, transport, LampInv, Lagging, LampExact
<1>4. CASE PauseChanged
  BY <1>4 DEF PauseChanged, TakePause, thread, LampInv, Lagging, LampExact
<1>5. CASE FileStarted
  BY <1>5 DEF FileStarted, Read, Unload, thread, LampInv, Lagging, LampExact
<1>6. CASE FileLoaded
  BY <1>6 DEF FileLoaded, LampInv, Lagging
<1>7. CASE Release
  <2>1. fileLoaded /\ fileLoaded' = fileLoaded /\ pc' = "drain"
    BY <1>7 DEF Release, LampInv, Lagging
  <2>2. isPlaying' = (~paused' /\ currentFile # NoFile) /\ currentFile' = currentFile
    BY <1>7 DEF Release
  <2>3. QED
    BY <2>1, <2>2, LampStays DEF LampExact
<1>8. CASE FileEnded
  <2>1. pc = "drain" /\ pc' = "drain" /\ LampExact
    BY <1>8, LampAtLoop DEF FileEnded, Read, thread
  <2>2. LampExact'
    BY <1>8, <2>1 DEF FileEnded, Unload, transport, LampExact
  <2>3. QED
    BY <2>1, <2>2, LampStays
<1>9. QED
  BY <1>1, <1>2, <1>3, <1>4, <1>5, <1>6, <1>7, <1>8 DEF Handler

LEMMA LampNext == LampInv /\ [Next]_vars => LampInv'
<1> SUFFICES ASSUME LampInv, [Next]_vars PROVE LampInv'
  OBVIOUS
<1>1. CASE CoreExec \/ CoreAdvance \/ CorePublish
  BY <1>1, LampSame DEF CoreExec, CoreAdvance, CorePublish, CoreDo, transport, thread
<1>2. CASE Vanish
  BY <1>2, LampSame DEF Vanish, transport, thread
<1>3. CASE UNCHANGED vars
  BY <1>3, LampSame DEF vars, transport, thread
<1>4. QED
  BY <1>1, <1>2, <1>3, UserLamp, LoopLamp, HandlerLamp DEF Next

\* Whatever the user does and however the events of the core come in, the play
\* lamp is exact whenever a handler has ended.
THEOREM PlayLampExact == Spec => []PlayingFlagExact
<1>1. Init => LampInv
  BY DEF Init, LampInv, Lagging, LampExact
<1>2. LampInv => PlayingFlagExact
  BY DEF LampInv, Lagging, LampExact, PlayingFlagExact
<1>3. QED
  BY <1>1, <1>2, LampNext, PTL DEF Spec

-----------------------------------------------------------------------------
(***************************************************************************)
(* Queues of requests and events, whatever they hold.                      *)
(***************************************************************************)
IsQueue(s) == \E S : s \in Seq(S)

LEMMA QueueAppend ==
    ASSUME NEW s, IsQueue(s), NEW e
    PROVE  /\ IsQueue(Append(s, e))
           /\ DOMAIN s = 1 .. Len(s) /\ Len(s) \in Nat
           /\ DOMAIN Append(s, e) = 1 .. Len(s) + 1
           /\ Len(Append(s, e)) = Len(s) + 1
           /\ \A i \in 1 .. Len(s) : Append(s, e)[i] = s[i]
           /\ Append(s, e)[Len(s) + 1] = e
<1>1. PICK S : s \in Seq(S)
  BY DEF IsQueue
<1> DEFINE T == S \cup {e}
<1>2. s \in Seq(T) /\ e \in T
  BY <1>1
<1>3. Append(s, e) \in Seq(T)
  BY <1>2
<1>4. IsQueue(Append(s, e))
  BY <1>3 DEF IsQueue
<1>5. QED
  BY <1>1, <1>2, <1>3, <1>4

LEMMA QueueTail ==
    ASSUME NEW s, IsQueue(s), s # <<>>
    PROVE  /\ IsQueue(Tail(s))
           /\ DOMAIN s = 1 .. Len(s) /\ Len(s) \in Nat \ {0}
           /\ DOMAIN Tail(s) = 1 .. Len(s) - 1 /\ Len(Tail(s)) = Len(s) - 1
           /\ Head(s) = s[1]
           /\ \A i \in 1 .. Len(s) - 1 : Tail(s)[i] = s[i + 1]
<1>1. PICK S : s \in Seq(S)
  BY DEF IsQueue
<1>2. Tail(s) \in Seq(S)
  BY <1>1
<1>3. IsQueue(Tail(s))
  BY <1>2 DEF IsQueue
<1>4. QED
  BY <1>1, <1>2, <1>3

LEMMA AppendTwice ==
    ASSUME NEW s, IsQueue(s), NEW x, NEW y
    PROVE  s \o <<x, y>> = Append(Append(s, x), y)
<1>1. PICK S : s \in Seq(S)
  BY DEF IsQueue
<1> DEFINE T == S \cup {x, y}
<1>2. s \in Seq(T) /\ x \in T /\ y \in T
  BY <1>1
<1> HIDE DEF T
<1>3. QED
  BY <1>2

\* A queue whose elements are replaced one for one.
LEMMA QueueMap ==
    ASSUME NEW s, IsQueue(s), NEW t, t = [i \in DOMAIN s |-> t[i]]
    PROVE  IsQueue(t)
<1>1. PICK S : s \in Seq(S)
  BY DEF IsQueue
<1>2. DOMAIN s = 1 .. Len(s) /\ Len(s) \in Nat
  BY <1>1
<1> DEFINE T == {t[i] : i \in DOMAIN s}
<1>3. t \in [1 .. Len(s) -> T]
  BY <1>2
<1>4. t \in Seq(T)
  BY <1>2, <1>3, SeqDef
<1>5. QED
  BY <1>4 DEF IsQueue

-----------------------------------------------------------------------------
(***************************************************************************)
(* The load guard.  NoStuckLoad is not inductive: a stop request behind    *)
(* the load would take back what the load promises.  What is inductive     *)
(* says that no stop is waiting behind it.                                 *)
(***************************************************************************)
Conclusive(e) == e.kind = "loaded" \/ (e.kind = "end" /\ e.reason # "STOP")

LoadAsked ==
    \E i \in DOMAIN cmds :
        /\ cmds[i].op = "load"
        /\ \A j \in DOMAIN cmds : j > i => cmds[j].op # "stop"

NoStopAsked == \A i \in DOMAIN cmds : cmds[i].op # "stop"

UnderWay == stage \in {"replacing", "pending", "opening"}

Answered == \E i \in DOMAIN events : Conclusive(events[i])

LoadOpen == LoadAsked \/ (NoStopAsked /\ (UnderWay \/ Answered))

LoadInv ==
    /\ IsQueue(cmds) /\ IsQueue(events)
    /\ loadPending => LoadOpen /\ queuedFiles = <<>> /\ ~Editing

\* Another pause request leaves an open load open.
LEMMA PauseAskedOpen ==
    ASSUME IsQueue(cmds), LoadOpen, NEW value,
           cmds' = Append(cmds, Core!SetPause(value)), UNCHANGED <<stage, events>>
    PROVE  LoadOpen'
<1>1. /\ DOMAIN cmds = 1 .. Len(cmds) /\ Len(cmds) \in Nat
      /\ DOMAIN cmds' = 1 .. Len(cmds) + 1
      /\ \A i \in 1 .. Len(cmds) : cmds'[i] = cmds[i]
      /\ cmds'[Len(cmds) + 1] = Core!SetPause(value)
  BY QueueAppend
<1>2. cmds'[Len(cmds) + 1].op = "pause"
  BY <1>1 DEF Core!SetPause
<1>3. LoadAsked => LoadAsked'
  <2> SUFFICES ASSUME NEW i \in DOMAIN cmds, cmds[i].op = "load",
                      \A j \in DOMAIN cmds : j > i => cmds[j].op # "stop"
               PROVE  LoadAsked'
    BY DEF LoadAsked
  <2>1. i \in DOMAIN cmds' /\ cmds'[i].op = "load"
    BY <1>1
  <2>2. ASSUME NEW j \in DOMAIN cmds', j > i PROVE cmds'[j].op # "stop"
    BY <1>1, <1>2, <2>2
  <2>3. QED
    BY <2>1, <2>2 DEF LoadAsked
<1>4. NoStopAsked => NoStopAsked'
  BY <1>1, <1>2 DEF NoStopAsked
<1>5. UnderWay' = UnderWay /\ Answered' = Answered
  BY DEF UnderWay, Answered
<1>6. QED
  BY <1>3, <1>4, <1>5 DEF LoadOpen

\* A load just asked for is open.
LEMMA LoadAskedOpen ==
    ASSUME NEW s, IsQueue(s), NEW file, cmds' = Append(s, Core!LoadFile(file))
    PROVE  LoadOpen'
<1>1. /\ Len(s) \in Nat /\ DOMAIN cmds' = 1 .. Len(s) + 1
      /\ cmds'[Len(s) + 1] = Core!LoadFile(file)
  BY QueueAppend
<1>2. cmds'[Len(s) + 1].op = "load"
  BY <1>1 DEF Core!LoadFile
<1>3. \A j \in DOMAIN cmds' : ~(j > Len(s) + 1)
  BY <1>1
<1>4. QED
  BY <1>1, <1>2, <1>3 DEF LoadOpen, LoadAsked

\* A step of the transport from a state with no edit under way.
LEMMA AskPauseLoad ==
    ASSUME LoadInv, ~Editing', NEW value, AskPause(value),
           UNCHANGED <<stage, events, loadPending, queuedFiles>>
    PROVE  LoadInv'
<1>1. IsQueue(cmds)' /\ IsQueue(events)'
  BY QueueAppend DEF LoadInv, AskPause
<1>2. loadPending => LoadOpen'
  BY PauseAskedOpen DEF LoadInv, AskPause
<1>3. QED
  BY <1>1, <1>2 DEF LoadInv

LEMMA SameLoad ==
    ASSUME LoadInv, loadPending => ~Editing',
           UNCHANGED <<cmds, stage, events, loadPending, queuedFiles>>
    PROVE  LoadInv'
BY DEF LoadInv, LoadOpen, LoadAsked, NoStopAsked, UnderWay, Answered

LEMMA PlayLoad ==
    ASSUME LoadInv, ~Editing', Play, UNCHANGED <<stage, events>>
    PROVE  LoadInv'
<1>1. CASE UNCHANGED <<cmds, loadPending, queuedFiles>>
  BY <1>1, SameLoad
<1>2. CASE AskPause(FALSE) /\ UNCHANGED <<loadPending, queuedFiles>>
  BY <1>2, AskPauseLoad
<1>3. CASE loadPending /\ loadPending' = TRUE /\ UNCHANGED <<cmds, queuedFiles>>
  BY <1>3 DEF LoadInv, LoadOpen, LoadAsked, NoStopAsked, UnderWay, Answered
<1>4. CASE cmds' = Append(cmds, Core!LoadFile(currentFile)) /\ queuedFiles' = <<>>
  <2>1. IsQueue(cmds)' /\ IsQueue(events)'
    BY <1>4, QueueAppend DEF LoadInv
  <2>2. LoadOpen'
    BY <1>4, LoadAskedOpen DEF LoadInv
  <2>3. QED
    BY <1>4, <2>1, <2>2 DEF LoadInv
<1>5. QED
  BY <1>1, <1>2, <1>3, <1>4 DEF Play, transport

LEMMA StopLoad ==
    ASSUME LoadInv, Stop, UNCHANGED events
    PROVE  LoadInv'
BY QueueAppend DEF LoadInv, Stop

LEMMA LoadLoad ==
    ASSUME LoadInv, ~Editing', NEW file, LoadAndPlay(file)
    PROVE  LoadInv'
<1> DEFINE p == Core!SetPause(TRUE)
           l == Core!LoadFile(file)
           s == Append(cmds, p)
<1>1. cmds' = Append(s, l)
  <2>1. cmds' = cmds \o <<p, l>>
    BY DEF LoadAndPlay
  <2> HIDE DEF p, l
  <2>2. IsQueue(cmds)
    BY DEF LoadInv
  <2>3. QED
    BY <2>1, <2>2, AppendTwice
<1>3. IsQueue(s)
  BY QueueAppend DEF LoadInv
<1> HIDE DEF s
<1>4. IsQueue(cmds)' /\ LoadOpen'
  BY <1>1, <1>3, QueueAppend, LoadAskedOpen
<1>5. IsQueue(events')
  <2>1. events' = [i \in DOMAIN events |-> events'[i]]
    BY DEF LoadAndPlay, Core!ForgetEntries
  <2>2. QED
    BY <2>1, QueueMap DEF LoadInv
<1>6. QED
  BY <1>4, <1>5 DEF LoadInv, LoadAndPlay

LEMMA HeardLoad ==
    ASSUME LoadInv, ~Editing', Heard, UNCHANGED <<stage, events>>
    PROVE  LoadInv'
<1>1. CASE Stop
  BY <1>1, StopLoad
<1>2. CASE UNCHANGED <<transport, cmds>>
  BY <1>2, SameLoad DEF transport
<1>3. QED
  BY <1>1, <1>2 DEF Heard

LEMMA UserLoad == LoadInv /\ User => LoadInv'
<1> SUFFICES ASSUME LoadInv, User PROVE LoadInv'
  OBVIOUS
<1>1. pc = "loop" /\ UNCHANGED <<stage, events>>
  BY DEF User, EditPlaylist, TogglePlayPause, PressStop, SetGaplessEnabled, Act,
         GuiFree, core
<1>2. CASE EditPlaylist
  BY <1>1, <1>2, HeardLoad DEF EditPlaylist, thread, Editing
<1>3. CASE TogglePlayPause
  <2>1. ~Editing'
    BY <1>1, <1>3 DEF TogglePlayPause, thread, Editing
  <2>2. CASE Play
    BY <1>1, <2>1, <2>2, PlayLoad
  <2>3. CASE Pause
    BY <1>1, <2>1, <2>3, AskPauseLoad DEF Pause
  <2>4. QED
    BY <1>3, <2>2, <2>3 DEF TogglePlayPause
<1>4. CASE PressStop
  BY <1>1, <1>4, StopLoad DEF PressStop
<1>5. CASE SetGaplessEnabled
  BY <1>1, <1>5, SameLoad DEF SetGaplessEnabled, transport, Editing
<1>6. QED
  BY <1>2, <1>3, <1>4, <1>5 DEF User

LEMMA LoopLoad == LoadInv /\ Loop => LoadInv'
<1> SUFFICES ASSUME LoadInv, Loop PROVE LoadInv'
  OBVIOUS
<1>1. CASE AddFile
  BY <1>1, HeardLoad DEF AddFile, thread, core, Editing
<1>2. CASE TrackSelected
  <2>1. ~Editing' /\ UNCHANGED stage
    BY <1>2 DEF TrackSelected, GuiFree, thread, Editing
  <2>2. CASE UNCHANGED <<transport, cmds, list, events>>
    BY <2>1, <2>2, SameLoad DEF transport
  <2>3. CASE LoadAndPlay(Head(posted))
    BY <2>1, <2>3, LoadLoad
  <2>4. CASE Play /\ UNCHANGED <<list, events>>
    BY <2>1, <2>4, PlayLoad
  <2>5. QED
    BY <1>2, <2>2, <2>3, <2>4 DEF TrackSelected
<1>3. CASE SyncTimeout
  BY <1>3, SameLoad DEF SyncTimeout, core, transport, Editing
<1>4. CASE Tick
  BY <1>4, SameLoad DEF Tick, core, transport, Editing
<1>5. QED
  BY <1>1, <1>2, <1>3, <1>4 DEF Loop

\* Reading an event that settles nothing leaves an open load open.
LEMMA ReadLoad ==
    ASSUME LoadInv, NEW kind, Read(kind), ~Conclusive(Head(events)), ~Editing',
           UNCHANGED <<cmds, loadPending, queuedFiles>>
    PROVE  LoadInv'
<1>1. events # <<>> /\ events' = Tail(events) /\ UNCHANGED stage /\ IsQueue(events)
  BY DEF Read, LoadInv
<1>2. /\ IsQueue(events') /\ Len(events) \in Nat \ {0}
      /\ DOMAIN events = 1 .. Len(events)
      /\ DOMAIN events' = 1 .. Len(events) - 1
      /\ \A i \in 1 .. Len(events) - 1 : events'[i] = events[i + 1]
      /\ Head(events) = events[1]
  BY <1>1, QueueTail
<1>3. Answered => Answered'
  <2> SUFFICES ASSUME NEW i \in DOMAIN events, Conclusive(events[i]) PROVE Answered'
    BY DEF Answered
  <2>1. i # 1
    BY <1>2
  <2>2. i - 1 \in DOMAIN events' /\ events'[i - 1] = events[i]
    BY <1>2, <2>1
  <2>3. \E k \in DOMAIN events' : Conclusive(events'[k])
    BY <2>2
  <2>4. QED
    BY <2>3 DEF Answered, Conclusive
<1>4. LoadAsked' = LoadAsked /\ NoStopAsked' = NoStopAsked /\ UnderWay' = UnderWay
  BY <1>1 DEF LoadAsked, NoStopAsked, UnderWay
<1>5. QED
  BY <1>2, <1>3, <1>4 DEF LoadInv, LoadOpen

LEMMA ReadQueues ==
    ASSUME LoadInv, NEW kind, Read(kind), UNCHANGED cmds
    PROVE  IsQueue(cmds') /\ IsQueue(events')
BY QueueTail DEF LoadInv, Read

LEMMA FileEndedLoad == LoadInv /\ FileEnded => LoadInv'
<1> SUFFICES ASSUME LoadInv, FileEnded PROVE LoadInv'
  OBVIOUS
<1>1. /\ Read("end") /\ Head(events).kind = "end"
      /\ pc = "drain" /\ ~Editing'
  BY DEF FileEnded, Read, thread, Editing
<1>2. CASE EndIgnored(Head(events).reason) /\ UNCHANGED <<transport, cmds>>
  <2>1. CASE loadPending
    <3>1. Head(events).reason = "STOP"
      BY <1>2, <2>1 DEF EndIgnored, LoadInv
    <3>2. ~Conclusive(Head(events))
      BY <1>1, <3>1 DEF Conclusive
    <3>3. QED
      BY <1>1, <1>2, <3>2, ReadLoad DEF transport
  <2>2. CASE ~loadPending
    BY <1>1, <1>2, <2>2, ReadQueues DEF LoadInv, transport
  <2>3. QED
    BY <2>1, <2>2
<1>3. CASE loadPending' = FALSE /\ UNCHANGED cmds
  BY <1>1, <1>3, ReadQueues DEF LoadInv
<1>4. QED
  BY <1>2, <1>3 DEF FileEnded

LEMMA SyncLoad == LoadInv /\ (SyncCheck \/ SyncEdit) => LoadInv'
<1> SUFFICES ASSUME LoadInv, SyncCheck \/ SyncEdit PROVE LoadInv'
  OBVIOUS
<1>1. CASE SyncCheck
  <2>1. loadPending => ~Editing'
    BY <1>1 DEF SyncCheck, SyncDone, SyncNeeded, Editing
  <2>2. QED
    BY <1>1, <2>1, SameLoad DEF SyncCheck, core, transport
<1>2. CASE SyncEdit
  <2>1. Editing /\ ~loadPending /\ UNCHANGED <<cmds, loadPending>>
    BY <1>2 DEF SyncEdit, Editing, LoadInv
  <2>2. events' = events \/ events' = [i \in DOMAIN events |-> events'[i]]
    BY <1>2 DEF SyncEdit, Core!RememberEntries
  <2>3. IsQueue(events')
    BY <2>2, QueueMap DEF LoadInv
  <2>4. QED
    BY <2>1, <2>3 DEF LoadInv
<1>3. QED
  BY <1>1, <1>2

LEMMA HandlerLoad == LoadInv /\ Handler => LoadInv'
<1> SUFFICES ASSUME LoadInv, Handler PROVE LoadInv'
  OBVIOUS
<1>1. CASE TickDone
  BY <1>1, SameLoad DEF TickDone, core, transport, Editing
<1>2. CASE PauseChanged
  BY <1>2, SameLoad DEF PauseChanged, thread, Editing
<1>3. CASE FileStarted
  <2>1. Head(events).kind = "start" /\ Read("start") /\ ~Editing'
    BY <1>3 DEF FileStarted, Read, thread, Editing
  <2>2. ~Conclusive(Head(events))
    BY <2>1 DEF Conclusive
  <2>3. QED
    BY <1>3, <2>1, <2>2, ReadLoad DEF FileStarted
<1>4. CASE FileLoaded
  BY <1>4, ReadQueues DEF FileLoaded, LoadInv
<1>5. CASE Release
  <2>1. ~Editing' /\ UNCHANGED <<stage, events, loadPending, queuedFiles>>
    BY <1>5 DEF Release, core, Editing
  <2>2. AskPause(FALSE) \/ UNCHANGED cmds
    BY <1>5 DEF Release
  <2>3. QED
    BY <2>1, <2>2, AskPauseLoad, SameLoad
<1>6. QED
  BY <1>1, <1>2, <1>3, <1>4, <1>5, SyncLoad, FileEndedLoad DEF Handler

-----------------------------------------------------------------------------
(***************************************************************************)
(* The core answers, in its own time, what it was asked.                   *)
(***************************************************************************)

\* The first request is taken: what was asked behind it stays asked.
LEMMA TakeRequest ==
    ASSUME IsQueue(cmds), cmds # <<>>, cmds' = Tail(cmds)
    PROVE  /\ IsQueue(cmds')
           /\ NoStopAsked => NoStopAsked' /\ Head(cmds).op # "stop"
           /\ LoadAsked => \/ LoadAsked'
                           \/ Head(cmds).op = "load" /\ NoStopAsked'
<1>1. /\ IsQueue(cmds') /\ Len(cmds) \in Nat \ {0}
      /\ DOMAIN cmds = 1 .. Len(cmds) /\ DOMAIN cmds' = 1 .. Len(cmds) - 1
      /\ \A i \in 1 .. Len(cmds) - 1 : cmds'[i] = cmds[i + 1]
      /\ Head(cmds) = cmds[1]
  BY QueueTail
<1>2. NoStopAsked => NoStopAsked' /\ Head(cmds).op # "stop"
  BY <1>1 DEF NoStopAsked
<1>3. ASSUME NEW i \in DOMAIN cmds, cmds[i].op = "load",
             \A j \in DOMAIN cmds : j > i => cmds[j].op # "stop"
      PROVE  LoadAsked' \/ (Head(cmds).op = "load" /\ NoStopAsked')
  <2>1. CASE i = 1
    BY <1>1, <1>3, <2>1 DEF NoStopAsked
  <2>2. CASE i # 1
    <3>1. i - 1 \in DOMAIN cmds' /\ cmds'[i - 1].op = "load"
      BY <1>1, <1>3, <2>2
    <3>2. ASSUME NEW j \in DOMAIN cmds', j > i - 1 PROVE cmds'[j].op # "stop"
      <4>1. j + 1 \in DOMAIN cmds /\ j + 1 > i /\ cmds'[j] = cmds[j + 1]
        BY <1>1, <3>2
      <4>2. QED
        BY <1>3, <4>1
    <3>3. QED
      BY <3>1, <3>2 DEF LoadAsked
  <2>3. QED
    BY <2>1, <2>2
<1>4. QED
  BY <1>1, <1>2, <1>3 DEF LoadAsked

LEMMA ExecOpen ==
    ASSUME IsQueue(cmds), Core!Exec
    PROVE  IsQueue(cmds') /\ events' = events /\ (LoadOpen => LoadOpen')
<1>1. cmds # <<>> /\ cmds' = Tail(cmds) /\ events' = events
  BY DEF Core!Exec, Core!ExecPause, Core!ExecLoad, Core!ExecStop
<1>2. Answered' = Answered
  BY <1>1 DEF Answered
<1>3. CASE Core!ExecPause
  <2>1. Head(cmds).op = "pause" /\ UnderWay' = UnderWay
    BY <1>3 DEF Core!ExecPause, Core!player, UnderWay
  <2>2. QED
    BY <1>1, <1>2, <2>1, TakeRequest DEF LoadOpen
<1>4. CASE Core!ExecLoad
  <2>1. UnderWay'
    BY <1>4 DEF Core!ExecLoad, UnderWay
  <2>2. QED
    BY <1>1, <1>2, <2>1, TakeRequest DEF LoadOpen
<1>5. CASE Core!ExecStop
  <2>1. Head(cmds).op = "stop"
    BY <1>5 DEF Core!ExecStop
  <2>2. QED
    BY <1>1, <2>1, TakeRequest DEF LoadOpen
<1>6. QED
  BY <1>3, <1>4, <1>5 DEF Core!Exec

LEMMA AdvanceOpen ==
    ASSUME IsQueue(events), Core!Advance
    PROVE  IsQueue(events') /\ cmds' = cmds /\ (LoadOpen => LoadOpen')
<1>1. cmds' = cmds
  BY DEF Core!Advance, Core!Unwind, Core!Start, Core!Loaded, Core!Fail, Core!Eof,
         Core!NextEntry
<1>2. PICK e : /\ events' = Append(events, e)
               /\ UnderWay => UnderWay' \/ Conclusive(e)
  <2>1. CASE Core!Unwind
    BY <2>1 DEF Core!Unwind, Core!Emit, UnderWay
  <2>2. CASE Core!Start
    BY <2>2 DEF Core!Start, Core!Emit, UnderWay
  <2>3. CASE Core!Loaded
    <3>1. events' = Append(events, [kind |-> "loaded"])
      BY <2>3 DEF Core!Loaded, Core!Emit
    <3>2. Conclusive([kind |-> "loaded"])
      BY DEF Conclusive
    <3>3. QED
      BY <3>1, <3>2
  <2>4. CASE Core!Fail
    <3>1. events' = Append(events, [kind |-> "end", reason |-> "ERROR"])
      BY <2>4 DEF Core!Fail, Core!Emit
    <3>2. Conclusive([kind |-> "end", reason |-> "ERROR"])
      BY DEF Conclusive
    <3>3. QED
      BY <3>1, <3>2
  <2>5. CASE Core!Eof
    BY <2>5 DEF Core!Eof, Core!Emit, UnderWay
  <2>6. QED
    BY <2>1, <2>2, <2>3, <2>4, <2>5 DEF Core!Advance
<1>3. /\ IsQueue(events') /\ Len(events) \in Nat
      /\ DOMAIN events = 1 .. Len(events) /\ DOMAIN events' = 1 .. Len(events) + 1
      /\ \A i \in 1 .. Len(events) : events'[i] = events[i]
      /\ events'[Len(events) + 1] = e
  BY <1>2, QueueAppend
<1>4. UnderWay \/ Answered => UnderWay' \/ Answered'
  <2>1. ASSUME NEW i \in DOMAIN events, Conclusive(events[i]) PROVE Answered'
    <3>1. i \in DOMAIN events' /\ Conclusive(events'[i])
      BY <1>3, <2>1
    <3>2. QED
      BY <3>1 DEF Answered, Conclusive
  <2>2. ASSUME Conclusive(e) PROVE Answered'
    <3>1. Len(events) + 1 \in DOMAIN events' /\ Conclusive(events'[Len(events) + 1])
      BY <1>3, <2>2
    <3>2. QED
      BY <3>1 DEF Answered, Conclusive
  <2>3. QED
    BY <1>2, <2>1, <2>2 DEF Answered
<1>5. LoadAsked' = LoadAsked /\ NoStopAsked' = NoStopAsked
  BY <1>1 DEF LoadAsked, NoStopAsked
<1>6. QED
  BY <1>1, <1>3, <1>4, <1>5 DEF LoadOpen

LEMMA CoreLoad == LoadInv /\ (CoreExec \/ CoreAdvance \/ CorePublish) => LoadInv'
<1> SUFFICES ASSUME LoadInv, CoreExec \/ CoreAdvance \/ CorePublish PROVE LoadInv'
  OBVIOUS
<1>1. /\ UNCHANGED <<loadPending, queuedFiles>> /\ Editing' = Editing
  BY DEF CoreExec, CoreAdvance, CorePublish, CoreDo, transport, thread, Editing
<1>2. CASE CoreExec
  BY <1>1, <1>2, ExecOpen DEF CoreExec, CoreDo, LoadInv
<1>3. CASE CoreAdvance
  BY <1>1, <1>3, AdvanceOpen DEF CoreAdvance, CoreDo, LoadInv
<1>4. CASE CorePublish
  <2>1. UNCHANGED <<cmds, stage, events>>
    BY <1>4 DEF CorePublish, CoreDo, Core!Publish, Core!player
  <2>2. loadPending => ~Editing'
    BY <1>1 DEF LoadInv
  <2>3. QED
    BY <1>1, <2>1, <2>2, SameLoad
<1>5. QED
  BY <1>2, <1>3, <1>4

LEMMA LoadNext == LoadInv /\ [Next]_vars => LoadInv'
<1> SUFFICES ASSUME LoadInv, [Next]_vars PROVE LoadInv'
  OBVIOUS
<1>1. CASE Vanish
  BY <1>1, SameLoad DEF Vanish, core, transport, thread, Editing, LoadInv
<1>2. CASE UNCHANGED vars
  BY <1>2, SameLoad DEF vars, core, transport, thread, Editing, LoadInv
<1>3. QED
  BY <1>1, <1>2, UserLoad, LoopLoad, HandlerLoad, CoreLoad DEF Next

\* No load is ever left without an answer under way, so m_loadPending, which
\* makes the player refuse further loads, cannot stay set.
THEOREM LoadNeverStuck == Spec => []NoStuckLoad
<1>1. Init => LoadInv
  <2>1. IsQueue(<<>>)
    <3>1. <<>> \in Seq({})
      OBVIOUS
    <3>2. QED
      BY <3>1 DEF IsQueue
  <2>2. QED
    BY <2>1 DEF Init, Core!Init, LoadInv
<1>2. LoadInv => NoStuckLoad
  BY DEF LoadInv, LoadOpen, LoadAsked, UnderWay, Answered, Conclusive, NoStuckLoad
<1>3. QED
  BY <1>1, <1>2, LoadNext, PTL DEF Spec

-----------------------------------------------------------------------------
(***************************************************************************)
(* The pause state.  `Final` is what requests s make of a core whose pause *)
(* property is c: the last pause request decides, if there is one.         *)
(***************************************************************************)
Pauses(s) == {i \in DOMAIN s : s[i].op = "pause"}

LastPause(s, i) == i \in Pauses(s) /\ \A j \in Pauses(s) : i >= j

Final(s, c, v) ==
    \/ Pauses(s) = {} /\ v = c
    \/ \E i \in Pauses(s) : LastPause(s, i) /\ v = s[i].value

PauseInv ==
    /\ IsQueue(cmds)
    /\ \E v : /\ Final(cmds, corePaused, v)
              /\ paused = v \/ published # v \/ fresh

LEMMA FinalAfterPause ==
    ASSUME NEW s, IsQueue(s), NEW c, NEW v
    PROVE  IsQueue(Append(s, Core!SetPause(v))) /\ Final(Append(s, Core!SetPause(v)), c, v)
<1> DEFINE t == Append(s, Core!SetPause(v))
           n == Len(s) + 1
<1>1. IsQueue(t) /\ Len(s) \in Nat /\ DOMAIN t = 1 .. n /\ t[n] = Core!SetPause(v)
  BY QueueAppend
<1>2. t[n].op = "pause" /\ t[n].value = v
  BY <1>1 DEF Core!SetPause
<1> HIDE DEF t
<1>3. n \in Pauses(t) /\ LastPause(t, n)
  BY <1>1, <1>2 DEF LastPause, Pauses
<1>4. Final(t, c, v)
  BY <1>2, <1>3 DEF Final
<1>5. QED
  BY <1>1, <1>4 DEF t

LEMMA FinalAfterOther ==
    ASSUME NEW s, IsQueue(s), NEW e, e.op # "pause", NEW c, NEW v, Final(s, c, v)
    PROVE  IsQueue(Append(s, e)) /\ Final(Append(s, e), c, v)
<1> DEFINE t == Append(s, e)
<1>1. /\ IsQueue(t) /\ Len(s) \in Nat
      /\ DOMAIN s = 1 .. Len(s) /\ DOMAIN t = 1 .. Len(s) + 1
      /\ \A i \in 1 .. Len(s) : t[i] = s[i]
      /\ t[Len(s) + 1] = e
  BY QueueAppend
<1> HIDE DEF t
<1>2. Pauses(t) = Pauses(s)
  BY <1>1 DEF Pauses
<1>3. \A i \in Pauses(s) : t[i] = s[i]
  BY <1>1 DEF Pauses
<1>4. Final(t, c, v)
  BY <1>2, <1>3 DEF Final, LastPause
<1>5. QED
  BY <1>1, <1>4 DEF t

\* Executing the first request changes the core and not what it will end with.
LEMMA FinalAfterExec ==
    ASSUME NEW s, IsQueue(s), s # <<>>, NEW c, NEW v, Final(s, c, v)
    PROVE  /\ IsQueue(Tail(s))
           /\ Head(s).op = "pause" => Final(Tail(s), Head(s).value, v)
           /\ Head(s).op # "pause" => Final(Tail(s), c, v)
<1> DEFINE t == Tail(s)
<1>1. /\ IsQueue(t) /\ Len(s) \in Nat \ {0}
      /\ DOMAIN s = 1 .. Len(s) /\ DOMAIN t = 1 .. Len(s) - 1
      /\ Head(s) = s[1]
      /\ \A i \in 1 .. Len(s) - 1 : t[i] = s[i + 1]
  BY QueueTail
<1> HIDE DEF t
<1>2. \A i \in DOMAIN s : i # 1 => (i - 1 \in DOMAIN t /\ t[i - 1] = s[i])
  BY <1>1
<1>3. \A i \in DOMAIN t : i \in Int /\ i + 1 \in DOMAIN s /\ t[i] = s[i + 1]
  BY <1>1
<1>4. CASE Pauses(s) = {}
  <2>1. Head(s).op # "pause" /\ Pauses(t) = {} /\ v = c
    BY <1>1, <1>3, <1>4 DEF Pauses, Final
  <2>2. QED
    BY <1>1, <2>1 DEF Final, t
<1>5. ASSUME NEW i \in Pauses(s), LastPause(s, i), v = s[i].value
      PROVE  /\ Head(s).op = "pause" => Final(t, Head(s).value, v)
             /\ Head(s).op # "pause" => Final(t, c, v)
  <2>1. CASE i = 1
    <3>1. Head(s).op = "pause" /\ v = Head(s).value
      BY <1>1, <1>5, <2>1 DEF Pauses
    <3>2. Pauses(t) = {}
      <4> SUFFICES ASSUME NEW k \in DOMAIN t, t[k].op = "pause" PROVE FALSE
        BY DEF Pauses
      <4>1. k + 1 \in Pauses(s) /\ k \in Nat \ {0}
        BY <1>1, <1>3 DEF Pauses
      <4>2. QED
        BY <1>5, <2>1, <4>1 DEF LastPause
    <3>3. QED
      BY <3>1, <3>2 DEF Final
  <2>2. CASE i # 1
    <3>1. i - 1 \in Pauses(t) /\ v = t[i - 1].value
      BY <1>2, <1>5, <2>2 DEF Pauses
    <3>2. LastPause(t, i - 1)
      <4> SUFFICES ASSUME NEW k \in Pauses(t) PROVE i - 1 >= k
        BY <3>1 DEF LastPause
      <4>1. k + 1 \in Pauses(s) /\ k \in Int
        BY <1>3 DEF Pauses
      <4>2. i >= k + 1 /\ i \in Int
        BY <1>1, <1>5, <4>1 DEF LastPause, Pauses
      <4>3. QED
        BY <4>1, <4>2
    <3>3. QED
      BY <3>1, <3>2 DEF Final
  <2>3. QED
    BY <2>1, <2>2
<1>6. QED
  BY <1>1, <1>4, <1>5 DEF Final, t

-----------------------------------------------------------------------------
(* Steps of the transport.                                                   *)
SamePause == UNCHANGED <<corePaused, published, fresh>>

LEMMA PauseSame ==
    ASSUME PauseInv, SamePause, UNCHANGED <<cmds, paused>>
    PROVE  PauseInv'
BY DEF PauseInv, SamePause, Final, LastPause, Pauses

LEMMA PauseAsked ==
    ASSUME PauseInv, SamePause, NEW value, AskPause(value)
    PROVE  PauseInv'
<1>1. IsQueue(cmds)
  BY DEF PauseInv
<1>2. IsQueue(cmds') /\ Final(cmds', corePaused', value) /\ paused' = value
  BY <1>1, FinalAfterPause DEF AskPause
<1>3. QED
  BY <1>2 DEF PauseInv, Final, LastPause, Pauses

LEMMA OtherAsked ==
    ASSUME PauseInv, SamePause, UNCHANGED paused,
           NEW e, e.op # "pause", cmds' = Append(cmds, e)
    PROVE  PauseInv'
<1>1. PICK v : Final(cmds, corePaused, v) /\ (paused = v \/ published # v \/ fresh)
  BY DEF PauseInv
<1>2. IsQueue(cmds') /\ Final(cmds', corePaused', v)
  BY <1>1, FinalAfterOther DEF PauseInv, SamePause
<1>3. QED
  BY <1>1, <1>2 DEF PauseInv, SamePause, Final, LastPause, Pauses

LEMMA PlayPause == PauseInv /\ SamePause /\ Play => PauseInv'
<1> SUFFICES ASSUME PauseInv, SamePause, Play PROVE PauseInv'
  OBVIOUS
<1>1. CASE UNCHANGED <<cmds, paused>>
  BY <1>1, PauseSame
<1>2. CASE AskPause(FALSE)
  BY <1>2, PauseAsked
<1>3. CASE cmds' = Append(cmds, Core!LoadFile(currentFile)) /\ UNCHANGED paused
  BY <1>3, OtherAsked DEF Core!LoadFile
<1>4. QED
  BY <1>1, <1>2, <1>3 DEF Play, transport

LEMMA StopPause == PauseInv /\ SamePause /\ Stop => PauseInv'
BY OtherAsked DEF Stop, Core!StopPlayback

LEMMA LoadPause ==
    ASSUME PauseInv, SamePause, NEW file, LoadAndPlay(file)
    PROVE  PauseInv'
<1> DEFINE p == Core!SetPause(TRUE)
           l == Core!LoadFile(file)
           s == Append(cmds, p)
<1>1. cmds' = Append(s, l)
  <2>1. cmds' = cmds \o <<p, l>>
    BY DEF LoadAndPlay
  <2> HIDE DEF p, l
  <2>2. IsQueue(cmds)
    BY DEF PauseInv
  <2>3. QED
    BY <2>1, <2>2, AppendTwice
<1>2. IsQueue(s) /\ Final(s, corePaused, TRUE)
  BY FinalAfterPause DEF PauseInv
<1> HIDE DEF s
<1>3. Core!LoadFile(file).op # "pause"
  BY DEF Core!LoadFile
<1>4. IsQueue(cmds') /\ Final(cmds', corePaused', TRUE) /\ paused' = TRUE
  BY <1>1, <1>2, <1>3, FinalAfterOther DEF SamePause, LoadAndPlay
<1>5. QED
  BY <1>4 DEF PauseInv, Final, LastPause, Pauses

LEMMA HeardPause == PauseInv /\ SamePause /\ Heard => PauseInv'
<1> SUFFICES ASSUME PauseInv, SamePause, Heard PROVE PauseInv'
  OBVIOUS
<1>1. CASE Stop
  BY <1>1, StopPause
<1>2. CASE UNCHANGED <<transport, cmds>>
  BY <1>2, PauseSame DEF transport
<1>3. QED
  BY <1>1, <1>2 DEF Heard

LEMMA UserPause == PauseInv /\ User => PauseInv'
<1> SUFFICES ASSUME PauseInv, User PROVE PauseInv'
  OBVIOUS
<1>1. SamePause
  BY DEF User, EditPlaylist, TogglePlayPause, PressStop, SetGaplessEnabled, Act,
         core, SamePause
<1>2. CASE EditPlaylist
  BY <1>1, <1>2, HeardPause DEF EditPlaylist
<1>3. CASE TogglePlayPause
  BY <1>1, <1>3, PlayPause, PauseAsked DEF TogglePlayPause, Pause
<1>4. CASE PressStop
  BY <1>1, <1>4, StopPause DEF PressStop
<1>5. CASE SetGaplessEnabled
  BY <1>1, <1>5, PauseSame DEF SetGaplessEnabled, transport
<1>6. QED
  BY <1>2, <1>3, <1>4, <1>5 DEF User

LEMMA LoopPause == PauseInv /\ Loop => PauseInv'
<1> SUFFICES ASSUME PauseInv, Loop PROVE PauseInv'
  OBVIOUS
<1>1. SamePause
  BY DEF Loop, AddFile, TrackSelected, SyncTimeout, Tick, core, SamePause
<1>2. CASE AddFile
  BY <1>1, <1>2, HeardPause DEF AddFile
<1>3. CASE TrackSelected
  <2>1. CASE UNCHANGED <<transport, cmds>>
    BY <1>1, <2>1, PauseSame DEF transport
  <2>2. CASE LoadAndPlay(Head(posted)) \/ Play
    BY <1>1, <2>2, LoadPause, PlayPause
  <2>3. QED
    BY <1>3, <2>1, <2>2 DEF TrackSelected
<1>4. CASE SyncTimeout \/ Tick
  BY <1>1, <1>4, PauseSame DEF SyncTimeout, Tick, transport
<1>5. QED
  BY <1>2, <1>3, <1>4 DEF Loop

\* A report is believed; when it is older than the last request, another one
\* is still to be made.
LEMMA HandlerPause == PauseInv /\ Handler => PauseInv'
<1> SUFFICES ASSUME PauseInv, Handler PROVE PauseInv'
  OBVIOUS
<1>1. CASE SyncCheck \/ SyncEdit \/ TickDone
  BY <1>1, PauseSame DEF SyncCheck, SyncEdit, TickDone, core, transport, SamePause
<1>2. CASE PauseChanged
  <2>1. UNCHANGED <<cmds, corePaused, published>> /\ paused' = published
    BY <1>2 DEF PauseChanged, TakePause
  <2>2. QED
    BY <2>1 DEF PauseInv, Final, LastPause, Pauses
<1>3. CASE FileStarted \/ FileLoaded \/ FileEnded
  <2>1. SamePause
    BY <1>3 DEF FileStarted, FileLoaded, FileEnded, Read, SamePause
  <2>2. UNCHANGED <<cmds, paused>>
    BY <1>3 DEF FileStarted, FileLoaded, FileEnded, transport
  <2>3. QED
    BY <2>1, <2>2, PauseSame
<1>4. CASE Release
  BY <1>4, PauseAsked, PauseSame DEF Release, core, SamePause
<1>5. QED
  BY <1>1, <1>2, <1>3, <1>4 DEF Handler

LEMMA CorePause == PauseInv /\ (CoreExec \/ CoreAdvance \/ CorePublish) => PauseInv'
<1> SUFFICES ASSUME PauseInv, CoreExec \/ CoreAdvance \/ CorePublish PROVE PauseInv'
  OBVIOUS
<1>1. UNCHANGED paused
  BY DEF CoreExec, CoreAdvance, CorePublish, CoreDo, transport
<1>2. CASE CoreExec
  <2>1. /\ cmds # <<>> /\ cmds' = Tail(cmds) /\ UNCHANGED <<published, fresh>>
        /\ \/ Head(cmds).op = "pause" /\ corePaused' = Head(cmds).value
           \/ Head(cmds).op # "pause" /\ UNCHANGED corePaused
    BY <1>2 DEF CoreExec, CoreDo, Core!Exec, Core!ExecPause, Core!ExecLoad,
                Core!ExecStop, Core!pauseVars
  <2>2. PICK v : Final(cmds, corePaused, v) /\ (paused = v \/ published # v \/ fresh)
    BY DEF PauseInv
  <2>3. IsQueue(cmds') /\ Final(cmds', corePaused', v)
    BY <2>1, <2>2, FinalAfterExec DEF PauseInv
  <2>4. QED
    BY <1>1, <2>1, <2>2, <2>3 DEF PauseInv, Final, LastPause, Pauses
<1>3. CASE CoreAdvance
  <2>1. SamePause /\ UNCHANGED cmds
    BY <1>3 DEF CoreAdvance, CoreDo, Core!Advance, Core!Unwind, Core!Start, Core!Loaded,
                Core!Fail, Core!Eof, Core!NextEntry, Core!pauseVars, SamePause
  <2>2. QED
    BY <1>1, <2>1, PauseSame
<1>4. CASE CorePublish
  <2>1. fresh' = TRUE /\ UNCHANGED <<cmds, corePaused>>
    BY <1>4 DEF CorePublish, CoreDo, Core!Publish
  <2>2. QED
    BY <2>1 DEF PauseInv, Final, LastPause, Pauses
<1>5. QED
  BY <1>2, <1>3, <1>4

LEMMA PauseNext == PauseInv /\ [Next]_vars => PauseInv'
<1> SUFFICES ASSUME PauseInv, [Next]_vars PROVE PauseInv'
  OBVIOUS
<1>1. CASE Vanish \/ UNCHANGED vars
  BY <1>1, PauseSame DEF Vanish, vars, core, transport, SamePause
<1>2. QED
  BY <1>1, UserPause, LoopPause, HandlerPause, CorePause DEF Next

LEMMA MaxIs ==
    ASSUME NEW S, S \subseteq Int, NEW m \in S, \A x \in S : m >= x
    PROVE  Max(S) = m
<1> DEFINE P(x) == x \in S /\ \A y \in S : x >= y
<1>1. P(m)
  OBVIOUS
<1>2. Max(S) = CHOOSE x : P(x)
  BY DEF Max
<1>3. P(Max(S))
  BY <1>1, <1>2
<1>4. m >= Max(S) /\ Max(S) >= m /\ m \in Int /\ Max(S) \in Int
  BY <1>3
<1>5. QED
  BY <1>4

LEMMA PauseInit == Init => PauseInv
<1> SUFFICES ASSUME Init PROVE PauseInv
  OBVIOUS
<1>1. cmds = <<>> /\ fresh
  BY DEF Init, Core!Init
<1>2. IsQueue(cmds) /\ Pauses(cmds) = {}
  <2>1. <<>> \in Seq({})
    OBVIOUS
  <2>2. QED
    BY <1>1, <2>1 DEF IsQueue, Pauses
<1>3. Final(cmds, corePaused, corePaused)
  BY <1>2 DEF Final
<1>4. QED
  BY <1>1, <1>2, <1>3 DEF PauseInv

\* The player's pause state never settles on an obsolete value: as long as it is
\* not what the core will end with, a report is on its way or still to be made.
THEOREM PauseNeverObsolete == Spec => []PauseViewSound
<1>1. Init => PauseInv
  BY PauseInit
<1>2. PauseInv => PauseViewSound
  <2> SUFFICES ASSUME PauseInv PROVE PauseViewSound
    OBVIOUS
  <2>1. PICK v : Final(cmds, corePaused, v) /\ (paused = v \/ published # v \/ fresh)
    BY DEF PauseInv
  <2>2. Pauses(cmds) = PausesAsked /\ Pauses(cmds) \subseteq Int
    BY DEF PauseInv, IsQueue, Pauses, PausesAsked
  <2>3. v = FinalPause
    BY <2>1, <2>2, MaxIs DEF Final, LastPause, FinalPause
  <2>4. QED
    BY <2>1, <2>3 DEF PauseViewSound
<1>3. QED
  BY <1>1, <1>2, PauseNext, PTL DEF Spec

-----------------------------------------------------------------------------
(***************************************************************************)
(* Without gapless mode: when all is quiet, what the player believes of    *)
(* the core is right.                                                      *)
(*                                                                         *)
(* Events that were sent before the last request are read after it, and    *)
(* change the player's flags for a while.  What counts is the newest event *)
(* there is: the stage of the core tells which one it must be, and when it *)
(* has been read the flags are those of that stage.                        *)
(***************************************************************************)

\* Gapless mode is off and stays off.
TrackByTrack == GaplessModes \subseteq {FALSE} /\ "gapless" \notin UserActions

\* Then nothing is ever queued behind the entry that plays, ...
NoQueue == gaplessEnabled = FALSE /\ queuedFiles = <<>> /\ ~Editing

\* ... which is the only one, ...
OneEntry ==
    /\ stage \in Core!Stage
    /\ list = <<>> \/ \E f : f # NoFile /\ list = <<[file |-> f, known |-> FALSE]>>
    /\ stage \in {"pending", "opening", "loaded", "replacing"} => list # <<>>
    /\ stage \in {"opening", "loaded"} => playing = list[1].file

\* ... and no id is ever remembered.
UnknownStart(f) == [kind |-> "start", entry |-> [file |-> f, known |-> FALSE]]
Unnamed ==
    /\ startedFile = NoFile
    /\ \A i \in DOMAIN events : events[i].kind = "start" => \E f : events[i] = UnknownStart(f)

\* Only files are selected and loaded.
LoadsFiles(s) == \A i \in DOMAIN s : s[i].op = "load" => s[i].file # NoFile
NoNoFile(s) == \A i \in DOMAIN s : s[i] # NoFile

\* A load or a stop has been asked for.
Asks(s) == \E i \in DOMAIN s : s[i].op # "pause"

NewestIs(s, kind) == s # <<>> /\ s[Len(s)].kind = kind

Seen ==
    /\ loadPending => ~fileLoaded
    /\ stage \in {"idle", "pending"} =>
          NewestIs(events, "end") \/ (events = <<>> /\ ~fileLoaded)
    /\ stage = "loaded" =>
          \/ Asks(cmds) \/ NewestIs(events, "loaded")
          \/ events = <<>> /\ fileLoaded /\ currentFile = playing

Queues == IsQueue(cmds) /\ IsQueue(events) /\ IsQueue(posted)

ViewInv ==
    /\ Queues /\ NoQueue /\ OneEntry /\ Unnamed /\ Seen
    /\ LoadsFiles(cmds) /\ NoNoFile(posted)

-----------------------------------------------------------------------------
(* Queues.                                                                   *)

LEMMA RequestAppended ==
    ASSUME NEW s, IsQueue(s), LoadsFiles(s), NEW e, e.op = "load" => e.file # NoFile
    PROVE  /\ IsQueue(Append(s, e)) /\ LoadsFiles(Append(s, e))
           /\ Asks(s) \/ e.op # "pause" => Asks(Append(s, e))
<1> DEFINE t == Append(s, e)
<1>1. /\ IsQueue(t) /\ Len(s) \in Nat
      /\ DOMAIN s = 1 .. Len(s) /\ DOMAIN t = 1 .. Len(s) + 1
      /\ \A i \in 1 .. Len(s) : t[i] = s[i]
      /\ t[Len(s) + 1] = e
  BY QueueAppend
<1> HIDE DEF t
<1>2. \A i \in DOMAIN t : t[i] = e \/ (i \in DOMAIN s /\ t[i] = s[i])
  BY <1>1
<1>3. \A i \in DOMAIN s : i \in DOMAIN t /\ t[i] = s[i]
  BY <1>1
<1>4. LoadsFiles(t)
  BY <1>2 DEF LoadsFiles
<1>5. Len(s) + 1 \in DOMAIN t
  BY <1>1
<1>6. Asks(s) \/ e.op # "pause" => Asks(t)
  BY <1>1, <1>3, <1>5 DEF Asks
<1>7. QED
  BY <1>1, <1>4, <1>6 DEF t

LEMMA RequestTaken ==
    ASSUME NEW s, IsQueue(s), s # <<>>, LoadsFiles(s)
    PROVE  /\ IsQueue(Tail(s)) /\ LoadsFiles(Tail(s))
           /\ Head(s).op = "load" => Head(s).file # NoFile
           /\ Head(s).op = "pause" /\ Asks(s) => Asks(Tail(s))
<1> DEFINE t == Tail(s)
<1>1. /\ IsQueue(t) /\ Len(s) \in Nat \ {0}
      /\ DOMAIN s = 1 .. Len(s) /\ DOMAIN t = 1 .. Len(s) - 1
      /\ Head(s) = s[1]
      /\ \A i \in 1 .. Len(s) - 1 : t[i] = s[i + 1]
  BY QueueTail
<1> HIDE DEF t
<1>2. \A i \in DOMAIN s : i = 1 \/ (i - 1 \in DOMAIN t /\ t[i - 1] = s[i])
  BY <1>1
<1>3. \A i \in DOMAIN t : i + 1 \in DOMAIN s /\ t[i] = s[i + 1]
  BY <1>1
<1>4. LoadsFiles(t)
  BY <1>3 DEF LoadsFiles
<1>5. Head(s).op = "pause" /\ Asks(s) => Asks(t)
  BY <1>1, <1>2 DEF Asks
<1>6. Head(s).op = "load" => Head(s).file # NoFile
  BY <1>1 DEF LoadsFiles
<1>7. QED
  BY <1>1, <1>4, <1>5, <1>6 DEF t

LEMMA SelectionAppended ==
    ASSUME NEW s, IsQueue(s), NoNoFile(s), NEW f, f # NoFile
    PROVE  IsQueue(Append(s, f)) /\ NoNoFile(Append(s, f))
<1>1. /\ IsQueue(Append(s, f)) /\ Len(s) \in Nat
      /\ DOMAIN s = 1 .. Len(s) /\ DOMAIN Append(s, f) = 1 .. Len(s) + 1
      /\ \A i \in 1 .. Len(s) : Append(s, f)[i] = s[i]
      /\ Append(s, f)[Len(s) + 1] = f
  BY QueueAppend
<1>2. \A i \in DOMAIN Append(s, f) :
         Append(s, f)[i] = f \/ (i \in DOMAIN s /\ Append(s, f)[i] = s[i])
  BY <1>1
<1>3. QED
  BY <1>1, <1>2 DEF NoNoFile

LEMMA SelectionTaken ==
    ASSUME NEW s, IsQueue(s), s # <<>>, NoNoFile(s)
    PROVE  IsQueue(Tail(s)) /\ NoNoFile(Tail(s)) /\ Head(s) # NoFile
<1>1. /\ IsQueue(Tail(s)) /\ Len(s) \in Nat \ {0}
      /\ DOMAIN s = 1 .. Len(s) /\ DOMAIN Tail(s) = 1 .. Len(s) - 1
      /\ Head(s) = s[1]
      /\ \A i \in 1 .. Len(s) - 1 : Tail(s)[i] = s[i + 1]
  BY QueueTail
<1>2. \A i \in DOMAIN Tail(s) : i + 1 \in DOMAIN s /\ Tail(s)[i] = s[i + 1]
  BY <1>1
<1>3. QED
  BY <1>1, <1>2 DEF NoNoFile

\* Reading the first event leaves the newest one the newest, unless it was it.
LEMMA EventRead ==
    ASSUME NEW s, IsQueue(s), s # <<>>
    PROVE  /\ IsQueue(Tail(s))
           /\ \A kind : NewestIs(s, kind) =>
                 \/ NewestIs(Tail(s), kind)
                 \/ Tail(s) = <<>> /\ Head(s).kind = kind
           /\ \A i \in DOMAIN Tail(s) : \E j \in DOMAIN s : Tail(s)[i] = s[j]
           /\ \E j \in DOMAIN s : Head(s) = s[j]
<1> DEFINE t == Tail(s)
<1>1. /\ IsQueue(t) /\ Len(s) \in Nat \ {0}
      /\ DOMAIN s = 1 .. Len(s) /\ DOMAIN t = 1 .. Len(s) - 1 /\ Len(t) = Len(s) - 1
      /\ Head(s) = s[1]
      /\ \A i \in 1 .. Len(s) - 1 : t[i] = s[i + 1]
  BY QueueTail
<1>2. t = <<>> <=> Len(t) = 0
  BY <1>1 DEF IsQueue
<1> HIDE DEF t
<1>3. ASSUME NEW kind, NewestIs(s, kind)
      PROVE  NewestIs(t, kind) \/ (t = <<>> /\ Head(s).kind = kind)
  <2>1. CASE Len(s) = 1
    BY <1>1, <1>2, <1>3, <2>1 DEF NewestIs
  <2>2. CASE Len(s) # 1
    <3>1. t # <<>> /\ t[Len(t)] = s[Len(s)]
      BY <1>1, <1>2, <2>2
    <3>2. QED
      BY <1>3, <3>1 DEF NewestIs
  <2>3. QED
    BY <2>1, <2>2
<1>5. \A i \in DOMAIN t : i + 1 \in DOMAIN s /\ t[i] = s[i + 1]
  BY <1>1
<1>6. 1 \in DOMAIN s
  BY <1>1
<1>7. QED
  BY <1>1, <1>3, <1>5, <1>6 DEF t

LEMMA EventSent ==
    ASSUME NEW s, IsQueue(s), NEW e
    PROVE  /\ IsQueue(Append(s, e)) /\ NewestIs(Append(s, e), e.kind)
           /\ \A i \in DOMAIN Append(s, e) :
                 Append(s, e)[i] = e \/ \E j \in DOMAIN s : Append(s, e)[i] = s[j]
<1>1. /\ IsQueue(Append(s, e)) /\ Len(s) \in Nat
      /\ DOMAIN s = 1 .. Len(s) /\ DOMAIN Append(s, e) = 1 .. Len(s) + 1
      /\ Len(Append(s, e)) = Len(s) + 1
      /\ \A i \in 1 .. Len(s) : Append(s, e)[i] = s[i]
      /\ Append(s, e)[Len(s) + 1] = e
  BY QueueAppend
<1>2. Append(s, e) # <<>>
  BY <1>1
<1>3. \A i \in DOMAIN Append(s, e) :
         Append(s, e)[i] = e \/ (i \in DOMAIN s /\ Append(s, e)[i] = s[i])
  BY <1>1
<1>4. QED
  BY <1>1, <1>2, <1>3 DEF NewestIs

-----------------------------------------------------------------------------
(* Steps of the GUI thread.                                                  *)
SameCore == UNCHANGED <<list, stage, playing, events, gaplessEnabled, startedFile>>

LEMMA ForgetEntry ==
    ASSUME NEW f, NEW e, e = [file |-> f, known |-> FALSE]
    PROVE  [e EXCEPT !.known = FALSE] = e
<1>1. e \in [file : {f}, known : BOOLEAN] /\ e.known = FALSE
  OBVIOUS
<1>2. QED
  BY ONLY <1>1

LEMMA ForgetStart ==
    ASSUME NEW f, NEW e, e = UnknownStart(f)
    PROVE  [e EXCEPT !.entry.known = FALSE] = e
<1>1. /\ e \in [kind : {"start"}, entry : [file : {f}, known : BOOLEAN]]
      /\ e.entry.known = FALSE
  BY DEF UnknownStart
<1>2. QED
  BY ONLY <1>1

LEMMA ForgetsNothing ==
    ASSUME ViewInv, Core!ForgetEntries
    PROVE  UNCHANGED <<list, events>>
<1>1. list' = list
  <2>1. CASE list = <<>>
    BY <2>1 DEF Core!ForgetEntries, Core!Unknown
  <2>2. ASSUME NEW f, list = <<[file |-> f, known |-> FALSE]>>
        PROVE  list' = list
    <3>1. DOMAIN list = {1} /\ list[1] = [file |-> f, known |-> FALSE]
      BY <2>2
    <3>2. list' = [i \in {1} |-> [list[i] EXCEPT !.known = FALSE]]
      BY <3>1 DEF Core!ForgetEntries, Core!Unknown
    <3>3. [list[1] EXCEPT !.known = FALSE] = list[1]
      BY <3>1, ForgetEntry
    <3>4. list' = [i \in {1} |-> list[i]]
      BY <3>2, <3>3
    <3>5. list = [i \in {1} |-> list[i]]
      <4> DEFINE e == [file |-> f, known |-> FALSE]
      <4>1. list = <<e>> /\ list[1] = e
        BY <2>2
      <4> HIDE DEF e
      <4>2. QED
        BY <4>1
    <3>6. QED
      BY <3>4, <3>5
  <2>3. QED
    BY <2>1, <2>2 DEF ViewInv, OneEntry
<1>2. events' = events
  <2>1. ASSUME NEW i \in DOMAIN events, events[i].kind = "start"
        PROVE  [events[i] EXCEPT !.entry.known = FALSE] = events[i]
    <3>1. PICK f : events[i] = UnknownStart(f)
      BY <2>1 DEF ViewInv, Unnamed
    <3>2. QED
      BY <3>1, ForgetStart
  <2>2. events' = [i \in DOMAIN events |-> events[i]]
    BY <2>1 DEF Core!ForgetEntries
  <2>3. PICK S : events \in Seq(S)
    BY DEF ViewInv, Queues, IsQueue
  <2>4. QED
    BY <2>2, <2>3
<1>3. QED
  BY <1>1, <1>2

\* Whatever part of the transport runs, the core has not seen it yet.
LEMMA AskedView ==
    ASSUME ViewInv, SameCore, ~Editing', IsQueue(posted'), NoNoFile(posted'),
           UNCHANGED <<currentFile, fileLoaded, loadPending, queuedFiles>>,
           NEW e, e.op = "load" => e.file # NoFile, cmds' = Append(cmds, e)
    PROVE  ViewInv'
<1>1. IsQueue(cmds') /\ LoadsFiles(cmds') /\ (Asks(cmds) => Asks(cmds'))
  BY RequestAppended DEF ViewInv, Queues
<1>2. QED
  BY <1>1 DEF ViewInv, Queues, NoQueue, OneEntry, Unnamed, Seen, SameCore, LoadsFiles, NoNoFile, Asks,
         NewestIs, UnknownStart

LEMMA UnloadedView ==
    ASSUME ViewInv, SameCore, ~Editing', IsQueue(posted'), NoNoFile(posted'),
           fileLoaded' = FALSE, queuedFiles' = <<>>,
           IsQueue(cmds'), LoadsFiles(cmds'), Asks(cmds')
    PROVE  ViewInv'
BY DEF ViewInv, Queues, NoQueue, OneEntry, Unnamed, Seen, SameCore, LoadsFiles, NoNoFile, Asks, NewestIs,
       UnknownStart

LEMMA SameView ==
    ASSUME ViewInv, SameCore, ~Editing', IsQueue(posted'), NoNoFile(posted'),
           UNCHANGED <<cmds, currentFile, fileLoaded, loadPending, queuedFiles>>
    PROVE  ViewInv'
BY DEF ViewInv, Queues, NoQueue, OneEntry, Unnamed, Seen, SameCore, LoadsFiles, NoNoFile, Asks, NewestIs,
       UnknownStart

LEMMA PlayView ==
    ASSUME ViewInv, SameCore, ~Editing', IsQueue(posted'), NoNoFile(posted'), Play
    PROVE  ViewInv'
<1>1. CASE UNCHANGED <<cmds, currentFile, fileLoaded, loadPending, queuedFiles>>
  BY <1>1, SameView
<1>2. CASE AskPause(FALSE) /\ UNCHANGED <<currentFile, fileLoaded, loadPending, queuedFiles>>
  BY <1>2, AskedView DEF AskPause, Core!SetPause
<1>3. CASE /\ ~fileLoaded /\ loadPending /\ loadPending' = TRUE
           /\ UNCHANGED <<cmds, currentFile, fileLoaded, queuedFiles>>
  <2>1. loadPending' => ~fileLoaded'
    BY <1>3
  <2>2. QED
    BY <1>3, <2>1 DEF ViewInv, Queues, NoQueue, OneEntry, Unnamed, Seen, SameCore, LoadsFiles,
       NoNoFile, Asks, NewestIs, UnknownStart
<1>4. CASE /\ currentFile # NoFile /\ ~fileLoaded /\ UNCHANGED fileLoaded
           /\ cmds' = Append(cmds, Core!LoadFile(currentFile)) /\ queuedFiles' = <<>>
  <2>1. Core!LoadFile(currentFile).op # "pause" /\ Core!LoadFile(currentFile).file # NoFile
    BY <1>4 DEF Core!LoadFile
  <2>2. IsQueue(cmds') /\ LoadsFiles(cmds') /\ Asks(cmds')
    BY <1>4, <2>1, RequestAppended DEF ViewInv, Queues
  <2>3. loadPending' => ~fileLoaded'
    BY <1>4
  <2>4. stage \in {"idle", "pending"} =>
           NewestIs(events, "end") \/ (events = <<>> /\ ~fileLoaded)
    BY DEF ViewInv, Seen
  <2>5. Seen'
    BY <1>4, <2>2, <2>3, <2>4 DEF Seen, SameCore, NewestIs
  <2>6. QED
    BY <1>4, <2>2, <2>5 DEF ViewInv, Queues, NoQueue, OneEntry, Unnamed, SameCore, UnknownStart
<1>5. QED
  BY <1>1, <1>2, <1>3, <1>4 DEF Play, transport

LEMMA PauseView ==
    ASSUME ViewInv, SameCore, ~Editing', UNCHANGED posted, Pause
    PROVE  ViewInv'
<1>1. IsQueue(posted') /\ NoNoFile(posted')
  BY DEF ViewInv, Queues
<1>2. QED
  BY <1>1, AskedView DEF Pause, AskPause, Core!SetPause

LEMMA StopView ==
    ASSUME ViewInv, SameCore, ~Editing', IsQueue(posted'), NoNoFile(posted'), Stop
    PROVE  ViewInv'
<1>1. IsQueue(cmds') /\ LoadsFiles(cmds') /\ Asks(cmds')
  BY RequestAppended DEF ViewInv, Queues, Stop, Core!StopPlayback
<1>2. QED
  BY <1>1, UnloadedView DEF Stop, Unload

LEMMA LoadView ==
    ASSUME ViewInv, UNCHANGED <<stage, playing, gaplessEnabled, startedFile>>, ~Editing',
           IsQueue(posted'), NoNoFile(posted'), NEW file, file # NoFile, LoadAndPlay(file)
    PROVE  ViewInv'
<1> DEFINE p == Core!SetPause(TRUE)
           l == Core!LoadFile(file)
           s == Append(cmds, p)
<1>1. IsQueue(cmds) /\ LoadsFiles(cmds)
  BY DEF ViewInv, Queues
<1>2. cmds' = cmds \o <<p, l>>
  BY DEF LoadAndPlay
<1>3. p.op = "pause" /\ l.op = "load" /\ l.file = file
  BY DEF Core!SetPause, Core!LoadFile
<1> HIDE DEF p, l
<1>4. cmds' = Append(s, l)
  BY <1>1, <1>2, AppendTwice
<1>5. IsQueue(s) /\ LoadsFiles(s)
  BY <1>1, <1>3, RequestAppended
<1> HIDE DEF s
<1>6. IsQueue(cmds') /\ LoadsFiles(cmds') /\ Asks(cmds')
  BY <1>3, <1>4, <1>5, RequestAppended
<1>7. SameCore
  BY ForgetsNothing DEF LoadAndPlay, SameCore
<1>8. QED
  BY <1>6, <1>7, UnloadedView DEF LoadAndPlay, Unload

LEMMA PostedView ==
    ASSUME ViewInv
    PROVE  \A s : IsQueue(Posted(s)) /\ NoNoFile(Posted(s))
BY SelectionAppended DEF ViewInv, Queues, Posted

LEMMA HeardView ==
    ASSUME ViewInv, SameCore, ~Editing', Heard
    PROVE  ViewInv'
<1>1. IsQueue(posted') /\ NoNoFile(posted')
  BY PostedView DEF Heard
<1>2. CASE Stop
  BY <1>1, <1>2, StopView
<1>3. CASE UNCHANGED <<transport, cmds>>
  BY <1>1, <1>3, SameView DEF transport
<1>4. QED
  BY <1>2, <1>3 DEF Heard

LEMMA UserView ==
    ASSUME TrackByTrack, ViewInv, User
    PROVE  ViewInv'
<1>1. ~Editing /\ IsQueue(posted) /\ NoNoFile(posted) /\ pc = "loop"
  BY DEF ViewInv, Queues, NoQueue, User, EditPlaylist, TogglePlayPause, PressStop,
         SetGaplessEnabled, Act, GuiFree
<1>2. CASE EditPlaylist
  <2>1. SameCore /\ ~Editing' /\ Heard
    BY <1>1, <1>2 DEF EditPlaylist, Act, core, thread, SameCore, Editing
  <2>2. QED
    BY <2>1, HeardView
<1>3. CASE TogglePlayPause
  <2>1. SameCore /\ ~Editing' /\ UNCHANGED posted
    BY <1>1, <1>3 DEF TogglePlayPause, Act, core, thread, SameCore, Editing
  <2>2. QED
    BY <1>1, <1>3, <2>1, PlayView, PauseView DEF TogglePlayPause
<1>4. CASE PressStop
  <2>1. SameCore /\ ~Editing' /\ UNCHANGED posted /\ Stop
    BY <1>1, <1>4 DEF PressStop, Act, core, thread, SameCore, Editing
  <2>2. QED
    BY <1>1, <2>1, StopView
<1>5. CASE SetGaplessEnabled
  BY <1>5 DEF SetGaplessEnabled, Act, TrackByTrack
<1>6. QED
  BY <1>2, <1>3, <1>4, <1>5 DEF User

LEMMA LoopView ==
    ASSUME ViewInv, Loop
    PROVE  ViewInv'
<1>1. ~Editing /\ IsQueue(posted) /\ NoNoFile(posted)
  BY DEF ViewInv, Queues, NoQueue
<1>2. CASE AddFile
  <2>1. SameCore /\ ~Editing' /\ Heard
    BY <1>1, <1>2 DEF AddFile, core, thread, SameCore, Editing
  <2>2. QED
    BY <2>1, HeardView
<1>3. CASE TrackSelected
  <2>1. /\ UNCHANGED <<stage, playing, gaplessEnabled, startedFile>> /\ ~Editing'
        /\ posted # <<>> /\ posted' = Tail(posted)
    BY <1>1, <1>3 DEF TrackSelected, thread, Editing
  <2>2. IsQueue(posted') /\ NoNoFile(posted') /\ Head(posted) # NoFile
    BY <1>1, <2>1, SelectionTaken
  <2>3. CASE UNCHANGED <<transport, cmds, list, events>>
    BY <2>1, <2>2, <2>3, SameView DEF transport, SameCore
  <2>4. CASE LoadAndPlay(Head(posted))
    BY <2>1, <2>2, <2>4, LoadView
  <2>5. CASE Play /\ UNCHANGED <<list, events>>
    BY <2>1, <2>2, <2>5, PlayView DEF SameCore
  <2>6. QED
    BY <1>3, <2>3, <2>4, <2>5 DEF TrackSelected
<1>4. CASE SyncTimeout
  BY <1>1, <1>4, SameView DEF SyncTimeout, core, transport, SameCore, Editing
<1>5. CASE Tick
  BY <1>1, <1>5, SameView DEF Tick, core, transport, SameCore, Editing
<1>6. QED
  BY <1>2, <1>3, <1>4, <1>5 DEF Loop

\* Without gapless mode the queue of the core is empty as it should be, and is
\* never edited.
LEMMA SyncView ==
    ASSUME ViewInv, SyncCheck \/ SyncEdit
    PROVE  ViewInv'
<1>1. ~Editing /\ IsQueue(posted) /\ NoNoFile(posted) /\ WantedNext = queuedFiles
  BY DEF ViewInv, Queues, NoQueue, WantedNext
<1>2. SyncCheck /\ ~SyncNeeded
  BY <1>1 DEF SyncCheck, SyncEdit, SyncNeeded, Editing
<1>3. ~Editing' /\ UNCHANGED <<core, cmds, transport, gaplessEnabled, startedFile, posted>>
  BY <1>2 DEF SyncCheck, SyncDone, Editing
<1>4. QED
  BY <1>1, <1>3, SameView DEF core, transport, SameCore

\* What reading any event does to the queue.
LEMMA ReadView ==
    ASSUME ViewInv, NEW kind, Read(kind)
    PROVE  /\ UNCHANGED <<list, stage, playing, gaplessEnabled>>
           /\ events # <<>> /\ Head(events).kind = kind
           /\ IsQueue(events')
           /\ \A k : NewestIs(events, k) => NewestIs(events', k) \/ (events' = <<>> /\ k = kind)
           /\ \A i \in DOMAIN events' : events'[i].kind = "start" => \E f : events'[i] = UnknownStart(f)
           /\ kind = "start" => \E f : Head(events) = UnknownStart(f)
<1>1. /\ UNCHANGED <<list, stage, playing, gaplessEnabled>>
      /\ events # <<>> /\ Head(events).kind = kind /\ events' = Tail(events)
  BY DEF Read
<1>2. IsQueue(events)
  BY DEF ViewInv, Queues
<1>3. QED
  BY <1>1, <1>2, EventRead DEF ViewInv, Unnamed

LEMMA FileStartedView ==
    ASSUME ViewInv, FileStarted
    PROVE  ViewInv'
<1>1. Read("start")
  BY DEF FileStarted
<1>2. PICK f : Head(events) = UnknownStart(f)
  BY <1>1, ReadView
<1>3. startedFile' = NoFile
  BY <1>2 DEF FileStarted, UnknownStart
<1>4. fileLoaded' = FALSE
  BY DEF FileStarted, ViewInv, NoQueue, Unload
<1>5. /\ NewestIs(events, "end") => NewestIs(events', "end")
      /\ NewestIs(events, "loaded") => NewestIs(events', "loaded")
      /\ events # <<>>
  BY <1>1, ReadView
<1>6. /\ IsQueue(cmds') /\ IsQueue(posted') /\ LoadsFiles(cmds') /\ NoNoFile(posted')
      /\ UNCHANGED <<cmds, queuedFiles, stage, pc>>
  BY DEF FileStarted, Read, ViewInv, Queues, thread
<1>7. Seen'
  BY <1>4, <1>5, <1>6 DEF Seen, ViewInv
<1>8. QED
  BY <1>1, <1>3, <1>6, <1>7, ReadView DEF ViewInv, Queues, NoQueue, OneEntry, Unnamed, Editing

LEMMA FileLoadedView ==
    ASSUME ViewInv, FileLoaded
    PROVE  ViewInv'
<1>1. /\ Read("loaded") /\ startedFile = NoFile /\ queuedFiles = <<>>
      /\ UNCHANGED <<cmds, startedFile>> /\ pc' = "sync"
      /\ loadPending' = FALSE /\ fileLoaded' = TRUE
  BY DEF FileLoaded, ViewInv, Unnamed, NoQueue
<1>2. IsQueue(posted') /\ NoNoFile(posted')
  BY PostedView DEF FileLoaded
<1>3. queuedFiles' = <<>>
  BY <1>1 DEF FileLoaded, QueuedAfter, ToSet
<1>4. playing # NoFile => currentFile' = playing
  BY <1>1 DEF FileLoaded
<1>5. stage = "loaded" => playing # NoFile
  BY DEF ViewInv, OneEntry
<1>6. /\ NewestIs(events, "end") => NewestIs(events', "end")
      /\ NewestIs(events, "loaded") => NewestIs(events', "loaded") \/ events' = <<>>
      /\ events # <<>> /\ UNCHANGED <<stage, playing>>
  BY <1>1, ReadView
<1>7. Seen'
  BY <1>1, <1>4, <1>5, <1>6 DEF Seen, ViewInv
<1>8. IsQueue(cmds') /\ LoadsFiles(cmds')
  BY <1>1 DEF ViewInv, Queues
<1>9. QED
  BY <1>1, <1>2, <1>3, <1>7, <1>8, ReadView DEF ViewInv, Queues, NoQueue, OneEntry, Unnamed, Editing

LEMMA FileEndedView ==
    ASSUME ViewInv, FileEnded
    PROVE  ViewInv'
<1>1. /\ Read("end") /\ UNCHANGED <<cmds, startedFile, pc>>
      /\ queuedFiles = <<>>
  BY DEF FileEnded, thread, ViewInv, NoQueue, transport
<1>2. /\ queuedFiles' = <<>> /\ fileLoaded' = FALSE
      /\ IsQueue(posted') /\ NoNoFile(posted')
  <2>1. CASE EndIgnored(Head(events).reason) /\ UNCHANGED <<transport, posted>>
    <3>1. loadPending
      BY <1>1, <2>1 DEF EndIgnored
    <3>2. QED
      BY <1>1, <2>1, <3>1 DEF ViewInv, Queues, Seen, transport
  <2>2. CASE /\ queuedFiles' = <<>> /\ Unload
             /\ posted' = Posted(signals')
    BY <2>2, PostedView DEF Unload
  <2>3. QED
    BY <2>1, <2>2 DEF FileEnded
<1>3. /\ NewestIs(events, "end") => NewestIs(events', "end") \/ events' = <<>>
      /\ NewestIs(events, "loaded") => NewestIs(events', "loaded")
      /\ events # <<>> /\ UNCHANGED <<stage, playing>>
  BY <1>1, ReadView
<1>4. Seen'
  BY <1>1, <1>2, <1>3 DEF Seen, ViewInv
<1>5. IsQueue(cmds') /\ LoadsFiles(cmds')
  BY <1>1 DEF ViewInv, Queues
<1>6. QED
  BY <1>1, <1>2, <1>4, <1>5, ReadView DEF ViewInv, Queues, NoQueue, OneEntry, Unnamed, Editing

LEMMA HandlerView ==
    ASSUME ViewInv, Handler
    PROVE  ViewInv'
<1>1. IsQueue(posted) /\ NoNoFile(posted)
  BY DEF ViewInv, Queues
<1>2. CASE TickDone
  BY <1>1, <1>2, SameView DEF TickDone, core, transport, SameCore, Editing
<1>3. CASE PauseChanged
  <2>1. ~Editing' /\ SameCore
    BY <1>3 DEF PauseChanged, thread, Editing, SameCore
  <2>2. QED
    BY <1>1, <1>3, <2>1, SameView DEF PauseChanged
<1>4. CASE Release
  <2>1. /\ ~Editing' /\ SameCore
        /\ UNCHANGED <<posted, currentFile, fileLoaded, loadPending, queuedFiles>>
    BY <1>4 DEF Release, core, Editing, SameCore
  <2>2. CASE AskPause(FALSE)
    BY <1>1, <2>1, <2>2, AskedView DEF AskPause, Core!SetPause
  <2>3. CASE UNCHANGED cmds
    BY <1>1, <2>1, <2>3, SameView
  <2>4. QED
    BY <1>4, <2>2, <2>3 DEF Release
<1>5. QED
  BY <1>2, <1>3, <1>4, SyncView, FileStartedView, FileLoadedView, FileEndedView DEF Handler

-----------------------------------------------------------------------------
(***************************************************************************)
(* Steps of the core.  Each event it sends is the one its new stage calls  *)
(* for.                                                                    *)
(***************************************************************************)
SameClient == UNCHANGED <<currentFile, fileLoaded, loadPending, queuedFiles,
                          gaplessEnabled, startedFile, posted, pc>>

LEMMA ExecView ==
    ASSUME ViewInv, SameClient, Core!Exec
    PROVE  ViewInv'
<1>1. /\ cmds # <<>> /\ cmds' = Tail(cmds) /\ IsQueue(cmds) /\ LoadsFiles(cmds)
      /\ UNCHANGED <<events, playing>>
  BY DEF ViewInv, Queues, Core!Exec, Core!ExecPause, Core!ExecLoad, Core!ExecStop, Core!player
<1>2. /\ IsQueue(cmds') /\ LoadsFiles(cmds')
      /\ Head(cmds).op = "load" => Head(cmds).file # NoFile
      /\ Head(cmds).op = "pause" /\ Asks(cmds) => Asks(cmds')
  BY <1>1, RequestTaken
<1>3. OneEntry' /\ Seen'
  <2>1. CASE Core!ExecPause
    <3>1. UNCHANGED <<list, stage>> /\ Head(cmds).op = "pause"
      BY <2>1 DEF Core!ExecPause, Core!player
    <3>2. OneEntry'
      BY <1>1, <3>1 DEF ViewInv, OneEntry
    <3>3. Seen'
      BY <1>1, <1>2, <3>1 DEF ViewInv, Seen, SameClient
    <3>4. QED
      BY <3>2, <3>3
  <2>2. CASE Core!ExecLoad
    <3>1. /\ list' = <<[file |-> Head(cmds).file, known |-> FALSE]>>
          /\ Head(cmds).op = "load"
          /\ stage' = IF stage \in {"idle", "pending"} THEN "pending" ELSE "replacing"
      BY <2>2 DEF Core!ExecLoad
    <3>2. list' # <<>> /\ stage' \in Core!Stage
      BY <3>1 DEF Core!Stage
    <3>3. OneEntry'
      BY <1>2, <3>1, <3>2 DEF OneEntry
    <3>4. Seen'
      BY <1>1, <3>1 DEF ViewInv, Seen, SameClient
    <3>5. QED
      BY <3>3, <3>4
  <2>3. CASE Core!ExecStop
    <3>1. /\ list' = <<>>
          /\ stage' = IF stage \in {"idle", "pending"} THEN "idle" ELSE "stopping"
      BY <2>3 DEF Core!ExecStop
    <3>2. OneEntry'
      BY <3>1 DEF OneEntry, Core!Stage
    <3>3. Seen'
      BY <1>1, <3>1 DEF ViewInv, Seen, SameClient
    <3>4. QED
      BY <3>2, <3>3
  <2>4. QED
    BY <2>1, <2>2, <2>3 DEF Core!Exec
<1>4. QED
  BY <1>1, <1>2, <1>3 DEF ViewInv, Queues, NoQueue, Unnamed, SameClient, Editing

\* An event that fits the new stage.
LEMMA SentView ==
    ASSUME ViewInv, SameClient, UNCHANGED cmds, OneEntry',
           NEW e, Core!Emit(e),
           e.kind = "start" => \E f : e = UnknownStart(f),
           stage' \in {"idle", "pending"} => e.kind = "end",
           stage' = "loaded" => e.kind = "loaded"
    PROVE  ViewInv'
<1>1. events' = Append(events, e) /\ IsQueue(events)
  BY DEF Core!Emit, ViewInv, Queues
<1>2. /\ IsQueue(events') /\ NewestIs(events', e.kind)
      /\ \A i \in DOMAIN events' : events'[i] = e \/ \E j \in DOMAIN events : events'[i] = events[j]
  BY <1>1, EventSent
<1>3. Unnamed'
  BY <1>2 DEF Unnamed, ViewInv, SameClient
<1>4. Seen'
  BY <1>2 DEF Seen, ViewInv, SameClient
<1>5. QED
  BY <1>2, <1>3, <1>4 DEF ViewInv, Queues, NoQueue, SameClient, Editing

\* The entry that ends was the last one.
LEMMA NothingFollows ==
    ASSUME ViewInv, stage \in {"opening", "loaded"}, Core!NextEntry
    PROVE  list' = <<>> /\ stage' = "idle" /\ UNCHANGED cmds
<1>1. PICK f : list = <<[file |-> f, known |-> FALSE]>>
  BY DEF ViewInv, OneEntry
<1> DEFINE e == [file |-> f, known |-> FALSE]
<1>2. list = <<e>>
  BY <1>1
<1> HIDE DEF e
<1>3. Len(list) = 1 /\ Tail(list) = <<>>
  BY <1>2
<1>4. QED
  BY <1>3 DEF Core!NextEntry

LEMMA AdvanceView ==
    ASSUME ViewInv, SameClient, Core!Advance
    PROVE  ViewInv'
<1>1. CASE Core!Unwind
  <2>1. /\ stage' = IF stage = "replacing" THEN "pending" ELSE "idle"
        /\ UNCHANGED <<list, cmds>> /\ stage \in {"replacing", "stopping"}
        /\ Core!Emit([kind |-> "end", reason |-> "STOP"])
    BY <1>1 DEF Core!Unwind
  <2>2. OneEntry'
    BY <2>1 DEF ViewInv, OneEntry, Core!Stage
  <2>3. QED
    BY <2>1, <2>2, SentView
<1>2. CASE Core!Start
  <2>1. /\ stage = "pending" /\ stage' = "opening" /\ playing' = list[1].file
        /\ UNCHANGED <<list, cmds>>
        /\ Core!Emit([kind |-> "start", entry |-> list[1]])
    BY <1>2 DEF Core!Start
  <2>2. PICK f : list = <<[file |-> f, known |-> FALSE]>>
    BY <2>1 DEF ViewInv, OneEntry
  <2>3. [kind |-> "start", entry |-> list[1]] = UnknownStart(f)
    BY <2>2 DEF UnknownStart
  <2>4. OneEntry'
    BY <2>1 DEF ViewInv, OneEntry, Core!Stage
  <2>5. QED
    BY <2>1, <2>3, <2>4, SentView DEF UnknownStart
<1>3. CASE Core!Loaded
  <2>1. /\ stage = "opening" /\ stage' = "loaded"
        /\ UNCHANGED <<list, playing, cmds>> /\ Core!Emit([kind |-> "loaded"])
    BY <1>3 DEF Core!Loaded
  <2>2. OneEntry'
    BY <2>1 DEF ViewInv, OneEntry, Core!Stage
  <2>3. QED
    BY <2>1, <2>2, SentView
<1>4. CASE Core!Fail \/ Core!Eof
  <2>1. /\ stage \in {"opening", "loaded"} /\ Core!NextEntry
        /\ \E reason : Core!Emit([kind |-> "end", reason |-> reason])
    BY <1>4 DEF Core!Fail, Core!Eof
  <2>2. list' = <<>> /\ stage' = "idle" /\ UNCHANGED cmds
    BY <2>1, NothingFollows
  <2>3. OneEntry'
    BY <2>2 DEF OneEntry, Core!Stage
  <2>4. QED
    BY <2>1, <2>2, <2>3, SentView
<1>5. QED
  BY <1>1, <1>2, <1>3, <1>4 DEF Core!Advance

LEMMA CoreView ==
    ASSUME ViewInv, CoreExec \/ CoreAdvance \/ CorePublish
    PROVE  ViewInv'
<1>1. SameClient
  BY DEF CoreExec, CoreAdvance, CorePublish, CoreDo, transport, thread, SameClient
<1>2. CASE CoreExec \/ CoreAdvance
  BY <1>1, <1>2, ExecView, AdvanceView DEF CoreExec, CoreAdvance, CoreDo
<1>3. CASE CorePublish
  <2>1. UNCHANGED <<list, stage, playing, cmds, events>>
    BY <1>3 DEF CorePublish, CoreDo, Core!Publish, Core!player
  <2>2. IsQueue(posted') /\ NoNoFile(posted') /\ ~Editing'
    BY <1>1 DEF ViewInv, Queues, NoQueue, SameClient, Editing
  <2>3. QED
    BY <1>1, <2>1, <2>2, SameView DEF SameClient, SameCore
<1>4. QED
  BY <1>2, <1>3

LEMMA ViewNext ==
    ASSUME TrackByTrack, ViewInv, [Next]_vars
    PROVE  ViewInv'
<1>1. CASE Vanish \/ UNCHANGED vars
  <2>1. /\ SameCore /\ UNCHANGED <<posted, pc, cmds, currentFile, fileLoaded, loadPending, queuedFiles>>
    BY <1>1 DEF Vanish, vars, core, transport, thread, SameCore
  <2>2. IsQueue(posted') /\ NoNoFile(posted') /\ ~Editing'
    BY <2>1 DEF ViewInv, Queues, NoQueue, Editing
  <2>3. QED
    BY <2>1, <2>2, SameView
<1>2. QED
  BY <1>1, UserView, LoopView, HandlerView, CoreView DEF Next

LEMMA ViewInit ==
    ASSUME TrackByTrack, Init
    PROVE  ViewInv
<1>1. IsQueue(<<>>)
  <2>1. <<>> \in Seq({})
    OBVIOUS
  <2>2. QED
    BY <2>1 DEF IsQueue
<1>2. gaplessEnabled = FALSE
  BY DEF Init, TrackByTrack
<1>3. QED
  BY <1>1, <1>2 DEF Init, Core!Init, ViewInv, Queues, NoQueue, OneEntry, Unnamed, Seen, Editing,
     LoadsFiles, NoNoFile, Core!Stage

-----------------------------------------------------------------------------
\* Without gapless mode, whatever the user does and in whatever order requests,
\* events and reports are executed and read: when all is quiet the player's
\* file, its loaded flag and its play lamp are those of the core.
THEOREM ViewSettlesTrackByTrack == ASSUME TrackByTrack PROVE Spec => []ViewSettles
<1> DEFINE All == ViewInv /\ LampInv /\ PauseInv
<1>1. Init => All
  <2>1. Init => ViewInv
    BY ViewInit
  <2>2. Init => LampInv
    BY DEF Init, LampInv, Lagging, LampExact
  <2>3. Init => PauseInv
    BY PauseInit
  <2>4. QED
    BY <2>1, <2>2, <2>3
<1>2. All /\ [Next]_vars => All'
  BY ViewNext, LampNext, PauseNext
<1>3. All => ViewSettles
  <2> SUFFICES ASSUME All, Quiescent
               PROVE  /\ fileLoaded <=> stage = "loaded"
                      /\ fileLoaded => playing = currentFile
                      /\ isPlaying <=> stage = "loaded" /\ ~corePaused
    BY DEF ViewSettles
  <2>1. /\ cmds = <<>> /\ events = <<>> /\ ~fresh /\ published = corePaused
        /\ stage \in {"idle", "loaded"} /\ pc = "loop"
    BY DEF Quiescent
  <2>2. stage = "loaded" => fileLoaded /\ currentFile = playing
    BY <2>1 DEF ViewInv, Seen, Asks, NewestIs
  <2>3. stage = "idle" => ~fileLoaded
    BY <2>1 DEF ViewInv, Seen, NewestIs
  <2>4. stage = "loaded" => playing # NoFile
    BY DEF ViewInv, OneEntry
  <2>5. paused = corePaused
    <3>1. Pauses(cmds) = {}
      BY <2>1 DEF Pauses
    <3>2. QED
      BY <2>1, <3>1 DEF PauseInv, Final
  <2>6. isPlaying <=> fileLoaded /\ ~paused /\ currentFile # NoFile
    BY <2>1, LampAtLoop DEF LampExact
  <2>7. QED
    BY <2>1, <2>2, <2>3, <2>4, <2>5, <2>6
<1>4. QED
  BY <1>1, <1>2, <1>3, PTL DEF Spec
=============================================================================
