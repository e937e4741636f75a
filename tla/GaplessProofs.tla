---------------------------- MODULE GaplessProofs ----------------------------
(***************************************************************************)
(* AudioPlayer in gapless mode and out of it, while the user extends and   *)
(* reorders the list and changes the mode: for any files, any lists and    *)
(* any number of edits, the queue of the core follows the playlist, what   *)
(* the player believes of the core is right, and no edit interrupts the    *)
(* track that plays, as long as the core has not left an entry inside an   *)
(* edit of its queue by syncNextTrack (`raced`).                           *)
(*                                                                         *)
(* The player reads of each native handoff after the fact, possibly when   *)
(* the core is several entries further.  The invariant says how far the    *)
(* one has read and the other has come: every event between the two is     *)
(* then known, and so is every entry of the core's list.                   *)
(***************************************************************************)
EXTENDS AudioPlayerProofs

\* The playlist is extended and reordered, the mode changed; every file can be
\* played.
EditsOnly ==
    /\ UserActions \subseteq {"add", "move", "gapless"}
    /\ Volatile = {} /\ Corrupt = {}

PausesOnly == \A i \in DOMAIN cmds : cmds[i].op = "pause"

\* The player's own idea of what plays and what follows.
QueueSound ==
    /\ currentFile = Playlist!CurrentFile /\ currentFile # NoFile
    /\ \A i \in DOMAIN queuedFiles :
          queuedFiles[i] # currentFile /\ queuedFiles[i] \in ToSet(tracks)
    /\ \A i, j \in DOMAIN queuedFiles : queuedFiles[i] = queuedFiles[j] => i = j

\* The core's handoffs, one after the other: the events of the k-th are a start,
\* a loaded and, when that entry is over, an end.  The player has read up to the
\* loaded (n = 1), the end (n = 2) or the start (n = 3) of a handoff; counted
\* from its loaded of the current file, event i is the (i + n)-th.
StartOf(file) == [kind |-> "start", entry |-> [file |-> file, known |-> TRUE]]
LoadedEvent == [kind |-> "loaded"]
EofEvent == [kind |-> "end", reason |-> "EOF"]

UnreadFrom(n) ==
    \A i \in DOMAIN events, j \in 0 .. Len(queuedFiles) :
        /\ i + n = 3 * j => events[i] = StartOf(queuedFiles[j])
        /\ i + n = 3 * j + 1 => events[i] = LoadedEvent
        /\ i + n = 3 * j + 2 => events[i] = EofEvent

ReadUpTo(n) ==
    /\ n < 3 => fileLoaded
    /\ n > 1 => queuedFiles # <<>>
    /\ n = 3 => startedFile = queuedFiles[1]

\* The core is at the k-th handoff: it opens that entry (q = 0), plays it (q = 1)
\* or has left it (q = 2).
Nth(k) == IF k = 0 THEN currentFile ELSE queuedFiles[k]

Following(q) == IF q = 2 THEN list ELSE Tail(list)

CoreAt(k, q) ==
    /\ q = 0 => stage = "opening"
    /\ q = 1 => stage = "loaded"
    /\ q = 2 => /\ stage = IF list = <<>> THEN "idle" ELSE "pending"
                /\ playing = NoFile
    /\ q < 2 => list # <<>> /\ playing = Nth(k) /\ list[1].file = Nth(k)
    /\ Len(queuedFiles) = k + Len(Following(q))
    /\ \A j \in DOMAIN Following(q) :
          /\ Following(q)[j].file = queuedFiles[k + j]
          /\ ~Editing => Following(q)[j].known

HandoffAt(n, k, q) ==
    /\ ~loadPending /\ posted = <<>> /\ PausesOnly
    /\ Len(events) + n = 3 * k + q
    /\ QueueSound /\ ReadUpTo(n) /\ UnreadFrom(n) /\ CoreAt(k, q)

Handoffs == \E n \in 1 .. 3, k \in Nat, q \in 0 .. 2 : HandoffAt(n, k, q)

\* A load that was asked for and has not been reported.
Requested ==
    /\ stage = "idle" /\ list = <<>> /\ events = <<>> /\ playing = NoFile
    /\ cmds # <<>> /\ cmds[Len(cmds)] = Core!LoadFile(currentFile)
    /\ \A i \in 1 .. Len(cmds) - 1 : cmds[i].op = "pause"
    /\ IF Len(cmds) = 1 THEN corePaused ELSE cmds[Len(cmds) - 1] = Core!SetPause(TRUE)

Fresh == [file |-> currentFile, known |-> FALSE]

FreshStart == [kind |-> "start", entry |-> Fresh]

Taken ==
    /\ cmds = <<>> /\ corePaused /\ list = <<Fresh>>
    /\ \/ stage = "pending" /\ playing = NoFile /\ events = <<>>
       \/ /\ stage = "opening" /\ playing = currentFile
          /\ \/ events = <<FreshStart>>
             \/ events = <<>> /\ startedFile = NoFile
       \/ /\ stage = "loaded" /\ playing = currentFile
          /\ \/ events = <<FreshStart, LoadedEvent>>
             \/ events = <<LoadedEvent>> /\ startedFile = NoFile

Loading ==
    /\ loadPending /\ ~fileLoaded /\ posted = <<>>
    /\ queuedFiles = <<>> /\ QueueSound
    /\ Requested \/ Taken

\* Nothing is loaded and nothing asked for, except by a selection on its way.
Resting ==
    /\ ~loadPending /\ ~fileLoaded /\ queuedFiles = <<>> /\ PausesOnly
    /\ stage = "idle" /\ list = <<>> /\ playing = NoFile /\ events = <<>>
    /\ \/ posted = <<>>
       \/ posted = <<Playlist!CurrentFile>> /\ Playlist!CurrentFile # NoFile

Phase == Resting \/ Loading \/ Handoffs

\* The edits of syncNextTrack make the core's playlist what it was to become.
Editable ==
    Editing =>
        /\ HandoffAt(1, 0, 1)
        /\ pc = "clear" => rest = WantedNext
        /\ pc = "append" => queuedFiles \o rest = WantedNext
        /\ pc = "remember" => queuedFiles = WantedNext

\* A queue that is not what it should be is about to be looked at.
Due ==
    fileLoaded /\ ~loadPending /\ playing = currentFile /\ queuedFiles # WantedNext
        => syncTimer \/ pc = "sync" \/ Editing

GaplessInv == present = File /\ Phase /\ Editable /\ Due

LEMMA SameInstance ==
    /\ Playlist!CurrentFile = Proved!CurrentFile
    /\ Playlist!CurrentFile' = Proved!CurrentFile'
    /\ Playlist!Upcoming = Proved!Upcoming
    /\ Playlist!Upcoming' = Proved!Upcoming'
BY DEF Playlist!CurrentFile, Proved!CurrentFile, Playlist!Upcoming, Proved!Upcoming,
       Playlist!Rows, Proved!Rows, Playlist!Count, Proved!Count

\* The current file is a listed one.
LEMMA CurrentIs ==
    ASSUME PlaylistInv
    PROVE  /\ currentIndex = -1 => Playlist!CurrentFile = NoFile
           /\ currentIndex # -1 => /\ currentIndex + 1 \in DOMAIN tracks
                                   /\ Playlist!CurrentFile = tracks[currentIndex + 1]
                                   /\ Playlist!CurrentFile \in File
                                   /\ Playlist!CurrentFile # NoFile
<1>1. Proved!Inv
  BY ListInv
<1>2. /\ currentIndex = -1 => Playlist!CurrentFile = NoFile
      /\ currentIndex # -1 => /\ currentIndex + 1 \in 1 .. Len(tracks)
                              /\ Playlist!CurrentFile = tracks[currentIndex + 1]
  BY <1>1, SameInstance, PlayerAssumption, Proved!FileAssumption, Proved!BatchAssumption,
     Proved!CurrentFileValue DEF Proved!Count
<1>3. tracks \in Seq(File)
  BY DEF PlaylistInv, Playlist!TypeOK
<1>4. QED
  BY <1>2, <1>3, PlayerAssumption

\* What an edit of the queue does to the current file and the list.
Edit ==
    \/ Playlist!AddFile
    \/ \E files \in Batches : Playlist!AddFiles(files)
    \/ \E from, to \in Playlist!Rows : Playlist!MoveTrack(from, to)

LEMMA EditKeepsTracks == PlaylistInv /\ Edit => ToSet(tracks) \subseteq ToSet(tracks')
<1> SUFFICES ASSUME PlaylistInv, Edit PROVE ToSet(tracks) \subseteq ToSet(tracks')
  OBVIOUS
<1>1. CASE UNCHANGED tracks
  BY <1>1
<1>2. tracks \in Seq(File) /\ Len(tracks) \in Nat /\ DOMAIN tracks = 1 .. Len(tracks)
  BY DEF PlaylistInv, Playlist!TypeOK
<1>3. ASSUME NEW file, tracks' = Append(tracks, file)
      PROVE  ToSet(tracks) \subseteq ToSet(tracks')
  BY <1>2, <1>3 DEF ToSet
<1>4. ASSUME NEW from \in Playlist!Rows, NEW to \in Playlist!Rows, Playlist!MoveTrack(from, to)
      PROVE  ToSet(tracks) \subseteq ToSet(tracks')
  <2>1. from \in Proved!Rows /\ to \in Proved!Rows /\ Proved!MoveTrack(from, to) /\ Proved!Inv
    BY <1>4, ListInv DEF Playlist!Rows, Proved!Rows, Playlist!Count, Proved!Count,
       Playlist!MoveTrack, Proved!MoveTrack, Playlist!Idle, Proved!Idle, Playlist!IndexAfterMove,
       Proved!IndexAfterMove, Playlist!Quiet, Proved!Quiet, Playlist!RemoveAt, Playlist!InsertAt,
       Proved!RemoveAt, Proved!InsertAt
  <2>2. /\ tracks' \in Seq(File) /\ Len(tracks') = Len(tracks)
        /\ \A k \in Proved!Rows : tracks'[k + 1] = tracks[Proved!Source(from, to, k) + 1]
    BY <2>1, PlayerAssumption, Proved!FileAssumption, Proved!BatchAssumption,
       Proved!MoveElements DEF Proved!Count
  <2>3. from \in 0 .. Len(tracks) - 1 /\ to \in 0 .. Len(tracks) - 1
    BY <2>1 DEF Proved!Rows, Proved!Count
  <2>4. ASSUME NEW k \in 0 .. Len(tracks) - 1
        PROVE  \E j \in 0 .. Len(tracks) - 1 : Proved!Source(from, to, j) = k
    <3> DEFINE j == IF k = from THEN to
                    ELSE IF from < k /\ k <= to THEN k - 1
                    ELSE IF to <= k /\ k < from THEN k + 1 ELSE k
    <3>1. j \in 0 .. Len(tracks) - 1 /\ Proved!Source(from, to, j) = k
      BY <1>2, <2>3, <2>4 DEF Proved!Source
    <3>2. QED
      BY <3>1
  <2>5. ASSUME NEW i \in DOMAIN tracks PROVE tracks[i] \in ToSet(tracks')
    <3>1. i - 1 \in 0 .. Len(tracks) - 1
      BY <1>2, <2>5
    <3>2. PICK j \in 0 .. Len(tracks) - 1 : Proved!Source(from, to, j) = i - 1
      BY <2>4, <3>1
    <3>3. tracks'[j + 1] = tracks[i] /\ j + 1 \in DOMAIN tracks'
      BY <1>2, <2>2, <3>2 DEF Proved!Rows, Proved!Count
    <3>4. QED
      BY <3>3 DEF ToSet
  <2>6. QED
    BY <2>5 DEF ToSet
<1>5. QED
  BY <1>1, <1>3, <1>4 DEF Edit, Playlist!AddFile, Playlist!AddFiles, Playlist!NoChange

LEMMA EditAnnounced ==
    ASSUME PlaylistInv, Edit
    PROVE  /\ Playlist!CurrentFile' # Playlist!CurrentFile
                 => \/ signals'.selected = Playlist!CurrentFile' /\ Playlist!CurrentFile' # NoFile
                    \/ signals'.emptied /\ Playlist!CurrentFile' = NoFile
           /\ Playlist!Upcoming' # Playlist!Upcoming
                 => signals'.count \/ signals'.index \/ signals'.moved
<1>1. Playlist!Operate
  BY DEF Edit, Playlist!Operate
<1>2. Proved!Operate /\ Proved!Next /\ Proved!Inv
  BY <1>1, ListOperate, ListInv DEF Proved!Next
<1>3. Proved!Announced /\ Proved!Resync
  BY <1>2, PlayerAssumption, Proved!FileAssumption, Proved!BatchAssumption,
     Proved!OperateAnnounces, Proved!NextResyncs
<1>4. QED
  BY <1>3, SameInstance DEF Proved!Announced, Proved!Resync

LEMMA EditCurrent ==
    ASSUME PlaylistInv, Edit
    PROVE  /\ ~signals'.emptied
           /\ \/ /\ Playlist!CurrentFile' = Playlist!CurrentFile
                 /\ signals'.selected = NoFile
              \/ /\ Playlist!CurrentFile = NoFile
                 /\ signals'.selected = Playlist!CurrentFile' /\ Playlist!CurrentFile' # NoFile
<1>1. tracks \in Seq(File) /\ Len(tracks) \in Nat /\ DOMAIN tracks = 1 .. Len(tracks)
  BY DEF PlaylistInv, Playlist!TypeOK
<1>2. CASE Playlist!NoChange
  BY <1>2 DEF Playlist!NoChange, Playlist!Quiet, Playlist!CurrentFile, Playlist!Rows, Playlist!Count
<1>3. ASSUME NEW from \in Playlist!Rows, NEW to \in Playlist!Rows, Playlist!MoveTrack(from, to)
      PROVE  /\ ~signals'.emptied /\ signals'.selected = NoFile
             /\ Playlist!CurrentFile' = Playlist!CurrentFile
  <2>1. from \in Proved!Rows /\ to \in Proved!Rows /\ Proved!MoveTrack(from, to) /\ Proved!Inv
    BY <1>3, ListInv DEF Playlist!Rows, Proved!Rows, Playlist!Count, Proved!Count,
       Playlist!MoveTrack, Proved!MoveTrack, Playlist!Idle, Proved!Idle, Playlist!IndexAfterMove,
       Proved!IndexAfterMove, Playlist!Quiet, Proved!Quiet, Playlist!RemoveAt, Playlist!InsertAt,
       Proved!RemoveAt, Proved!InsertAt
  <2>2. Proved!CurrentFile' = Proved!CurrentFile
    BY <2>1, PlayerAssumption, Proved!FileAssumption, Proved!BatchAssumption,
       Proved!MoveKeepsCurrent
  <2>3. QED
    BY <1>3, <2>2, SameInstance DEF Playlist!MoveTrack, Playlist!Quiet
<1>4. ASSUME Playlist!AddFile, ~Playlist!NoChange
      PROVE  /\ ~signals'.emptied
             /\ \/ /\ Playlist!CurrentFile' = Playlist!CurrentFile
                   /\ signals'.selected = NoFile
                \/ /\ Playlist!CurrentFile = NoFile
                   /\ signals'.selected = Playlist!CurrentFile' /\ Playlist!CurrentFile' # NoFile
  <2>1. tracks' = Append(tracks, Head(batch)) /\ Head(batch) \in File
    BY <1>4 DEF Playlist!AddFile, PlaylistInv, Playlist!TypeOK
  <2>2. /\ tracks' \in Seq(File) /\ Len(tracks') = Len(tracks) + 1
        /\ \A i \in 1 .. Len(tracks) : tracks'[i] = tracks[i]
        /\ tracks'[Len(tracks) + 1] = Head(batch)
    BY <1>1, <2>1
  <2>3. CASE currentIndex = -1
    <3>1. currentIndex' = 0 /\ signals'.selected = tracks'[1] /\ ~signals'.emptied
      BY <1>4, <2>1, <2>3 DEF Playlist!AddFile, Playlist!Quiet
    <3>2. Playlist!CurrentFile' = tracks'[1] /\ tracks'[1] \in File
      BY <1>1, <2>2, <3>1 DEF Playlist!CurrentFile, Playlist!Rows, Playlist!Count
    <3>3. QED
      BY <2>3, <3>1, <3>2, CurrentIs, PlayerAssumption
  <2>4. CASE currentIndex # -1
    <3>1. currentIndex' = currentIndex /\ signals'.selected = NoFile /\ ~signals'.emptied
      BY <1>4, <2>1, <2>4 DEF Playlist!AddFile, Playlist!Quiet
    <3>2. currentIndex + 1 \in DOMAIN tracks /\ Playlist!CurrentFile = tracks[currentIndex + 1]
      BY <2>4, CurrentIs
    <3>3. Playlist!CurrentFile' = tracks'[currentIndex + 1]
      <4>1. currentIndex \in Int
        BY DEF PlaylistInv, Playlist!TypeOK
      <4>2. QED
        BY <1>1, <2>2, <3>1, <3>2, <4>1 DEF Playlist!CurrentFile, Playlist!Rows, Playlist!Count
    <3>4. QED
      BY <1>1, <2>2, <3>1, <3>2, <3>3
  <2>5. QED
    BY <2>3, <2>4
<1>5. CASE \E files \in Batches : Playlist!AddFiles(files)
  BY <1>2, <1>5 DEF Playlist!AddFiles, Playlist!NoChange, Playlist!Quiet
<1>6. CASE Playlist!AddFile /\ Playlist!NoChange
  BY <1>2, <1>6 DEF Playlist!NoChange, Playlist!Quiet
<1>7. QED
  BY <1>3, <1>4, <1>5, <1>6 DEF Edit

-----------------------------------------------------------------------------
(***************************************************************************)
(* Steps that leave the core, its events and the requests alone.           *)
(***************************************************************************)
PhaseVars == <<list, stage, playing, corePaused, cmds, events, currentFile,
               fileLoaded, loadPending, queuedFiles, startedFile>>

ListKept ==
    /\ Playlist!CurrentFile' = Playlist!CurrentFile
    /\ ToSet(tracks) \subseteq ToSet(tracks')

LEMMA RowsKept == UNCHANGED rows => ListKept
BY DEF ListKept, rows, Playlist!CurrentFile, Playlist!Rows, Playlist!Count

LEMMA QueueKept ==
    ASSUME QueueSound, ListKept, UNCHANGED <<currentFile, queuedFiles>>
    PROVE  QueueSound'
BY DEF QueueSound, ListKept

LEMMA HandoffKept ==
    ASSUME NEW n, NEW k, NEW q, HandoffAt(n, k, q), ListKept, UNCHANGED <<PhaseVars, posted>>,
           ~Editing' => ~Editing
    PROVE  HandoffAt(n, k, q)'
<1> USE DEF PhaseVars
<1>1. QueueSound'
  BY QueueKept DEF HandoffAt
<1>2. ReadUpTo(n)' /\ PausesOnly'
  BY DEF HandoffAt, ReadUpTo, PausesOnly
<1>3. UnreadFrom(n)'
  BY DEF HandoffAt, UnreadFrom
<1>4. CoreAt(k, q)'
  BY DEF HandoffAt, CoreAt, Nth, Following
<1>5. QED
  BY <1>1, <1>2, <1>3, <1>4 DEF HandoffAt

LEMMA LoadingKept ==
    ASSUME Loading, ListKept, UNCHANGED <<PhaseVars, posted>>
    PROVE  Loading'
<1> USE DEF PhaseVars
<1>1. QueueSound'
  BY QueueKept DEF Loading
<1>2. Requested => Requested'
  BY DEF Requested
<1>3. Taken => Taken'
  BY DEF Taken, Fresh, FreshStart
<1>4. QED
  BY <1>1, <1>2, <1>3 DEF Loading

LEMMA PhaseKept ==
    ASSUME Phase, ListKept, UNCHANGED <<PhaseVars, posted>>, ~Editing' => ~Editing
    PROVE  Phase'
<1>1. CASE Resting
  BY <1>1 DEF Resting, Phase, PhaseVars, ListKept, PausesOnly
<1>2. CASE Loading
  BY <1>2, LoadingKept DEF Phase
<1>3. CASE Handoffs
  BY <1>3, HandoffKept DEF Phase, Handoffs
<1>4. QED
  BY <1>1, <1>2, <1>3 DEF Phase

LEMMA EditPhase ==
    ASSUME PlaylistInv, Phase, Edit, UNCHANGED <<PhaseVars, pc>>, posted' = Posted(signals')
    PROVE  Phase'
<1>1. CASE ListKept /\ posted' = posted
  BY <1>1, PhaseKept DEF Editing
<1>2. CASE ~(ListKept /\ posted' = posted)
  <2>1. ToSet(tracks) \subseteq ToSet(tracks')
    BY EditKeepsTracks
  <2>2. /\ Playlist!CurrentFile = NoFile
        /\ signals'.selected = Playlist!CurrentFile' /\ Playlist!CurrentFile' # NoFile
    BY <1>2, <2>1, EditCurrent DEF ListKept, Posted
  <2>3. Resting /\ posted = <<>>
    BY <2>2 DEF Phase, Loading, Handoffs, HandoffAt, QueueSound, Resting
  <2>4. posted' = <<Playlist!CurrentFile'>>
    BY <2>2, <2>3 DEF Posted
  <2>5. QED
    BY <2>2, <2>3, <2>4 DEF Resting, Phase, PhaseVars, PausesOnly
<1>3. QED
  BY <1>1, <1>2

LEMMA WantedSame ==
    UNCHANGED <<rows, gaplessEnabled, currentFile>> => WantedNext' = WantedNext
BY DEF WantedNext, rows, Playlist!CurrentFile, Playlist!Rows, Playlist!Upcoming, Playlist!Count

LEMMA LoadedHandoffs == Phase /\ fileLoaded => Handoffs
BY DEF Phase, Resting, Loading

\* Outside the edits of the core's playlist, and with the timer not forgotten.
LEMMA QuietGapless ==
    ASSUME GaplessInv, UNCHANGED <<rows, present, PhaseVars, posted, gaplessEnabled>>,
           ~Editing, ~Editing', syncTimer \/ pc = "sync" => syncTimer' \/ pc' = "sync"
    PROVE  GaplessInv'
<1>1. Phase'
  BY RowsKept, PhaseKept DEF GaplessInv
<1>2. Editable'
  BY DEF Editable
<1>3. Due'
  BY WantedSame DEF GaplessInv, Due, PhaseVars
<1>4. QED
  BY <1>1, <1>2, <1>3 DEF GaplessInv

LEMMA EditGapless ==
    ASSUME PlaylistInv, GaplessInv, Edit, Heard, UNCHANGED <<core, present, gaplessEnabled, thread>>,
           UNCHANGED startedFile, pc = "loop"
    PROVE  GaplessInv'
<1>1. /\ UNCHANGED <<transport, cmds>> /\ posted' = Posted(signals')
      /\ syncTimer' = (syncTimer \/ signals'.count \/ signals'.index \/ signals'.moved)
  BY EditCurrent DEF Heard
<1>2. UNCHANGED <<PhaseVars, pc>>
  BY <1>1 DEF PhaseVars, core, transport, thread
<1>3. Phase'
  BY <1>1, <1>2, EditPhase DEF GaplessInv
<1>4. Editable'
  BY <1>2 DEF Editable, Editing
<1>5. ASSUME fileLoaded', ~loadPending', playing' = currentFile', queuedFiles' # WantedNext'
      PROVE  syncTimer'
  <2>1. fileLoaded /\ ~loadPending /\ playing = currentFile /\ queuedFiles' = queuedFiles
    BY <1>2, <1>5 DEF PhaseVars
  <2>2. CASE queuedFiles # WantedNext
    BY <1>1, <2>1, <2>2 DEF GaplessInv, Due, Editing
  <2>3. CASE WantedNext' # WantedNext
    <3>1. Playlist!CurrentFile # NoFile
      BY <2>1, LoadedHandoffs DEF GaplessInv, Handoffs, HandoffAt, QueueSound
    <3>2. Playlist!CurrentFile' = Playlist!CurrentFile
      BY <3>1, EditCurrent
    <3>3. Playlist!Upcoming' # Playlist!Upcoming
      BY <1>2, <2>3, <3>2 DEF WantedNext, PhaseVars
    <3>4. QED
      BY <1>1, <3>3, EditAnnounced
  <2>4. QED
    BY <1>5, <2>1, <2>2, <2>3
<1>6. QED
  BY <1>3, <1>4, <1>5 DEF GaplessInv, Due

\* While the core plays the player's current file, the player has read all of
\* its events.
LEMMA AtCurrent ==
    ASSUME TypeInv, NEW n \in 1 .. 3, NEW k \in Nat, NEW q \in 0 .. 2, HandoffAt(n, k, q),
           playing = currentFile
    PROVE  n = 1 /\ k = 0 /\ q = 1 /\ events = <<>>
<1>1. list \in Seq(Core!Entry) /\ queuedFiles \in Seq(File) /\ events \in Seq(Core!Event)
  BY TypeInvIs DEF TypeParts, CoreTyped, TransportTyped
<1>2. q # 2
  BY DEF HandoffAt, CoreAt, QueueSound
<1>3. q < 2
  BY <1>2
<1>4. Len(queuedFiles) = k + Len(Tail(list)) /\ Len(Tail(list)) \in Nat /\ playing = Nth(k)
  BY <1>1, <1>3 DEF HandoffAt, CoreAt, Following
<1>5. k = 0
  <2>1. CASE k # 0
    <3>1. k \in DOMAIN queuedFiles /\ Nth(k) = queuedFiles[k]
      BY <1>1, <1>4, <2>1 DEF Nth
    <3>2. QED
      BY <1>4, <3>1 DEF HandoffAt, QueueSound
  <2>2. QED
    BY <2>1
<1>6. Len(events) \in Nat /\ Len(events) + n = q
  BY <1>1, <1>5 DEF HandoffAt
<1>7. n = 1 /\ q = 1 /\ Len(events) = 0
  BY <1>3, <1>6
<1>8. QED
  BY <1>1, <1>5, <1>7

LEMMA SyncCheckGapless == TypeInv /\ GaplessInv /\ SyncCheck => GaplessInv'
<1> SUFFICES ASSUME TypeInv, GaplessInv, SyncCheck PROVE GaplessInv'
  OBVIOUS
<1>1. /\ UNCHANGED <<rows, present, PhaseVars, posted, gaplessEnabled>>
      /\ pc = "sync" /\ ~Editing
  BY DEF SyncCheck, NoSignal, core, transport, PhaseVars, Editing
<1>2. Phase' /\ present' = File
  BY <1>1, RowsKept, PhaseKept DEF GaplessInv
<1>3. WantedNext' = WantedNext
  BY <1>1, WantedSame DEF PhaseVars
<1>4. CASE SyncNeeded /\ pc' = "clear" /\ rest' = WantedNext
  <2>1. PICK n \in 1 .. 3, k \in Nat, q \in 0 .. 2 : HandoffAt(n, k, q)
    BY <1>4, LoadedHandoffs DEF SyncNeeded, GaplessInv, Handoffs
  <2>2. HandoffAt(1, 0, 1)
    BY <1>4, <2>1, AtCurrent DEF SyncNeeded
  <2>3. HandoffAt(1, 0, 1)'
    BY <1>1, <2>2, RowsKept, HandoffKept
  <2>4. Editable' /\ Due'
    BY <1>3, <1>4, <2>3 DEF Editable, Due, Editing
  <2>5. QED
    BY <1>2, <2>4 DEF GaplessInv
<1>5. CASE ~SyncNeeded /\ SyncDone
  <2>1. ~Editing'
    BY <1>5 DEF SyncDone, Editing
  <2>2. Due'
    BY <1>1, <1>3, <1>5 DEF Due, SyncNeeded, PhaseVars
  <2>3. QED
    BY <1>2, <2>1, <2>2 DEF GaplessInv, Editable
<1>6. QED
  BY <1>4, <1>5 DEF SyncCheck

\* What syncNextTrack wants is a queue of listed files, each once, the current
\* one not among them.
LEMMA WantedSound ==
    ASSUME PlaylistInv, currentFile = Playlist!CurrentFile
    PROVE  /\ WantedNext \in Seq(File)
           /\ \A i \in DOMAIN WantedNext :
                 WantedNext[i] # currentFile /\ WantedNext[i] \in ToSet(tracks)
           /\ \A i, j \in DOMAIN WantedNext : WantedNext[i] = WantedNext[j] => i = j
<1>1. CASE WantedNext = <<>>
  BY <1>1
<1>2. CASE WantedNext = Playlist!Upcoming /\ currentIndex # -1
  <2>1. /\ tracks \in Seq(File) /\ Len(tracks) \in Nat /\ DOMAIN tracks = 1 .. Len(tracks)
        /\ currentIndex \in 0 .. Len(tracks) - 1
        /\ \A i, j \in DOMAIN tracks : tracks[i] = tracks[j] => i = j
    BY <1>2 DEF PlaylistInv, Playlist!TypeOK, Playlist!UniqueTracks, Playlist!Count
  <2> DEFINE c == currentIndex + 1
  <2>2. c \in DOMAIN tracks /\ currentFile = tracks[c]
    BY <1>2, CurrentIs
  <2>3. /\ WantedNext \in Seq(File) /\ DOMAIN WantedNext = 1 .. Len(tracks) - c
        /\ \A i \in 1 .. Len(tracks) - c : WantedNext[i] = tracks[c + i]
    <3>1. WantedNext = SubSeq(tracks, c + 1, Len(tracks))
      BY <1>2, <2>1 DEF Playlist!Upcoming, Playlist!Count
    <3>2. c + 1 \in 1 .. Len(tracks) + 1
      BY <2>1
    <3>3. QED
      BY <2>1, <3>1, <3>2, SubSeqProperties
  <2>4. \A i \in DOMAIN WantedNext : c + i \in DOMAIN tracks /\ c + i # c
    BY <2>1, <2>3
  <2>5. \A i \in DOMAIN WantedNext : WantedNext[i] # currentFile /\ WantedNext[i] \in ToSet(tracks)
    BY <2>1, <2>2, <2>3, <2>4 DEF ToSet
  <2>6. \A i, j \in DOMAIN WantedNext : WantedNext[i] = WantedNext[j] => c + i = c + j
    BY <2>1, <2>3, <2>4
  <2>7. QED
    BY <2>1, <2>3, <2>5, <2>6
<1>3. CASE WantedNext = Playlist!Upcoming /\ currentIndex = -1
  <2>1. Playlist!Upcoming = <<>>
    <3>1. tracks = <<>>
      BY <1>3 DEF PlaylistInv, Playlist!IndexValid
    <3>2. QED
      BY <1>3, <3>1 DEF Playlist!Upcoming, Playlist!Count
  <2>2. QED
    BY <1>1, <1>3, <2>1
<1>4. QED
  BY <1>1, <1>2, <1>3 DEF WantedNext

\* The first files of a list, and one file moved from the rest to them.
LEMMA Prefix ==
    ASSUME NEW s \in Seq(File), NEW r \in Seq(File)
    PROVE  /\ \A i \in DOMAIN s : i \in DOMAIN (s \o r) /\ s[i] = (s \o r)[i]
           /\ r # <<>> => Append(s, Head(r)) \o Tail(r) = s \o r
<1>1. \A i \in DOMAIN s : i \in DOMAIN (s \o r) /\ s[i] = (s \o r)[i]
  OBVIOUS
<1>2. CASE r # <<>>
  <2> DEFINE u == Append(s, Head(r)) \o Tail(r)
             v == s \o r
  <2>1. /\ Head(r) \in File /\ Tail(r) \in Seq(File) /\ Len(Tail(r)) = Len(r) - 1
        /\ \A i \in 1 .. Len(r) - 1 : Tail(r)[i] = r[i + 1]
        /\ Head(r) = r[1] /\ Len(s) \in Nat /\ Len(r) \in Nat
    BY <1>2
  <2>2. /\ Append(s, Head(r)) \in Seq(File) /\ Len(Append(s, Head(r))) = Len(s) + 1
        /\ \A i \in 1 .. Len(s) : Append(s, Head(r))[i] = s[i]
        /\ Append(s, Head(r))[Len(s) + 1] = r[1]
    BY <2>1
  <2>3. u \in Seq(File) /\ v \in Seq(File) /\ Len(u) = Len(s) + Len(r) /\ Len(v) = Len(s) + Len(r)
    BY <2>1, <2>2
  <2>4. ASSUME NEW i \in 1 .. Len(u) PROVE u[i] = v[i]
    <3>1. CASE i \in 1 .. Len(s)
      BY <2>1, <2>2, <3>1
    <3>2. CASE i = Len(s) + 1
      BY <1>2, <2>1, <2>2, <3>2
    <3>3. CASE i > Len(s) + 1
      <4>1. u[i] = Tail(r)[i - (Len(s) + 1)] /\ i - (Len(s) + 1) \in 1 .. Len(r) - 1
        BY <2>1, <2>2, <2>3, <2>4, <3>3
      <4>2. v[i] = r[i - Len(s)]
        BY <2>1, <2>3, <2>4, <3>3
      <4>3. QED
        BY <2>1, <4>1, <4>2
    <3>4. QED
      BY <2>1, <2>3, <2>4, <3>1, <3>2, <3>3
  <2>5. u = v
    BY <2>3, <2>4, SeqEqual
  <2>6. QED
    BY <1>1, <2>5
<1>3. QED
  BY <1>1, <1>2

\* A queue that is the beginning of what is wanted is sound.
LEMMA PrefixSound ==
    ASSUME PlaylistInv, QueueSound, NEW s \in Seq(File), NEW r \in Seq(File),
           s \o r = WantedNext, queuedFiles' = s, UNCHANGED <<rows, currentFile>>
    PROVE  QueueSound'
<1>1. /\ \A i \in DOMAIN WantedNext :
            WantedNext[i] # currentFile /\ WantedNext[i] \in ToSet(tracks)
      /\ \A i, j \in DOMAIN WantedNext : WantedNext[i] = WantedNext[j] => i = j
  BY WantedSound DEF QueueSound
<1>2. \A i \in DOMAIN s : i \in DOMAIN WantedNext /\ s[i] = WantedNext[i]
  BY Prefix
<1>3. currentFile' = Playlist!CurrentFile' /\ currentFile' # NoFile
  BY RowsKept DEF QueueSound, ListKept
<1>4. tracks' = tracks /\ currentFile' = currentFile
  BY DEF rows
<1>5. QED
  BY <1>1, <1>2, <1>3, <1>4 DEF QueueSound

\* While the core's playlist is edited, a handoff is only what the core holds.
LEMMA EditedHandoff ==
    ASSUME TypeInv, HandoffAt(1, 0, 1), events' = <<>>, events = <<>>, QueueSound',
           UNCHANGED <<stage, playing, cmds, currentFile, fileLoaded, loadPending, posted>>,
           list' # <<>>, list'[1].file = list[1].file,
           Len(queuedFiles') = Len(Tail(list')),
           \A j \in DOMAIN Tail(list') :
              /\ Tail(list')[j].file = queuedFiles'[j]
              /\ ~Editing' => Tail(list')[j].known
    PROVE  HandoffAt(1, 0, 1)'
<1>1. ReadUpTo(1)' /\ PausesOnly'
  BY DEF HandoffAt, ReadUpTo, PausesOnly
<1>2. UnreadFrom(1)'
  BY DEF UnreadFrom
<1>3. CoreAt(0, 1)'
  <2>1. /\ stage' = "loaded" /\ list' # <<>> /\ playing' = currentFile'
        /\ list'[1].file = currentFile'
    BY DEF HandoffAt, CoreAt, Nth
  <2>2. Len(queuedFiles') \in Nat
    <3>1. queuedFiles' = queuedFiles' /\ Len(Tail(list')) = Len(queuedFiles')
      OBVIOUS
    <3>2. QED
      OBVIOUS
  <2>3. QED
    BY <2>1, <2>2 DEF CoreAt, Nth, Following
<1>4. QED
  BY <1>1, <1>2, <1>3 DEF HandoffAt

LEMMA SyncEditGapless == TypeInv /\ GaplessInv /\ SyncEdit => GaplessInv'
<1> SUFFICES ASSUME TypeInv, GaplessInv, SyncEdit PROVE GaplessInv'
  OBVIOUS
<1>1. /\ UNCHANGED rows /\ UNCHANGED present
      /\ UNCHANGED <<stage, playing, cmds, currentFile, fileLoaded, loadPending, posted,
                     gaplessEnabled>>
      /\ Editing
  BY DEF SyncEdit, NoSignal, Editing
<1>2. HandoffAt(1, 0, 1)
  BY <1>1 DEF GaplessInv, Editable
<1>3. /\ list \in Seq(Core!Entry) /\ events \in Seq(Core!Event)
      /\ queuedFiles \in Seq(File) /\ rest \in Seq(File) /\ (pc = "append" => rest # <<>>)
      /\ PlaylistInv
  BY TypeInvIs DEF TypeParts, CoreTyped, TransportTyped, ThreadInv, ThreadTyped
<1>4. events = <<>>
  BY <1>2, <1>3 DEF HandoffAt
<1>5. /\ QueueSound /\ stage = "loaded" /\ list # <<>>
      /\ Len(queuedFiles) = Len(Tail(list))
      /\ \A j \in DOMAIN Tail(list) : Tail(list)[j].file = queuedFiles[j]
  BY <1>2, <1>3 DEF HandoffAt, CoreAt, Following
<1>6. WantedNext' = WantedNext
  BY <1>1, WantedSame
<1>7. HandoffAt(1, 0, 1)' /\ present' = File => Phase' /\ present' = File
  BY DEF Phase, Handoffs
<1>8. CASE pc = "clear" /\ Core!ClearList /\ queuedFiles' = <<>>
           /\ pc' = (IF rest = <<>> THEN "remember" ELSE "append")
           /\ UNCHANGED <<rest, events>>
  <2>1. list' = <<list[1]>> /\ rest = WantedNext
    BY <1>3, <1>5, <1>8 DEF Core!ClearList, Core!HasCurrent, GaplessInv, Editable, Editing
  <2>2. Tail(list') = <<>> /\ list' # <<>> /\ list'[1] = list[1]
    BY <1>5, <2>1
  <2>3. <<>> \o rest = WantedNext /\ <<>> \in Seq(File)
    BY <1>3, <2>1
  <2>4. QueueSound'
    BY <1>1, <1>3, <1>5, <1>8, <2>3, PrefixSound
  <2>5. HandoffAt(1, 0, 1)'
    <3>1. Len(queuedFiles') = Len(Tail(list')) /\ DOMAIN Tail(list') = {}
      <4>1. queuedFiles' = <<>> /\ Tail(list') = <<>>
        BY <1>8, <2>2
      <4>2. DOMAIN <<>> = {}
        OBVIOUS
      <4>3. QED
        BY <4>1, <4>2, Zenon
    <3>2. list'[1].file = list[1].file /\ events' = <<>>
      BY <1>4, <1>8, <2>2
    <3>3. QED
      BY <1>1, <1>2, <1>4, <2>2, <2>4, <3>1, <3>2, EditedHandoff
  <2>6. Editable' /\ Editing'
    BY <1>6, <1>8, <2>1, <2>3, <2>5 DEF Editable, Editing
  <2>7. QED
    BY <1>1, <1>7, <2>5, <2>6 DEF GaplessInv, Due
<1>9. CASE pc = "append" /\ Core!AppendEntry(Head(rest))
           /\ queuedFiles' = Append(queuedFiles, Head(rest))
           /\ rest' = Tail(rest)
           /\ pc' = (IF Len(rest) = 1 THEN "remember" ELSE "append")
           /\ UNCHANGED events
  <2> DEFINE e == [file |-> Head(rest), known |-> FALSE]
  <2>1. queuedFiles \o rest = WantedNext /\ rest # <<>>
    BY <1>3, <1>9 DEF GaplessInv, Editable, Editing
  <2>2. queuedFiles' \o rest' = WantedNext /\ queuedFiles' \in Seq(File) /\ rest' \in Seq(File)
    <3>1. queuedFiles' \o rest' = queuedFiles \o rest
      BY <1>3, <1>9, <2>1, Prefix
    <3>2. Head(rest) \in File /\ Tail(rest) \in Seq(File)
      BY <1>3, <2>1
    <3>3. QED
      BY <1>3, <1>9, <2>1, <3>1, <3>2
  <2>3. e \in Core!Entry
    BY <1>3, <2>1 DEF Core!Entry
  <2>4. /\ list' = Append(list, e) /\ list' # <<>> /\ list'[1] = list[1]
        /\ Tail(list') = Append(Tail(list), e)
    BY <1>3, <1>5, <1>9, <2>3 DEF Core!AppendEntry
  <2>5. /\ Len(queuedFiles') = Len(Tail(list'))
        /\ \A j \in DOMAIN Tail(list') : Tail(list')[j].file = queuedFiles'[j]
    <3>1. Tail(list) \in Seq(Core!Entry) /\ Head(rest) \in File
      BY <1>3, <1>5, <2>1
    <3>2. QED
      BY <1>3, <1>5, <1>9, <2>3, <2>4, <3>1
  <2>6. QueueSound'
    BY <1>1, <1>3, <1>5, <2>2, PrefixSound
  <2>7. Editing'
    BY <1>9 DEF Editing
  <2>8. HandoffAt(1, 0, 1)'
    BY <1>1, <1>2, <1>4, <1>9, <2>4, <2>5, <2>6, <2>7, EditedHandoff
  <2>9. pc' = "remember" => queuedFiles' = WantedNext
    <3>1. pc' = "remember" => Len(rest) = 1
      BY <1>9
    <3>2. Len(rest) = 1 => rest' = <<>>
      BY <1>3, <1>9
    <3>3. rest' = <<>> => queuedFiles' \o rest' = queuedFiles'
      BY <2>2
    <3>4. QED
      BY <2>2, <3>1, <3>2, <3>3
  <2>10. Editable'
    BY <1>6, <1>9, <2>2, <2>8, <2>9 DEF Editable
  <2>11. QED
    BY <1>1, <1>7, <2>7, <2>8, <2>10 DEF GaplessInv, Due
<1>10. CASE pc = "remember" /\ Core!RememberEntries /\ SyncDone
            /\ UNCHANGED <<rest, queuedFiles>>
  <2>1. queuedFiles' = WantedNext'
    BY <1>6, <1>10 DEF GaplessInv, Editable, Editing
  <2>2. events' = <<>>
    <3>1. DOMAIN events = {}
      BY <1>4
    <3>2. events' = [i \in {} |-> IF i \in Core!UnreadStarts
                          THEN [events[i] EXCEPT !.entry.known = TRUE] ELSE events[i]]
      BY <1>10, <3>1 DEF Core!RememberEntries
    <3>3. QED
      BY <3>2
  <2>3. /\ list' = [i \in DOMAIN list |-> [list[i] EXCEPT !.known = TRUE]]
        /\ DOMAIN list = 1 .. Len(list) /\ Len(list) \in Nat /\ Len(list) > 0
    BY <1>3, <1>5, <1>10 DEF Core!RememberEntries, Core!Known
  <2>4. list' \in Seq(Core!Entry) /\ Len(list') = Len(list)
    <3>1. \A i \in DOMAIN list : list'[i] \in Core!Entry
      <4>1. ASSUME NEW i \in DOMAIN list PROVE [list[i] EXCEPT !.known = TRUE] \in Core!Entry
        <5>1. list[i] \in Core!Entry
          BY <1>3
        <5>2. QED
          BY <5>1 DEF Core!Entry
      <4>2. QED
        BY <2>3, <4>1
    <3>2. QED
      BY <1>3, <2>3, <3>1, MapTyped
  <2>5. \A i \in 1 .. Len(list) : list'[i].file = list[i].file /\ list'[i].known
    <3>1. \A i \in 1 .. Len(list) : list[i] \in Core!Entry
      BY <1>3
    <3>2. QED
      BY <2>3, <3>1 DEF Core!Entry
  <2>6. /\ Len(Tail(list')) = Len(Tail(list))
        /\ DOMAIN Tail(list') = DOMAIN Tail(list)
        /\ \A j \in DOMAIN Tail(list) : /\ Tail(list')[j] = list'[j + 1]
                                        /\ Tail(list)[j] = list[j + 1]
                                        /\ j + 1 \in 1 .. Len(list)
    BY <1>3, <2>3, <2>4
  <2>7. QueueSound'
    BY <1>1, <1>5, <1>10, RowsKept, QueueKept
  <2>8. HandoffAt(1, 0, 1)'
    <3>1. list' # <<>> /\ list'[1].file = list[1].file
      <4>1. 1 \in 1 .. Len(list) /\ Len(list') # 0
        BY <2>3, <2>4
      <4>2. QED
        BY <2>4, <2>5, <4>1
    <3>2. \A j \in DOMAIN Tail(list') : Tail(list')[j].file = queuedFiles'[j] /\ Tail(list')[j].known
      BY <1>5, <1>10, <2>5, <2>6
    <3>3. Len(queuedFiles') = Len(Tail(list'))
      BY <1>5, <1>10, <2>6
    <3>4. QED
      BY <1>1, <1>2, <1>4, <2>2, <2>7, <3>1, <3>2, <3>3, EditedHandoff
  <2>9. ~Editing'
    BY <1>10 DEF SyncDone, Editing
  <2>10. QED
    BY <1>1, <1>7, <2>1, <2>8, <2>9 DEF GaplessInv, Editable, Due
<1>11. QED
  BY <1>8, <1>9, <1>10, Zenon DEF SyncEdit

-----------------------------------------------------------------------------
(***************************************************************************)
(* The other steps of the GUI thread.                                      *)
(***************************************************************************)
LEMMA TwoAsked ==
    ASSUME NEW R, NEW s \in Seq(R), NEW a \in R, NEW b \in R
    PROVE  /\ Len(s \o <<a, b>>) = Len(s) + 2
           /\ \A i \in 1 .. Len(s) : (s \o <<a, b>>)[i] = s[i]
           /\ (s \o <<a, b>>)[Len(s) + 1] = a
           /\ (s \o <<a, b>>)[Len(s) + 2] = b
<1>1. /\ <<a, b>> \in Seq(R) /\ Len(<<a, b>>) = 2 /\ <<a, b>>[1] = a /\ <<a, b>>[2] = b
      /\ Len(s) \in Nat
  OBVIOUS
<1>2. QED
  BY <1>1, ConcatProperties

LEMMA TrackSelectedGapless == TypeInv /\ GaplessInv /\ TrackSelected => GaplessInv'
<1> SUFFICES ASSUME TypeInv, GaplessInv, TrackSelected PROVE GaplessInv'
  OBVIOUS
<1> DEFINE file == Playlist!CurrentFile
<1>1. Resting /\ posted = <<file>> /\ file # NoFile
  BY DEF GaplessInv, TrackSelected, Phase, Loading, Handoffs, HandoffAt, Resting
<1>2. cmds \in Seq(Core!Request) /\ PlaylistInv
  BY TypeInvIs DEF TypeParts, TransportTyped
<1>3. file \in present
  BY <1>1, <1>2, CurrentIs DEF GaplessInv
<1>4. LoadAndPlay(file) /\ posted' = <<>>
  <2>1. Head(posted) = file /\ Tail(posted) = <<>>
    BY <1>1
  <2>2. QED
    BY <1>3, <2>1 DEF TrackSelected
<1>5. /\ UNCHANGED <<rows, present, stage, playing, corePaused, thread>>
      /\ ~Editing
  BY DEF TrackSelected, NoSignal, GuiFree, Editing
<1>6. list' = <<>> /\ events' = <<>>
  <2>1. list = <<>> /\ events = <<>> /\ DOMAIN <<>> = {}
    BY <1>1 DEF Resting
  <2>2. /\ list' = [i \in {} |-> [list[i] EXCEPT !.known = FALSE]]
        /\ events' = [i \in {} |-> IF events[i].kind = "start"
                                   THEN [events[i] EXCEPT !.entry.known = FALSE] ELSE events[i]]
    BY <1>4, <2>1 DEF LoadAndPlay, Core!ForgetEntries, Core!Unknown
  <2>3. QED
    BY <2>2
<1>7. Requested'
  <2>1. Core!SetPause(TRUE) \in Core!Request /\ Core!LoadFile(file) \in Core!Request
    BY <1>2, <1>1, CurrentIs, RequestTypes
  <2>2. /\ cmds' = cmds \o <<Core!SetPause(TRUE), Core!LoadFile(file)>> /\ currentFile' = file
    BY <1>4 DEF LoadAndPlay
  <2>3. /\ Len(cmds') = Len(cmds) + 2 /\ Len(cmds) \in Nat
        /\ \A i \in 1 .. Len(cmds) : cmds'[i] = cmds[i]
        /\ cmds'[Len(cmds) + 1] = Core!SetPause(TRUE)
        /\ cmds'[Len(cmds) + 2] = Core!LoadFile(file)
    <3> DEFINE p == Core!SetPause(TRUE)
               l == Core!LoadFile(file)
               R == Core!Request
    <3>1. Len(cmds) \in Nat
      BY <1>2
    <3>2. cmds \in Seq(R) /\ p \in R /\ l \in R /\ cmds' = cmds \o <<p, l>>
      BY <1>2, <2>1, <2>2
    <3> HIDE DEF p, l, R
    <3>3. /\ Len(cmds') = Len(cmds) + 2
          /\ \A i \in 1 .. Len(cmds) : cmds'[i] = cmds[i]
          /\ cmds'[Len(cmds) + 1] = p /\ cmds'[Len(cmds) + 2] = l
      BY <3>2, TwoAsked
    <3>4. QED
      BY <3>1, <3>3 DEF p, l
  <2>4. \A i \in 1 .. Len(cmds') - 1 : cmds'[i].op = "pause"
    <3>1. Core!SetPause(TRUE).op = "pause"
      BY DEF Core!SetPause
    <3>2. \A i \in 1 .. Len(cmds) : cmds[i].op = "pause"
      BY <1>1, <1>2 DEF Resting, PausesOnly
    <3>3. \A i \in 1 .. Len(cmds') - 1 : i \in 1 .. Len(cmds) \/ i = Len(cmds) + 1
      BY <2>3
    <3>4. QED
      BY <2>3, <3>1, <3>2, <3>3
  <2>5. cmds' # <<>> /\ Len(cmds') # 1 /\ Len(cmds') - 1 = Len(cmds) + 1
    BY <2>3
  <2>6. QED
    BY <1>1, <1>5, <1>6, <2>2, <2>3, <2>4, <2>5 DEF Requested, Resting
<1>8. Loading'
  <2>1. /\ queuedFiles' = <<>> /\ loadPending' /\ ~fileLoaded' /\ currentFile' = file
    BY <1>4 DEF LoadAndPlay, Unload
  <2>2. Playlist!CurrentFile' = file
    BY <1>5, RowsKept DEF ListKept
  <2>3. QueueSound'
    BY <1>1, <2>1, <2>2 DEF QueueSound
  <2>4. QED
    BY <1>4, <1>7, <2>1, <2>3 DEF Loading
<1>9. ~Editing' /\ ~fileLoaded'
  BY <1>4, <1>5 DEF Editing, thread, LoadAndPlay, Unload
<1>10. QED
  BY <1>5, <1>8, <1>9 DEF GaplessInv, Phase, Editable, Due

\* The first unread event tells how far the player has read.
LEMMA FirstUnread ==
    ASSUME TypeInv, NEW n \in 1 .. 3, NEW k \in Nat, NEW q \in 0 .. 2, HandoffAt(n, k, q),
           events # <<>>
    PROVE  /\ n = 1 => Head(events) = EofEvent
           /\ n = 2 => Head(events) = StartOf(queuedFiles[1])
           /\ n = 3 => Head(events) = LoadedEvent
<1>1. events \in Seq(Core!Event) /\ queuedFiles \in Seq(File)
  BY TypeInvIs DEF TypeParts, CoreTyped, TransportTyped
<1>2. 1 \in DOMAIN events /\ Head(events) = events[1] /\ Len(queuedFiles) \in Nat
  BY <1>1
<1>3. n > 1 => Len(queuedFiles) >= 1
  BY <1>1, <1>2 DEF HandoffAt, ReadUpTo
<1>4. CASE n = 1
  <2>1. 1 + 1 = 3 * 0 + 2 /\ 0 \in 0 .. Len(queuedFiles)
    BY <1>2
  <2>2. QED
    BY <1>2, <1>4, <2>1 DEF HandoffAt, UnreadFrom
<1>5. CASE n = 2
  <2>1. 1 + 2 = 3 * 1 /\ 1 \in 0 .. Len(queuedFiles)
    BY <1>2, <1>3, <1>5
  <2>2. QED
    BY <1>2, <1>5, <2>1 DEF HandoffAt, UnreadFrom
<1>6. CASE n = 3
  <2>1. 1 + 3 = 3 * 1 + 1 /\ 1 \in 0 .. Len(queuedFiles)
    BY <1>2, <1>3, <1>6
  <2>2. QED
    BY <1>2, <1>6, <2>1 DEF HandoffAt, UnreadFrom
<1>7. QED
  BY <1>4, <1>5, <1>6

LEMMA TailEvents ==
    ASSUME TypeInv, events # <<>>, events' = Tail(events)
    PROVE  /\ Len(events') = Len(events) - 1 /\ Len(events) \in Nat \ {0}
           /\ DOMAIN events = 1 .. Len(events) /\ DOMAIN events' = 1 .. Len(events) - 1
           /\ \A i \in DOMAIN events' : i + 1 \in DOMAIN events /\ events'[i] = events[i + 1]
<1>1. events \in Seq(Core!Event)
  BY TypeInvIs DEF TypeParts, CoreTyped
<1>2. QED
  BY <1>1

\* One more event read, the queue as it was.
LEMMA ReadHandoff ==
    ASSUME TypeInv, NEW n \in 1 .. 2, NEW k \in Nat, NEW q \in 0 .. 2, HandoffAt(n, k, q),
           events # <<>>, events' = Tail(events), ReadUpTo(n + 1)',
           UNCHANGED <<rows, list, stage, playing, cmds, currentFile, loadPending, queuedFiles,
                       posted, pc>>
    PROVE  HandoffAt(n + 1, k, q)'
<1>1. QueueSound'
  BY RowsKept, QueueKept DEF HandoffAt
<1>2. Len(events') + (n + 1) = 3 * k + q
  BY TailEvents DEF HandoffAt
<1>3. UnreadFrom(n + 1)'
  <2>1. ASSUME NEW i \in DOMAIN events', NEW j \in 0 .. Len(queuedFiles)
        PROVE  /\ i + (n + 1) = 3 * j => events'[i] = StartOf(queuedFiles[j])
               /\ i + (n + 1) = 3 * j + 1 => events'[i] = LoadedEvent
               /\ i + (n + 1) = 3 * j + 2 => events'[i] = EofEvent
    <3>1. /\ i + 1 \in DOMAIN events /\ events'[i] = events[i + 1] /\ i \in Int
          /\ i + (n + 1) = (i + 1) + n
      BY <2>1, TailEvents
    <3>2. QED
      BY <2>1, <3>1 DEF HandoffAt, UnreadFrom
  <2>2. QED
    BY <2>1 DEF UnreadFrom, StartOf
<1>4. CoreAt(k, q)' /\ PausesOnly' /\ ~loadPending' /\ posted' = <<>>
  BY DEF HandoffAt, CoreAt, Nth, Following, Editing, PausesOnly
<1>5. QED
  BY <1>1, <1>2, <1>3, <1>4 DEF HandoffAt

\* What the player reads while a load is under way.
LEMMA LoadingReads ==
    ASSUME Loading, events # <<>>
    PROVE  /\ Taken
           /\ \/ /\ Head(events) = FreshStart
                 /\ \/ stage = "opening" /\ Tail(events) = <<>>
                    \/ stage = "loaded" /\ Tail(events) = <<LoadedEvent>>
              \/ /\ Head(events) = LoadedEvent /\ Tail(events) = <<>>
                 /\ stage = "loaded" /\ startedFile = NoFile
<1>1. Taken
  BY DEF Loading, Requested
<1>2. CASE events = <<FreshStart>> /\ stage = "opening"
  <2>1. Head(events) = FreshStart /\ Tail(events) = <<>>
    BY <1>2
  <2>2. QED
    BY <1>1, <1>2, <2>1
<1>3. CASE events = <<FreshStart, LoadedEvent>> /\ stage = "loaded"
  <2>1. Head(events) = FreshStart /\ Tail(events) = <<LoadedEvent>>
    BY <1>3
  <2>2. QED
    BY <1>1, <1>3, <2>1
<1>4. CASE events = <<LoadedEvent>> /\ stage = "loaded" /\ startedFile = NoFile
  <2>1. Head(events) = LoadedEvent /\ Tail(events) = <<>>
    BY <1>4
  <2>2. QED
    BY <1>1, <1>4, <2>1
<1>5. QED
  BY <1>1, <1>2, <1>3, <1>4, Zenon DEF Taken

LEMMA FileStartedGapless == TypeInv /\ GaplessInv /\ FileStarted => GaplessInv'
<1> SUFFICES ASSUME TypeInv, GaplessInv, FileStarted PROVE GaplessInv'
  OBVIOUS
<1>1. /\ events # <<>> /\ events' = Tail(events) /\ Head(events).kind = "start"
      /\ UNCHANGED <<rows, present, list, stage, playing, corePaused, cmds, currentFile,
                     loadPending, queuedFiles, posted, pc, gaplessEnabled, syncTimer>>
      /\ ~Editing
      /\ startedFile' = IF Head(events).entry.known THEN Head(events).entry.file ELSE NoFile
      /\ (fileLoaded' => fileLoaded) /\ (loadPending => fileLoaded' = FALSE)
  BY DEF FileStarted, Read, NoSignal, thread, Editing, Unload
<1>2. CASE Loading
  <2>1. Taken /\ Head(events) = FreshStart
        /\ \/ stage = "opening" /\ events' = <<>>
           \/ stage = "loaded" /\ events' = <<LoadedEvent>>
    BY <1>1, <1>2, LoadingReads DEF LoadedEvent
  <2>2. startedFile' = NoFile
    BY <1>1, <2>1 DEF FreshStart, Fresh
  <2>3. Taken'
    BY <1>1, <2>1, <2>2 DEF Taken, Fresh
  <2>4. QueueSound'
    BY <1>1, <1>2, RowsKept, QueueKept DEF Loading
  <2>5. Loading'
    BY <1>1, <1>2, <2>3, <2>4 DEF Loading
  <2>6. ~fileLoaded' /\ ~Editing'
    BY <1>1, <1>2 DEF Loading, Editing
  <2>7. QED
    BY <1>1, <2>5, <2>6 DEF GaplessInv, Phase, Editable, Due
<1>3. CASE Handoffs
  <2>1. PICK n \in 1 .. 3, k \in Nat, q \in 0 .. 2 : HandoffAt(n, k, q)
    BY <1>3 DEF Handoffs
  <2>2. n = 2 /\ Head(events) = StartOf(queuedFiles[1])
    BY <1>1, <2>1, FirstUnread DEF LoadedEvent, EofEvent
  <2>3. startedFile' = queuedFiles[1]
    BY <1>1, <2>2 DEF StartOf
  <2>4. ReadUpTo(3)'
    BY <1>1, <2>1, <2>2, <2>3 DEF HandoffAt, ReadUpTo
  <2>5. HandoffAt(2 + 1, k, q)'
    BY <1>1, <2>1, <2>2, <2>4, ReadHandoff
  <2>6. Phase'
    BY <2>5 DEF Phase, Handoffs
  <2>7. Due'
    BY <1>1, WantedSame DEF GaplessInv, Due, Editing
  <2>8. QED
    BY <1>1, <2>6, <2>7 DEF GaplessInv, Editable, Editing
<1>4. QED
  BY <1>1, <1>2, <1>3 DEF GaplessInv, Phase, Resting

LEMMA LoadReadGapless ==
    ASSUME TypeInv, GaplessInv, Loading, FileLoaded
    PROVE  GaplessInv'
<1>1. /\ events # <<>> /\ events' = Tail(events) /\ Head(events).kind = "loaded"
      /\ UNCHANGED <<present, list, stage, playing, corePaused, cmds>>
      /\ loadPending' = FALSE /\ fileLoaded' = TRUE /\ pc' = "sync"
      /\ posted' = Posted(signals')
  BY DEF FileLoaded, Read
<1>2. /\ Taken /\ stage = "loaded" /\ startedFile = NoFile /\ events' = <<>>
      /\ playing = currentFile
  BY <1>1, LoadingReads DEF FreshStart, Taken
<1>3. NoSignal /\ UNCHANGED <<currentFile, queuedFiles, syncTimer>>
  BY <1>2 DEF FileLoaded
<1>4. posted' = <<>> /\ UNCHANGED rows
  BY <1>1, <1>3 DEF Loading, NoSignal, Posted, Playlist!Quiet
<1>5. QueueSound'
  BY <1>3, <1>4, RowsKept, QueueKept DEF Loading
<1>6. ReadUpTo(1)' /\ PausesOnly' /\ UnreadFrom(1)'
  BY <1>1, <1>2 DEF ReadUpTo, PausesOnly, UnreadFrom, Taken
<1>7. CoreAt(0, 1)'
  <2>1. /\ list' = <<Fresh>> /\ queuedFiles' = <<>> /\ stage' = "loaded"
        /\ playing' = currentFile' /\ Fresh.file = currentFile' /\ Fresh' = Fresh
    BY <1>1, <1>2, <1>3 DEF Taken, Fresh, Loading
  <2>2. list' # <<>> /\ list'[1] = Fresh /\ Tail(list') = <<>>
    BY <2>1
  <2>3. Len(queuedFiles') = 0 + Len(Tail(list')) /\ DOMAIN Tail(list') = {}
    <3>1. DOMAIN <<>> = {} /\ Len(<<>>) = 0
      OBVIOUS
    <3>2. QED
      BY <2>1, <2>2, <3>1
  <2>4. QED
    BY <2>1, <2>2, <2>3 DEF CoreAt, Nth, Following
<1>8. Len(events') + 1 = 3 * 0 + 1
  BY <1>2
<1>9. HandoffAt(1, 0, 1)'
  BY <1>1, <1>4, <1>5, <1>6, <1>7, <1>8 DEF HandoffAt
<1>10. Phase'
  BY <1>9 DEF Phase, Handoffs
<1>11. ~Editing'
  BY <1>1 DEF Editing
<1>12. QED
  BY <1>1, <1>10, <1>11 DEF GaplessInv, Editable, Due

\* The file that starts is the first queued one: the others stay.
LEMMA QueuedAfterFirst ==
    ASSUME queuedFiles \in Seq(File), queuedFiles # <<>>
    PROVE  QueuedAfter(queuedFiles[1]) = Tail(queuedFiles)
<1> DEFINE file == queuedFiles[1]
           First(i) == /\ i \in DOMAIN queuedFiles /\ queuedFiles[i] = file
                       /\ \A j \in 1 .. i - 1 : queuedFiles[j] # file
           i0 == CHOOSE i : First(i)
<1>1. DOMAIN queuedFiles = 1 .. Len(queuedFiles) /\ Len(queuedFiles) \in Nat \ {0}
  OBVIOUS
<1>2. First(1)
  BY <1>1
<1>3. First(i0)
  BY <1>2
<1>4. i0 = 1
  BY <1>1, <1>3
<1>5. file \in ToSet(queuedFiles)
  BY <1>1 DEF ToSet
<1>6. QueuedAfter(file) = SubSeq(queuedFiles, i0 + 1, Len(queuedFiles))
  BY <1>5 DEF QueuedAfter
<1>7. SubSeq(queuedFiles, 2, Len(queuedFiles)) = Tail(queuedFiles)
  <2> DEFINE u == SubSeq(queuedFiles, 2, Len(queuedFiles))
             v == Tail(queuedFiles)
  <2>1. /\ u \in Seq(File) /\ Len(u) = Len(queuedFiles) - 1
        /\ \A i \in 1 .. Len(queuedFiles) - 1 : u[i] = queuedFiles[i + 1]
    BY <1>1, SubSeqProperties
  <2>2. /\ v \in Seq(File) /\ Len(v) = Len(queuedFiles) - 1
        /\ \A i \in 1 .. Len(queuedFiles) - 1 : v[i] = queuedFiles[i + 1]
    BY <1>1
  <2> HIDE DEF u, v
  <2>3. u = v
    BY <2>1, <2>2, SeqEqual
  <2>4. QED
    BY <2>3 DEF u, v
<1> HIDE DEF i0
<1>8. QueuedAfter(file) = SubSeq(queuedFiles, 2, Len(queuedFiles))
  BY <1>4, <1>6
<1>9. QED
  BY <1>7, <1>8

\* The highlight follows the core to a listed file.
LEMMA FollowCurrent ==
    ASSUME PlaylistInv, NEW file, file \in ToSet(tracks), file # Playlist!CurrentFile,
           Playlist!FollowPlayback(file)
    PROVE  /\ Playlist!CurrentFile' = file /\ UNCHANGED tracks
           /\ signals'.selected = NoFile
<1>1. PICK row \in Playlist!Rows \ {currentIndex} :
         /\ tracks[row + 1] = file
         /\ currentIndex' = row
         /\ signals' = [Playlist!Quiet EXCEPT !.index = TRUE]
         /\ UNCHANGED tracks
  BY DEF Playlist!FollowPlayback, Playlist!ToSet, ToSet
<1>2. Playlist!CurrentFile' = file
  BY <1>1 DEF Playlist!CurrentFile, Playlist!Rows, Playlist!Count
<1>3. QED
  BY <1>1, <1>2 DEF Playlist!Quiet

LEMMA OneHandoffLess ==
    ASSUME NEW k \in Nat, NEW q \in 0 .. 2, NEW l \in Nat \ {0}, l + 3 = 3 * k + q
    PROVE  (k = 1 \/ k > 1) /\ k - 1 \in Nat /\ (l - 1) + 1 = 3 * (k - 1) + q
OBVIOUS

\* The third event of a handoff is read: the next entry is the player's own.
LEMMA HandoffRead ==
    ASSUME TypeInv, NEW k \in Nat, NEW q \in 0 .. 2, HandoffAt(3, k, q),
           events # <<>>, events' = Tail(events), currentFile' = queuedFiles[1],
           queuedFiles' = Tail(queuedFiles), fileLoaded' = TRUE, loadPending' = FALSE,
           Playlist!CurrentFile' = queuedFiles[1],
           UNCHANGED <<tracks, list, stage, playing, cmds, posted>>, ~Editing
    PROVE  HandoffAt(1, k - 1, q)' /\ k - 1 \in Nat
<1> DEFINE L == Len(queuedFiles)
<1>1. /\ queuedFiles \in Seq(File) /\ L \in Nat /\ L > 0 /\ DOMAIN queuedFiles = 1 .. L
      /\ Len(queuedFiles') = L - 1 /\ DOMAIN queuedFiles' = 1 .. L - 1
      /\ \A i \in 1 .. L - 1 : queuedFiles'[i] = queuedFiles[i + 1]
      /\ queuedFiles[1] \in File
  <2>1. queuedFiles \in Seq(File) /\ queuedFiles # <<>>
    BY TypeInvIs DEF TypeParts, TransportTyped, HandoffAt, ReadUpTo
  <2>2. QED
    BY <2>1
<1>2. list \in Seq(Core!Entry)
  BY TypeInvIs DEF TypeParts, CoreTyped
<1> HIDE DEF L
<1>3. k > 0 /\ (k = 1 \/ k > 1) /\ k - 1 \in Nat /\ Len(events') + 1 = 3 * (k - 1) + q
  <2>1. /\ Len(events) + 3 = 3 * k + q /\ Len(events') = Len(events) - 1
        /\ Len(events) \in Nat \ {0}
    BY TailEvents DEF HandoffAt
  <2>2. (k = 1 \/ k > 1) /\ k - 1 \in Nat /\ (Len(events) - 1) + 1 = 3 * (k - 1) + q
    BY <2>1, OneHandoffLess, Zenon
  <2>3. k > 0
    BY <2>2
  <2>4. QED
    BY <2>1, <2>2, <2>3, Zenon
<1>4. L = k + Len(Following(q)) /\ Len(Following(q)) \in Nat
      /\ DOMAIN Following(q) = 1 .. Len(Following(q)) /\ Following(q)' = Following(q)
  <2>1. Following(q) \in Seq(Core!Entry)
    <3>1. q # 2 => list # <<>>
      BY DEF HandoffAt, CoreAt
    <3>2. QED
      BY <1>2, <3>1 DEF Following
  <2>2. QED
    BY <2>1 DEF HandoffAt, CoreAt, Following, L
<1>5. QueueSound'
  <2>1. currentFile' = Playlist!CurrentFile' /\ currentFile' # NoFile
    BY <1>1, PlayerAssumption
  <2>2. /\ \A i \in 1 .. L : queuedFiles[i] \in ToSet(tracks)
        /\ \A i, j \in 1 .. L : queuedFiles[i] = queuedFiles[j] => i = j
    BY <1>1 DEF HandoffAt, QueueSound
  <2>3. ASSUME NEW i \in DOMAIN queuedFiles'
        PROVE  queuedFiles'[i] # currentFile' /\ queuedFiles'[i] \in ToSet(tracks')
    <3>1. i + 1 \in 1 .. L /\ 1 \in 1 .. L /\ i + 1 # 1 /\ queuedFiles'[i] = queuedFiles[i + 1]
      BY <1>1, <2>3
    <3>2. QED
      BY <2>2, <3>1
  <2>4. ASSUME NEW i \in DOMAIN queuedFiles', NEW j \in DOMAIN queuedFiles',
               queuedFiles'[i] = queuedFiles'[j]
        PROVE  i = j
    <3>1. /\ i + 1 \in 1 .. L /\ j + 1 \in 1 .. L
          /\ queuedFiles[i + 1] = queuedFiles[j + 1]
      BY <1>1, <2>4
    <3>2. i + 1 = j + 1
      BY <2>2, <3>1
    <3>3. QED
      BY <1>1, <3>2
  <2>5. QED
    BY <2>1, <2>3, <2>4 DEF QueueSound
<1>6. UnreadFrom(1)'
  <2>1. ASSUME NEW i \in DOMAIN events', NEW j \in 0 .. Len(queuedFiles')
        PROVE  /\ i + 1 = 3 * j => events'[i] = StartOf(queuedFiles'[j])
               /\ i + 1 = 3 * j + 1 => events'[i] = LoadedEvent
               /\ i + 1 = 3 * j + 2 => events'[i] = EofEvent
    <3>1. i + 1 \in DOMAIN events /\ events'[i] = events[i + 1] /\ i \in Nat
      BY <2>1, TailEvents
    <3>2. j \in Nat /\ j + 1 \in 0 .. L
      BY <1>1, <2>1
    <3>3. /\ i + 1 = 3 * j => (i + 1) + 3 = 3 * (j + 1)
          /\ i + 1 = 3 * j + 1 => (i + 1) + 3 = 3 * (j + 1) + 1
          /\ i + 1 = 3 * j + 2 => (i + 1) + 3 = 3 * (j + 1) + 2
      BY <3>1, <3>2
    <3>4. /\ (i + 1) + 3 = 3 * (j + 1) => events[i + 1] = StartOf(queuedFiles[j + 1])
          /\ (i + 1) + 3 = 3 * (j + 1) + 1 => events[i + 1] = LoadedEvent
          /\ (i + 1) + 3 = 3 * (j + 1) + 2 => events[i + 1] = EofEvent
      BY <3>1, <3>2 DEF HandoffAt, UnreadFrom, L
    <3>5. i + 1 = 3 * j => queuedFiles'[j] = queuedFiles[j + 1]
      BY <1>1, <2>1, <3>1, <3>2
    <3>6. QED
      BY <3>1, <3>3, <3>4, <3>5
  <2>2. QED
    BY <2>1 DEF UnreadFrom, StartOf
<1>7. ReadUpTo(1)' /\ PausesOnly' /\ ~loadPending' /\ posted' = <<>>
  BY DEF HandoffAt, ReadUpTo, PausesOnly
<1>8. CoreAt(k - 1, q)'
  <2>1. (IF k - 1 = 0 THEN currentFile' ELSE queuedFiles'[k - 1]) = queuedFiles[k]
    <3>1. CASE k = 1
      BY <1>3, <1>4, <3>1
    <3>2. CASE k > 1
      <4>1. k - 1 \in 1 .. L - 1 /\ (k - 1) + 1 = k
        BY <1>1, <1>3, <1>4, <3>2
      <4>2. QED
        BY <1>1, <1>3, <1>4, <3>2, <4>1
    <3>3. QED
      BY <1>3, <3>1, <3>2, Zenon
  <2>2. Nth(k) = queuedFiles[k]
    BY <1>3 DEF Nth
  <2>3. Len(queuedFiles') = (k - 1) + Len(Following(q))
    BY <1>1, <1>3, <1>4
  <2>4. ASSUME NEW j \in DOMAIN Following(q)
        PROVE  /\ Following(q)[j].file = queuedFiles'[(k - 1) + j]
               /\ Following(q)[j].known
    <3>1. (k - 1) + j \in 1 .. L - 1 /\ ((k - 1) + j) + 1 = k + j
      <4> DEFINE l == Len(Following(q))
      <4>1. l \in Nat /\ j \in 1 .. l /\ L = k + l /\ k > 0
        BY <1>3, <1>4, <2>4, Zenon
      <4> HIDE DEF l
      <4>2. QED
        BY <4>1
    <3>2. queuedFiles'[(k - 1) + j] = queuedFiles[k + j]
      BY <1>1, <3>1
    <3>3. QED
      BY <2>4, <3>2 DEF HandoffAt, CoreAt
  <2>5. Nth(k - 1)' = Nth(k)
    BY <2>1, <2>2 DEF Nth
  <2>6. /\ q = 0 => stage' = "opening"
        /\ q = 1 => stage' = "loaded"
        /\ q = 2 => /\ stage' = IF list' = <<>> THEN "idle" ELSE "pending"
                    /\ playing' = NoFile
        /\ q < 2 => list' # <<>> /\ playing' = Nth(k) /\ list'[1].file = Nth(k)
    BY DEF HandoffAt, CoreAt
  <2>7. QED
    BY <1>4, <2>3, <2>4, <2>5, <2>6 DEF CoreAt
<1>9. QED
  BY <1>3, <1>5, <1>6, <1>7, <1>8 DEF HandoffAt

LEMMA FileLoadedGapless == TypeInv /\ GaplessInv /\ FileLoaded => GaplessInv'
<1> SUFFICES ASSUME TypeInv, GaplessInv, FileLoaded PROVE GaplessInv'
  OBVIOUS
<1>1. /\ events # <<>> /\ events' = Tail(events) /\ Head(events).kind = "loaded"
      /\ UNCHANGED <<present, list, stage, playing, cmds>>
      /\ loadPending' = FALSE /\ fileLoaded' = TRUE /\ pc = "drain" /\ pc' = "sync"
      /\ posted' = Posted(signals') /\ ~Editing /\ ~Editing'
  BY DEF FileLoaded, Read, Editing
<1>2. CASE Loading
  BY <1>2, LoadReadGapless
<1>3. CASE Handoffs
  <2>1. PICK n \in 1 .. 3, k \in Nat, q \in 0 .. 2 : HandoffAt(n, k, q)
    BY <1>3 DEF Handoffs
  <2>2. n = 3
    BY <1>1, <2>1, FirstUnread DEF StartOf, EofEvent
  <2>3. HandoffAt(3, k, q)
    BY <2>1, <2>2
  <2>4. /\ queuedFiles \in Seq(File) /\ queuedFiles # <<>> /\ startedFile = queuedFiles[1]
        /\ queuedFiles[1] \in File /\ 1 \in DOMAIN queuedFiles /\ PlaylistInv
    <3>1. queuedFiles \in Seq(File) /\ queuedFiles # <<>> /\ startedFile = queuedFiles[1] /\ PlaylistInv
      BY <2>3, TypeInvIs DEF TypeParts, TransportTyped, HandoffAt, ReadUpTo
    <3>2. QED
      BY <3>1
  <2>5. /\ startedFile # NoFile /\ startedFile # currentFile
        /\ startedFile \in ToSet(tracks) /\ currentFile = Playlist!CurrentFile /\ posted = <<>>
    BY <2>3, <2>4, PlayerAssumption DEF HandoffAt, QueueSound
  <2>6. /\ currentFile' = startedFile /\ queuedFiles' = QueuedAfter(startedFile)
        /\ Playlist!FollowPlayback(startedFile)
    BY <2>5 DEF FileLoaded
  <2>7. /\ Playlist!CurrentFile' = startedFile /\ UNCHANGED tracks
        /\ signals'.selected = NoFile
    BY <2>4, <2>5, <2>6, FollowCurrent
  <2>8. queuedFiles' = Tail(queuedFiles) /\ posted' = posted
    BY <1>1, <2>4, <2>6, <2>7, QueuedAfterFirst DEF Posted
  <2>9. HandoffAt(1, k - 1, q)' /\ k - 1 \in Nat
    BY <1>1, <2>3, <2>4, <2>6, <2>7, <2>8, HandoffRead
  <2>10. Phase'
    BY <2>9 DEF Phase, Handoffs
  <2>11. QED
    BY <1>1, <2>10 DEF GaplessInv, Editable, Due
<1>4. QED
  BY <1>1, <1>2, <1>3 DEF GaplessInv, Phase, Resting

LEMMA NextTrackPosts ==
    ASSUME PlaylistInv, Playlist!NextTrack
    PROVE  signals'.selected \in {NoFile, Playlist!CurrentFile'}
<1>1. CASE Playlist!NoChange
  BY <1>1 DEF Playlist!NoChange, Playlist!Quiet
<1>2. ASSUME NEW row \in Playlist!Rows, currentIndex' = row, UNCHANGED tracks,
             signals' = [Playlist!Quiet EXCEPT !.index = TRUE, !.selected = tracks[row + 1]]
      PROVE  signals'.selected = Playlist!CurrentFile'
  BY <1>2 DEF Playlist!CurrentFile, Playlist!Rows, Playlist!Count, Playlist!Quiet
<1>3. QED
  BY <1>1, <1>2 DEF Playlist!NextTrack, Playlist!SelectRow

LEMMA LastHandoff ==
    ASSUME NEW q \in 0 .. 2, NEW l \in Nat \ {0}, l + 1 = 3 * 0 + q
    PROVE  q = 2 /\ l = 1
OBVIOUS

LEMMA FileEndedGapless == TypeInv /\ GaplessInv /\ FileEnded => GaplessInv'
<1> SUFFICES ASSUME TypeInv, GaplessInv, FileEnded PROVE GaplessInv'
  OBVIOUS
<1>1. /\ events # <<>> /\ events' = Tail(events) /\ Head(events).kind = "end"
      /\ UNCHANGED <<present, list, stage, playing, corePaused, gaplessEnabled, startedFile, pc>>
      /\ ~Editing /\ ~Editing'
  BY DEF FileEnded, Read, thread, Editing
<1>2. ~Loading
  BY <1>1, LoadingReads DEF FreshStart, LoadedEvent
<1>3. ~Resting
  BY <1>1 DEF Resting
<1>4. PICK n \in 1 .. 3, k \in Nat, q \in 0 .. 2 : HandoffAt(n, k, q)
  BY <1>2, <1>3 DEF GaplessInv, Phase, Handoffs
<1>5. n = 1 /\ Head(events) = EofEvent
  BY <1>1, <1>4, FirstUnread DEF StartOf, LoadedEvent
<1>6. HandoffAt(1, k, q)
  BY <1>4, <1>5
<1>7. Head(events).reason = "EOF"
  BY <1>5 DEF EofEvent
<1>8. CASE queuedFiles # <<>>
  <2>1. NoSignal /\ UNCHANGED <<transport, cmds, posted, syncTimer>>
    BY <1>7, <1>8 DEF FileEnded, EndIgnored
  <2>2. ReadUpTo(2)'
    BY <1>6, <1>8, <2>1 DEF HandoffAt, ReadUpTo, transport
  <2>3. HandoffAt(1 + 1, k, q)'
    BY <1>1, <1>6, <2>1, <2>2, ReadHandoff DEF transport, NoSignal
  <2>4. Phase'
    BY <2>3 DEF Phase, Handoffs
  <2>5. UNCHANGED <<rows, gaplessEnabled, currentFile, fileLoaded, loadPending, queuedFiles>>
    BY <1>1, <2>1 DEF NoSignal, transport
  <2>6. Due'
    BY <1>1, <2>1, <2>5, WantedSame DEF GaplessInv, Due
  <2>7. QED
    BY <1>1, <2>4, <2>6 DEF GaplessInv, Editable
<1>9. CASE queuedFiles = <<>>
  <2>1. /\ queuedFiles' = <<>> /\ loadPending' = FALSE /\ fileLoaded' = FALSE
        /\ Playlist!NextTrack \/ NoSignal
        /\ posted' = Posted(signals') /\ UNCHANGED cmds
    <3>1. ~EndIgnored(Head(events).reason)
      BY <1>6, <1>7, <1>9 DEF EndIgnored, HandoffAt
    <3>2. QED
      BY <3>1 DEF FileEnded, Unload
  <2>2. k = 0 /\ Len(Following(q)) = 0 /\ Following(q) \in Seq(Core!Entry)
    <3>1. list \in Seq(Core!Entry) /\ Len(queuedFiles) = 0
      BY <1>9, TypeInvIs DEF TypeParts, CoreTyped
    <3>2. q # 2 => list # <<>>
      BY <1>6 DEF HandoffAt, CoreAt
    <3>3. Following(q) \in Seq(Core!Entry)
      BY <3>1, <3>2 DEF Following
    <3>4. 0 = k + Len(Following(q))
      BY <1>6, <3>1 DEF HandoffAt, CoreAt
    <3>5. QED
      BY <3>3, <3>4
  <2>3. q = 2 /\ Len(events) = 1
    <3>1. Len(events) + 1 = 3 * k + q /\ Len(events) \in Nat \ {0}
      BY <1>1, <1>6, TailEvents DEF HandoffAt
    <3>2. QED
      BY <1>4, <2>2, <3>1, LastHandoff, Zenon
  <2>4. list = <<>> /\ stage = "idle" /\ playing = NoFile
    <3>1. list = <<>>
      BY <2>2, <2>3 DEF Following
    <3>2. QED
      BY <1>6, <2>3, <3>1 DEF HandoffAt, CoreAt
  <2>5. events' = <<>>
    <3>1. events \in Seq(Core!Event)
      BY TypeInvIs DEF TypeParts, CoreTyped
    <3>2. QED
      BY <1>1, <2>3, <3>1
  <2>6. \/ posted' = <<>>
        \/ posted' = <<Playlist!CurrentFile'>> /\ Playlist!CurrentFile' # NoFile
    <3>1. PlaylistInv /\ posted = <<>>
      BY <1>6, TypeInvIs DEF TypeParts, HandoffAt
    <3>2. signals'.selected \in {NoFile, Playlist!CurrentFile'}
      BY <2>1, <3>1, NextTrackPosts DEF NoSignal, Playlist!Quiet
    <3>3. QED
      BY <2>1, <3>1, <3>2 DEF Posted
  <2>7. PausesOnly'
    BY <1>6, <2>1 DEF HandoffAt, PausesOnly
  <2>8. Resting'
    BY <1>1, <2>1, <2>4, <2>5, <2>6, <2>7 DEF Resting
  <2>9. QED
    BY <1>1, <2>1, <2>8 DEF GaplessInv, Phase, Editable, Due
<1>10. QED
  BY <1>8, <1>9

LEMMA ReleaseGapless == TypeInv /\ LampInv /\ GaplessInv /\ Release => GaplessInv'
<1> SUFFICES ASSUME TypeInv, LampInv, GaplessInv, Release PROVE GaplessInv'
  OBVIOUS
<1>1. /\ pc = "release" /\ pc' = "drain" /\ ~Editing /\ ~Editing'
      /\ UNCHANGED <<rows, present, core, currentFile, fileLoaded, loadPending, queuedFiles,
                     gaplessEnabled, startedFile, posted, syncTimer>>
      /\ cmds' = cmds \/ cmds' = Append(cmds, Core!SetPause(FALSE))
  BY DEF Release, NoSignal, Editing, AskPause
<1>2. fileLoaded
  BY <1>1 DEF LampInv, Lagging
<1>3. PICK n \in 1 .. 3, k \in Nat, q \in 0 .. 2 : HandoffAt(n, k, q)
  BY <1>2, LoadedHandoffs DEF GaplessInv, Handoffs
<1>4. PausesOnly'
  <2>1. cmds \in Seq(Core!Request) /\ Core!SetPause(FALSE) \in Core!Request
    BY TypeInvIs, RequestTypes DEF TypeParts, TransportTyped
  <2>2. /\ \A i \in 1 .. Len(cmds) : cmds[i].op = "pause"
        /\ Core!SetPause(FALSE).op = "pause"
    BY <1>3, <2>1 DEF HandoffAt, PausesOnly, Core!SetPause
  <2>3. CASE cmds' = Append(cmds, Core!SetPause(FALSE))
    <3> DEFINE r == Core!SetPause(FALSE)
               R == Core!Request
    <3>1. cmds \in Seq(R) /\ r \in R /\ r.op = "pause" /\ cmds' = Append(cmds, r)
      BY <2>1, <2>2, <2>3
    <3> HIDE DEF r, R
    <3>2. \A i \in DOMAIN cmds' : (i \in 1 .. Len(cmds) /\ cmds'[i] = cmds[i]) \/ cmds'[i] = r
      BY <3>1
    <3>3. QED
      BY <2>2, <3>1, <3>2 DEF PausesOnly
  <2>4. QED
    BY <1>1, <1>3, <2>3 DEF HandoffAt, PausesOnly
<1>5. QueueSound'
  BY <1>1, <1>3, RowsKept, QueueKept DEF HandoffAt
<1>6. ReadUpTo(n)' /\ UnreadFrom(n)' /\ CoreAt(k, q)'
  BY <1>1, <1>3 DEF HandoffAt, ReadUpTo, UnreadFrom, CoreAt, Nth, Following, core
<1>7. HandoffAt(n, k, q)'
  BY <1>1, <1>3, <1>4, <1>5, <1>6 DEF HandoffAt, core
<1>8. Phase'
  BY <1>7 DEF Phase, Handoffs
<1>9. Due'
  BY <1>1, WantedSame DEF GaplessInv, Due, core
<1>10. QED
  BY <1>1, <1>8, <1>9 DEF GaplessInv, Editable

-----------------------------------------------------------------------------
(***************************************************************************)
(* Steps of the core.                                                      *)
(***************************************************************************)

\* Which event the core sends on its way from one place to the next.
LEMMA SentAt ==
    ASSUME NEW k \in Nat, NEW q \in 0 .. 2, NEW j \in Nat
    PROVE  /\ 3 * k + q + 1 = 3 * j => q = 2 /\ j = k + 1
           /\ 3 * k + q + 1 = 3 * j + 1 => q = 0 /\ j = k
           /\ 3 * k + q + 1 = 3 * j + 2 => q = 1 /\ j = k
OBVIOUS

LEMMA SentEvent ==
    ASSUME TypeInv, NEW e \in Core!Event, events' = Append(events, e)
    PROVE  /\ Len(events) \in Nat /\ DOMAIN events = 1 .. Len(events)
           /\ Len(events') = Len(events) + 1 /\ DOMAIN events' = 1 .. Len(events) + 1
           /\ \A i \in 1 .. Len(events) : events'[i] = events[i]
           /\ events'[Len(events) + 1] = e
<1>1. events \in Seq(Core!Event)
  BY TypeInvIs DEF TypeParts, CoreTyped
<1> DEFINE R == Core!Event
<1>2. events \in Seq(R) /\ e \in R
  BY <1>1
<1> HIDE DEF R
<1>3. QED
  BY <1>2

LEMMA CountOneMore ==
    ASSUME NEW k \in Nat, NEW q \in 0 .. 2, NEW n \in 1 .. 3, NEW l \in Nat, l + n = 3 * k + q
    PROVE  (l + 1) + n = 3 * k + q + 1
OBVIOUS

\* The core is one event further: it sends what is due at that place.
LEMMA AdvanceHandoff ==
    ASSUME TypeInv, NEW n \in 1 .. 3, NEW k \in Nat, NEW q \in 0 .. 2, HandoffAt(n, k, q),
           NEW e \in Core!Event, events' = Append(events, e),
           q = 0 => e = LoadedEvent, q = 1 => e = EofEvent,
           q = 2 => e = StartOf(queuedFiles[k + 1]),
           UNCHANGED <<rows, cmds, transport, posted, startedFile>>,
           NEW k1 \in Nat, NEW q1 \in 0 .. 2, 3 * k1 + q1 = 3 * k + q + 1, CoreAt(k1, q1)'
    PROVE  HandoffAt(n, k1, q1)'
<1>1. UNCHANGED <<cmds, currentFile, fileLoaded, loadPending, queuedFiles, posted, startedFile>>
  BY DEF transport
<1>2. QueueSound'
  BY <1>1, RowsKept, QueueKept DEF HandoffAt
<1>3. ReadUpTo(n)' /\ PausesOnly' /\ ~loadPending' /\ posted' = <<>>
  BY <1>1 DEF HandoffAt, ReadUpTo, PausesOnly
<1>4. (Len(events) + 1) + n = 3 * k + q + 1 /\ Len(events) \in Nat
  BY SentEvent, CountOneMore, Zenon DEF HandoffAt
<1>5. Len(events') + n = 3 * k1 + q1
  BY <1>4, SentEvent
<1>6. UnreadFrom(n)'
  <2>1. ASSUME NEW i \in DOMAIN events', NEW j \in 0 .. Len(queuedFiles)
        PROVE  /\ i + n = 3 * j => events'[i] = StartOf(queuedFiles[j])
               /\ i + n = 3 * j + 1 => events'[i] = LoadedEvent
               /\ i + n = 3 * j + 2 => events'[i] = EofEvent
    <3>1. CASE i \in 1 .. Len(events)
      BY <2>1, <3>1, SentEvent DEF HandoffAt, UnreadFrom
    <3>2. CASE i = Len(events) + 1
      <4>1. events'[i] = e /\ i + n = 3 * k + q + 1
        BY <1>4, <3>2, SentEvent
      <4>2. /\ i + n = 3 * j => q = 2 /\ j = k + 1
            /\ i + n = 3 * j + 1 => q = 0
            /\ i + n = 3 * j + 2 => q = 1
        <5>1. j \in Nat
          BY <2>1
        <5>2. QED
          BY <4>1, <5>1, SentAt
      <4>3. QED
        BY <4>1, <4>2
    <3>3. i \in 1 .. Len(events) \/ i = Len(events) + 1
      BY <2>1, SentEvent
    <3>4. QED
      BY <3>1, <3>2, <3>3
  <2>2. QED
    BY <1>1, <2>1 DEF UnreadFrom, StartOf
<1>7. QED
  BY <1>2, <1>3, <1>5, <1>6 DEF HandoffAt

LEMMA FollowingTyped ==
    ASSUME TypeInv, NEW n, NEW k \in Nat, NEW q \in 0 .. 2, HandoffAt(n, k, q)
    PROVE  /\ list \in Seq(Core!Entry) /\ Following(q) \in Seq(Core!Entry)
           /\ q # 2 => list # <<>>
           /\ list # <<>> => /\ Len(Tail(list)) = Len(list) - 1
                             /\ list[1] \in Core!Entry
                             /\ \A j \in DOMAIN Tail(list) : /\ j \in Nat /\ j + 1 \in DOMAIN list
                                                             /\ Tail(list)[j] = list[j + 1]
<1>1. list \in Seq(Core!Entry)
  BY TypeInvIs DEF TypeParts, CoreTyped
<1>2. q # 2 => list # <<>>
  BY DEF HandoffAt, CoreAt
<1> DEFINE R == Core!Entry
<1> HIDE DEF R
<1>3. list \in Seq(R) => /\ list # <<>> => Tail(list) \in Seq(R)
                         /\ list # <<>> => /\ Len(Tail(list)) = Len(list) - 1
                                           /\ list[1] \in R
                                           /\ \A j \in DOMAIN Tail(list) :
                                                 /\ j \in Nat /\ j + 1 \in DOMAIN list
                                                 /\ Tail(list)[j] = list[j + 1]
  OBVIOUS
<1>4. QED
  BY <1>1, <1>2, <1>3 DEF Following, R

\* The core goes on to the first entry that follows.
LEMMA StartGapless ==
    ASSUME TypeInv, NEW n \in 1 .. 3, NEW k \in Nat, NEW q \in 0 .. 2, HandoffAt(n, k, q),
           ~Editing, Core!Start, UNCHANGED <<rows, transport, posted, startedFile>>
    PROVE  HandoffAt(n, k + 1, 0)' /\ playing' # currentFile
<1>1. q = 2 /\ list # <<>> /\ Following(q) = list /\ Len(queuedFiles) = k + Len(list)
  BY DEF Core!Start, HandoffAt, CoreAt, Following
<1>2. queuedFiles \in Seq(File) /\ list \in Seq(Core!Entry) /\ list[1] \in Core!Entry
  BY <1>1, FollowingTyped, TypeInvIs DEF TypeParts, TransportTyped
<1>3. 1 \in DOMAIN list /\ k + 1 \in DOMAIN queuedFiles /\ Len(list) \in Nat
  BY <1>1, <1>2
<1>4. list[1].file = queuedFiles[k + 1] /\ list[1].known = TRUE
  BY <1>1, <1>2, <1>3 DEF HandoffAt, CoreAt, Core!Entry
<1> DEFINE e == [kind |-> "start", entry |-> list[1]]
<1>5. e = StartOf(queuedFiles[k + 1])
  BY <1>2, <1>4 DEF StartOf, Core!Entry
<1>6. e \in Core!Event
  BY <1>2 DEF Core!Event
<1>7. /\ events' = Append(events, e) /\ stage' = "opening" /\ playing' = list[1].file
      /\ UNCHANGED <<list, cmds>> /\ UNCHANGED <<currentFile, queuedFiles>>
  BY DEF Core!Start, Core!Emit, transport
<1>8. CoreAt(k + 1, 0)'
  <2>1. Nth(k + 1)' = queuedFiles[k + 1]
    BY <1>7 DEF Nth
  <2>2. Len(queuedFiles) = (k + 1) + Len(Tail(list))
    BY <1>1, <1>3, FollowingTyped
  <2>3. ASSUME NEW j \in DOMAIN Tail(list)
        PROVE  Tail(list)[j].file = queuedFiles[(k + 1) + j] /\ Tail(list)[j].known
    <3>1. j \in Nat /\ j + 1 \in DOMAIN list /\ Tail(list)[j] = list[j + 1]
      BY <1>1, <2>3, FollowingTyped
    <3>2. (k + 1) + j = k + (j + 1)
      BY <3>1
    <3>3. list[j + 1].file = queuedFiles[k + (j + 1)] /\ list[j + 1].known
      BY <1>1, <3>1 DEF HandoffAt, CoreAt
    <3>4. QED
      BY <3>1, <3>2, <3>3
  <2>4. QED
    BY <1>1, <1>4, <1>7, <2>1, <2>2, <2>3 DEF CoreAt, Following
<1>9. 3 * (k + 1) + 0 = 3 * k + q + 1 /\ k + 1 \in Nat
  BY <1>1
<1> HIDE DEF e
<1>10. HandoffAt(n, k + 1, 0)'
  BY <1>1, <1>5, <1>6, <1>7, <1>8, <1>9, AdvanceHandoff
<1>11. playing' # currentFile
  BY <1>3, <1>4, <1>7 DEF HandoffAt, QueueSound
<1>12. QED
  BY <1>10, <1>11

LEMMA LoadedGapless ==
    ASSUME TypeInv, NEW n \in 1 .. 3, NEW k \in Nat, NEW q \in 0 .. 2, HandoffAt(n, k, q),
           ~Editing, Core!Loaded, UNCHANGED <<rows, transport, posted, startedFile>>
    PROVE  HandoffAt(n, k, 1)'
<1>1. q = 0
  <2>1. stage = "opening"
    BY DEF Core!Loaded
  <2>2. QED
    BY <2>1 DEF HandoffAt, CoreAt
<1>2. /\ events' = Append(events, LoadedEvent) /\ stage' = "loaded"
      /\ UNCHANGED <<list, playing, cmds>> /\ UNCHANGED <<currentFile, queuedFiles>>
  BY DEF Core!Loaded, Core!Emit, transport, LoadedEvent
<1>3. LoadedEvent \in Core!Event
  BY DEF LoadedEvent, Core!Event
<1>4. CoreAt(k, 1)'
  BY <1>1, <1>2 DEF HandoffAt, CoreAt, Nth, Following
<1>5. 3 * k + 1 = 3 * k + q + 1
  BY <1>1
<1>6. QED
  BY <1>1, <1>2, <1>3, <1>4, <1>5, AdvanceHandoff

LEMMA EofGapless ==
    ASSUME TypeInv, NEW n \in 1 .. 3, NEW k \in Nat, NEW q \in 0 .. 2, HandoffAt(n, k, q),
           ~Editing, Core!Eof, UNCHANGED <<rows, transport, posted, startedFile>>
    PROVE  HandoffAt(n, k, 2)' /\ playing' # currentFile
<1>1. q = 1
  <2>1. stage = "loaded"
    BY DEF Core!Eof
  <2>2. QED
    BY <2>1 DEF HandoffAt, CoreAt
<1>2. /\ events' = Append(events, EofEvent) /\ playing' = NoFile /\ list' = Tail(list)
      /\ stage' = IF Len(list) = 1 THEN "idle" ELSE "pending"
      /\ UNCHANGED cmds /\ UNCHANGED <<currentFile, queuedFiles>>
  BY DEF Core!Eof, Core!Emit, Core!NextEntry, transport, EofEvent
<1>3. EofEvent \in Core!Event
  BY DEF EofEvent, Core!Event
<1>4. CoreAt(k, 2)'
  <2>1. list # <<>> /\ Tail(list) \in Seq(Core!Entry) /\ Len(Tail(list)) = Len(list) - 1
        /\ list \in Seq(Core!Entry)
    BY <1>1, FollowingTyped DEF Following
  <2>2. Tail(list) = <<>> <=> Len(list) = 1
    <3>1. Tail(list) \in Seq(Core!Entry) /\ Len(Tail(list)) = Len(list) - 1 /\ Len(list) \in Nat
      BY <2>1
    <3>2. Tail(list) = <<>> <=> Len(Tail(list)) = 0
      BY <3>1, EmptySeq
    <3>3. QED
      BY <3>1, <3>2
  <2>3. Following(1) = Tail(list) /\ Following(2)' = list'
    BY DEF Following
  <2>4. /\ Len(queuedFiles) = k + Len(Following(1))
        /\ \A j \in DOMAIN Following(1) : /\ Following(1)[j].file = queuedFiles[k + j]
                                          /\ Following(1)[j].known
    BY <1>1 DEF HandoffAt, CoreAt
  <2>5. stage' = (IF list' = <<>> THEN "idle" ELSE "pending") /\ playing' = NoFile
    BY <1>2, <2>2
  <2>6. /\ Len(queuedFiles') = k + Len(Following(2)')
        /\ \A j \in DOMAIN Following(2)' : /\ Following(2)'[j].file = queuedFiles'[k + j]
                                           /\ Following(2)'[j].known
    BY <1>2, <2>3, <2>4
  <2>7. QED
    BY <2>5, <2>6 DEF CoreAt
<1>5. 3 * k + 2 = 3 * k + q + 1
  BY <1>1
<1>6. HandoffAt(n, k, 2)'
  BY <1>1, <1>2, <1>3, <1>4, <1>5, AdvanceHandoff
<1>7. QED
  BY <1>2, <1>6 DEF HandoffAt, QueueSound

LEMMA AppendToOne == ASSUME NEW a, NEW b PROVE Append(<<a>>, b) = <<a, b>>
<1> DEFINE R == {a, b}
<1>1. <<a>> \in Seq(R) /\ b \in R /\ Len(<<a>>) = 1 /\ <<a>>[1] = a
  OBVIOUS
<1>2. <<a, b>> \in Seq(R) /\ Len(<<a, b>>) = 2 /\ <<a, b>>[1] = a /\ <<a, b>>[2] = b
  OBVIOUS
<1> DEFINE s == <<a>>
           t == <<a, b>>
<1> HIDE DEF R, s, t
<1>3. /\ Append(s, b) \in Seq(R) /\ Len(Append(s, b)) = 2
      /\ Append(s, b)[1] = a /\ Append(s, b)[2] = b
  BY <1>1, AppendProperties DEF s
<1>4. t \in Seq(R) /\ Len(t) = 2 /\ t[1] = a /\ t[2] = b
  BY <1>2 DEF t
<1>5. Append(s, b) = t
  BY <1>3, <1>4, SeqEqual
<1>6. QED
  BY <1>5 DEF s, t

\* The core takes up a load: nothing of another entry is left.
LEMMA TakenAdvances ==
    ASSUME Taken, Core!Advance, Core!Opens(currentFile), UNCHANGED <<currentFile, startedFile>>
    PROVE  Taken' /\ UNCHANGED cmds
<1>1. Fresh' = Fresh
  BY DEF Fresh
<1>2. corePaused /\ list # <<>> /\ list[1] = Fresh /\ cmds = <<>> /\ list = <<Fresh>>
  BY DEF Taken
<1>3. CASE stage = "pending"
  <2>1. Core!Start
    BY <1>3 DEF Core!Advance, Core!Unwind, Core!Loaded, Core!Fail, Core!Eof
  <2>2. events = <<>>
    BY <1>3 DEF Taken
  <2>3. /\ stage' = "opening" /\ playing' = currentFile /\ events' = <<FreshStart>>
        /\ UNCHANGED <<list, cmds, corePaused>>
    BY <1>2, <2>1, <2>2 DEF Core!Start, Core!Emit, Core!pauseVars, Fresh, FreshStart
  <2>4. QED
    BY <1>1, <1>2, <2>3 DEF Taken, FreshStart
<1>4. CASE stage = "opening"
  <2>1. playing = currentFile
    BY <1>4 DEF Taken
  <2>2. Core!Loaded
    BY <1>4, <2>1 DEF Core!Advance, Core!Unwind, Core!Start, Core!Fail, Core!Eof
  <2>3. /\ stage' = "loaded" /\ playing' = currentFile
        /\ UNCHANGED <<list, cmds, corePaused>>
        /\ events' = Append(events, LoadedEvent)
    BY <2>1, <2>2 DEF Core!Loaded, Core!Emit, Core!pauseVars, LoadedEvent
  <2>4. CASE events = <<FreshStart>>
    <3>1. events' = <<FreshStart, LoadedEvent>>
      BY <2>3, <2>4, AppendToOne
    <3>2. QED
      BY <1>1, <1>2, <2>3, <3>1 DEF Taken, FreshStart, LoadedEvent
  <2>5. CASE events = <<>> /\ startedFile = NoFile
    <3>1. events' = <<LoadedEvent>>
      BY <2>3, <2>5
    <3>2. QED
      BY <1>1, <1>2, <2>3, <2>5, <3>1 DEF Taken, LoadedEvent
  <2>6. QED
    BY <1>4, <2>4, <2>5 DEF Taken
<1>5. CASE stage = "loaded"
  BY <1>2, <1>5 DEF Core!Advance, Core!Unwind, Core!Start, Core!Loaded, Core!Fail, Core!Eof
<1>6. QED
  BY <1>3, <1>4, <1>5 DEF Taken

LEMMA CoreStep ==
    ASSUME NEW step, CoreDo(step)
    PROVE  /\ step /\ UNCHANGED <<rows, transport, posted, startedFile>>
           /\ UNCHANGED <<currentFile, fileLoaded, loadPending, queuedFiles>>
           /\ UNCHANGED <<gaplessEnabled, syncTimer, pc, rest>> /\ (Editing' <=> Editing)
           /\ Editing /\ playing # NoFile /\ playing' = NoFile => raced'
BY DEF CoreDo, NoSignal, transport, thread, Editing

\* Inside an edit the core can only leave the entry it plays.
LEMMA AdvanceRaces ==
    ASSUME TypeInv, GaplessInv, Editing, Core!Advance
    PROVE  playing # NoFile /\ playing' = NoFile
<1>1. stage = "loaded" /\ playing # NoFile
  BY DEF GaplessInv, Editable, HandoffAt, CoreAt, Nth, QueueSound
<1>2. Core!Eof
  BY <1>1 DEF Core!Advance, Core!Unwind, Core!Start, Core!Loaded, Core!Fail
<1>3. QED
  BY <1>1, <1>2 DEF Core!Eof, Core!NextEntry

LEMMA CoreAdvanceGapless ==
    EditsOnly /\ TypeInv /\ GaplessInv /\ CoreAdvance /\ ~raced' => GaplessInv'
<1> SUFFICES ASSUME EditsOnly, TypeInv, GaplessInv, CoreAdvance, ~raced' PROVE GaplessInv'
  OBVIOUS
<1>1. /\ Core!Advance /\ UNCHANGED <<rows, transport, posted, startedFile>>
      /\ UNCHANGED <<currentFile, fileLoaded, loadPending, queuedFiles>>
      /\ UNCHANGED <<gaplessEnabled, syncTimer, pc>> /\ ~Editing /\ ~Editing'
  BY CoreStep, AdvanceRaces DEF CoreAdvance
<1>2. present' = File /\ present = File
  BY <1>1 DEF GaplessInv, Core!Advance, Core!Unwind, Core!Start, Core!Loaded, Core!Fail, Core!Eof,
     Core!NextEntry
<1>3. WantedNext' = WantedNext
  BY <1>1, WantedSame
<1>4. Editable'
  BY <1>1 DEF Editable
<1>5. /\ currentFile \in File \cup {NoFile} /\ queuedFiles \in Seq(File) /\ PlaylistInv
      /\ playing \in File \cup {NoFile}
  BY TypeInvIs DEF TypeParts, TransportTyped, CoreTyped
<1>6. \A f \in File : Core!Opens(f)
  BY <1>2 DEF EditsOnly, Core!Opens
<1>7. CASE Loading
  <2>1. Taken
    BY <1>1, <1>7 DEF Loading, Requested, Core!Advance, Core!Unwind, Core!Start, Core!Loaded,
       Core!Fail, Core!Eof
  <2>2. currentFile \in File
    BY <1>5, <1>7 DEF Loading, QueueSound
  <2>3. Taken'
    BY <1>1, <1>6, <2>1, <2>2, TakenAdvances
  <2>4. QueueSound'
    BY <1>1, <1>7, RowsKept, QueueKept DEF Loading
  <2>5. Phase'
    BY <1>1, <1>7, <2>3, <2>4 DEF Phase, Loading
  <2>6. QED
    BY <1>1, <1>2, <1>4, <1>7, <2>5 DEF GaplessInv, Due, Loading
<1>8. CASE Handoffs
  <2>1. PICK n \in 1 .. 3, k \in Nat, q \in 0 .. 2 : HandoffAt(n, k, q)
    BY <1>8 DEF Handoffs
  <2>2. stage \in {"idle", "pending", "opening", "loaded"}
    BY <2>1 DEF HandoffAt, CoreAt
  <2>3. stage = "opening" => Core!Opens(playing)
    <3>1. stage = "opening" => playing # NoFile
      <4>1. ASSUME stage = "opening" PROVE playing # NoFile
        <5>1. q = 0 /\ playing = Nth(k) /\ Len(queuedFiles) = k + Len(Following(0))
          BY <2>1, <4>1 DEF HandoffAt, CoreAt
        <5>2. Len(Following(0)) \in Nat
          <6>1. Following(0) \in Seq(Core!Entry)
            BY <2>1, <5>1, FollowingTyped
          <6>2. QED
            BY <6>1
        <5>3. k = 0 \/ k \in DOMAIN queuedFiles
          BY <1>5, <5>1, <5>2
        <5>4. Nth(k) \in File
          BY <1>5, <2>1, <5>3 DEF Nth, HandoffAt, QueueSound
        <5>5. QED
          BY <5>1, <5>4, PlayerAssumption
      <4>2. QED
        BY <4>1
    <3>2. QED
      BY <1>5, <1>6, <3>1
  <2>4. Core!Start \/ Core!Loaded \/ Core!Eof
    BY <1>1, <2>2, <2>3 DEF Core!Advance, Core!Unwind, Core!Fail
  <2>5. CASE Core!Start
    <3>1. HandoffAt(n, k + 1, 0)' /\ playing' # currentFile
      BY <1>1, <2>1, <2>5, StartGapless
    <3>2. Phase'
      BY <3>1 DEF Phase, Handoffs
    <3>3. QED
      BY <1>1, <1>2, <1>4, <3>1, <3>2 DEF GaplessInv, Due
  <2>6. CASE Core!Loaded
    <3>1. HandoffAt(n, k, 1)' /\ UNCHANGED playing
      BY <1>1, <2>1, <2>6, LoadedGapless DEF Core!Loaded
    <3>2. Phase'
      BY <3>1 DEF Phase, Handoffs
    <3>3. Due'
      BY <1>1, <1>3, <3>1 DEF GaplessInv, Due
    <3>4. QED
      BY <1>2, <1>4, <3>2, <3>3 DEF GaplessInv
  <2>7. CASE Core!Eof
    <3>1. HandoffAt(n, k, 2)' /\ playing' # currentFile
      BY <1>1, <2>1, <2>7, EofGapless
    <3>2. Phase'
      BY <3>1 DEF Phase, Handoffs
    <3>3. QED
      BY <1>1, <1>2, <1>4, <3>1, <3>2 DEF GaplessInv, Due
  <2>8. QED
    BY <2>4, <2>5, <2>6, <2>7
<1>9. CASE Resting
  BY <1>1, <1>9 DEF Resting, Core!Advance, Core!Unwind, Core!Start, Core!Loaded, Core!Fail, Core!Eof
<1>10. QED
  BY <1>7, <1>8, <1>9 DEF GaplessInv, Phase

\* The oldest request is executed.
LEMMA RequestsTail ==
    ASSUME TypeInv, cmds # <<>>, cmds' = Tail(cmds)
    PROVE  /\ Len(cmds) \in Nat \ {0} /\ DOMAIN cmds = 1 .. Len(cmds) /\ Head(cmds) = cmds[1]
           /\ Len(cmds') = Len(cmds) - 1 /\ DOMAIN cmds' = 1 .. Len(cmds) - 1
           /\ \A i \in DOMAIN cmds' : i + 1 \in DOMAIN cmds /\ cmds'[i] = cmds[i + 1]
<1>1. cmds \in Seq(Core!Request)
  BY TypeInvIs DEF TypeParts, TransportTyped
<1> DEFINE R == Core!Request
<1>2. cmds \in Seq(R)
  BY <1>1
<1> HIDE DEF R
<1>3. QED
  BY <1>2

LEMMA PausesTail ==
    ASSUME TypeInv, PausesOnly, cmds # <<>>, cmds' = Tail(cmds)
    PROVE  Head(cmds).op = "pause" /\ PausesOnly'
BY RequestsTail DEF PausesOnly

LEMMA RequestedExec ==
    ASSUME TypeInv, Requested, Core!Exec, UNCHANGED currentFile
    PROVE  (Requested \/ Taken)'
<1>1. /\ stage = "idle" /\ list = <<>> /\ events = <<>> /\ playing = NoFile
      /\ cmds # <<>> /\ cmds' = Tail(cmds) /\ UNCHANGED <<playing, events>>
  BY DEF Requested, Core!Exec, Core!ExecPause, Core!ExecLoad, Core!ExecStop, Core!player
<1> DEFINE L == Len(cmds)
<1>2. /\ L \in Nat \ {0} /\ Head(cmds) = cmds[1] /\ Len(cmds') = L - 1
      /\ \A i \in 1 .. L - 1 : cmds'[i] = cmds[i + 1]
  BY <1>1, RequestsTail
<1>3. /\ cmds[L] = Core!LoadFile(currentFile)
      /\ \A i \in 1 .. L - 1 : cmds[i].op = "pause"
      /\ IF L = 1 THEN corePaused ELSE cmds[L - 1] = Core!SetPause(TRUE)
  BY DEF Requested
<1>4. CASE L = 1
  <2>1. Head(cmds) = Core!LoadFile(currentFile)
    BY <1>2, <1>3, <1>4
  <2>2. Core!ExecLoad
    BY <2>1 DEF Core!Exec, Core!ExecPause, Core!ExecStop, Core!LoadFile
  <2>3. /\ list' = <<Fresh>> /\ stage' = "pending" /\ UNCHANGED corePaused
    <3>1. Head(cmds).file = currentFile
      BY <2>1 DEF Core!LoadFile
    <3>2. list' = <<[file |-> Head(cmds).file, known |-> FALSE]>>
      BY <2>2 DEF Core!ExecLoad
    <3>3. list' = <<Fresh>>
      BY <3>1, <3>2, Zenon DEF Fresh
    <3>4. QED
      BY <1>1, <2>2, <3>3 DEF Core!ExecLoad, Core!pauseVars
  <2>4. cmds' = <<>>
    <3>1. cmds \in Seq(Core!Request)
      BY TypeInvIs DEF TypeParts, TransportTyped
    <3>2. QED
      BY <1>1, <1>4, <3>1
  <2>5. Fresh' = Fresh /\ corePaused
    BY <1>3, <1>4 DEF Fresh
  <2>6. QED
    BY <1>1, <2>3, <2>4, <2>5 DEF Taken
<1>5. CASE L # 1
  <2>1. Head(cmds).op = "pause"
    BY <1>2, <1>3, <1>5
  <2>2. Core!ExecPause
    BY <2>1 DEF Core!Exec, Core!ExecLoad, Core!ExecStop
  <2>3. corePaused' = cmds[1].value /\ UNCHANGED <<list, stage>>
    BY <1>2, <2>2 DEF Core!ExecPause, Core!player
  <2>4. cmds'[L - 1] = cmds[L] /\ cmds' # <<>>
    <3>1. Len(cmds') # 0 /\ L - 1 \in 1 .. L - 1 /\ (L - 1) + 1 = L
      BY <1>2, <1>5
    <3>2. QED
      BY <1>2, <3>1
  <2>5. \A i \in 1 .. (L - 1) - 1 : cmds'[i].op = "pause"
    <3>1. ASSUME NEW i \in 1 .. (L - 1) - 1 PROVE cmds'[i].op = "pause"
      <4>1. i \in 1 .. L - 1 /\ i + 1 \in 1 .. L - 1
        BY <1>2, <3>1
      <4>2. QED
        BY <1>2, <1>3, <4>1
    <3>2. QED
      BY <3>1
  <2>6. CASE L - 1 = 1
    <3>1. cmds[1] = Core!SetPause(TRUE)
      BY <1>3, <1>5, <2>6
    <3>2. corePaused'
      BY <2>3, <3>1 DEF Core!SetPause
    <3>3. QED
      BY <1>1, <1>2, <1>3, <2>3, <2>4, <2>5, <2>6, <3>2 DEF Requested, Core!LoadFile
  <2>7. CASE L - 1 # 1
    <3>1. (L - 1) - 1 \in 1 .. L - 1 /\ ((L - 1) - 1) + 1 = L - 1
      BY <1>2, <1>5, <2>7
    <3>2. cmds'[(L - 1) - 1] = cmds[L - 1]
      BY <1>2, <3>1
    <3>3. cmds'[(L - 1) - 1] = Core!SetPause(TRUE)
      BY <1>3, <1>5, <3>2
    <3>4. Core!SetPause(TRUE)' = Core!SetPause(TRUE)
          /\ Core!LoadFile(currentFile)' = Core!LoadFile(currentFile)
      BY DEF Core!SetPause, Core!LoadFile
    <3>5. cmds'[Len(cmds')] = Core!LoadFile(currentFile)
      BY <1>2, <1>3, <2>4
    <3> HIDE DEF L
    <3>6. QED
      BY <1>1, <1>2, <2>3, <2>4, <2>5, <2>7, <3>3, <3>4, <3>5 DEF Requested
  <2>8. QED
    BY <2>6, <2>7
<1>6. QED
  BY <1>4, <1>5

LEMMA PauseHandoff ==
    ASSUME TypeInv, NEW n \in 1 .. 3, NEW k \in Nat, NEW q \in 0 .. 2, HandoffAt(n, k, q),
           Core!Exec, UNCHANGED <<rows, transport, posted, startedFile, pc>>,
           UNCHANGED <<currentFile, fileLoaded, loadPending, queuedFiles>>
    PROVE  HandoffAt(n, k, q)'
<1>1. cmds # <<>> /\ cmds' = Tail(cmds) /\ UNCHANGED <<playing, events>>
  BY DEF Core!Exec, Core!ExecPause, Core!ExecLoad, Core!ExecStop, Core!player
<1>2. PausesOnly' /\ Core!ExecPause
  BY <1>1, PausesTail DEF HandoffAt, Core!Exec, Core!ExecLoad, Core!ExecStop
<1>3. UNCHANGED <<list, stage>>
  BY <1>2 DEF Core!ExecPause, Core!player
<1>4. QueueSound'
  BY RowsKept, QueueKept DEF HandoffAt
<1>5. ReadUpTo(n)' /\ UnreadFrom(n)' /\ CoreAt(k, q)'
  BY <1>1, <1>3 DEF HandoffAt, ReadUpTo, UnreadFrom, CoreAt, Nth, Following, Editing
<1>6. QED
  BY <1>1, <1>2, <1>4, <1>5 DEF HandoffAt

LEMMA CoreExecGapless == TypeInv /\ GaplessInv /\ CoreExec => GaplessInv'
<1> SUFFICES ASSUME TypeInv, GaplessInv, CoreExec PROVE GaplessInv'
  OBVIOUS
<1>1. /\ Core!Exec /\ UNCHANGED <<rows, transport, posted, startedFile>>
      /\ UNCHANGED <<currentFile, fileLoaded, loadPending, queuedFiles>>
      /\ UNCHANGED <<gaplessEnabled, syncTimer, pc, rest>> /\ (Editing' <=> Editing)
  BY CoreStep DEF CoreExec
<1>2. cmds # <<>> /\ cmds' = Tail(cmds) /\ UNCHANGED <<present, playing, events>>
  BY <1>1 DEF Core!Exec, Core!ExecPause, Core!ExecLoad, Core!ExecStop, Core!player
<1>3. Editable'
  <2>1. WantedNext' = WantedNext
    BY <1>1, WantedSame
  <2>2. HandoffAt(1, 0, 1) => HandoffAt(1, 0, 1)'
    BY <1>1, PauseHandoff
  <2>3. QED
    BY <1>1, <2>1, <2>2 DEF GaplessInv, Editable
<1>4. Due'
  BY <1>1, <1>2, WantedSame DEF GaplessInv, Due
<1>5. CASE Loading
  <2>1. Requested
    BY <1>2, <1>5 DEF Loading, Taken
  <2>2. (Requested \/ Taken)'
    BY <1>1, <2>1, RequestedExec
  <2>3. QueueSound'
    BY <1>1, <1>5, RowsKept, QueueKept DEF Loading
  <2>4. Phase'
    BY <1>1, <1>5, <2>2, <2>3 DEF Phase, Loading
  <2>5. QED
    BY <1>2, <1>3, <1>4, <2>4 DEF GaplessInv
<1>6. CASE ~Loading
  <2>1. PausesOnly
    BY <1>6 DEF GaplessInv, Phase, Resting, Handoffs, HandoffAt
  <2>2. PausesOnly' /\ Core!ExecPause
    BY <1>1, <1>2, <2>1, PausesTail DEF Core!Exec, Core!ExecLoad, Core!ExecStop
  <2>3. UNCHANGED <<list, stage>>
    BY <2>2 DEF Core!ExecPause, Core!player
  <2>4. CASE Resting
    <3>1. Playlist!CurrentFile' = Playlist!CurrentFile
      BY <1>1, RowsKept DEF ListKept
    <3>2. Resting'
      BY <1>1, <1>2, <2>2, <2>3, <2>4, <3>1 DEF Resting
    <3>3. QED
      BY <1>2, <1>3, <1>4, <3>2 DEF GaplessInv, Phase
  <2>5. CASE Handoffs
    <3>1. Handoffs'
      BY <1>1, <2>5, PauseHandoff DEF Handoffs
    <3>2. QED
      BY <1>2, <1>3, <1>4, <3>1 DEF GaplessInv, Phase
  <2>6. QED
    BY <1>6, <2>4, <2>5 DEF GaplessInv, Phase
<1>7. QED
  BY <1>5, <1>6

-----------------------------------------------------------------------------
(***************************************************************************)
(* All steps, and what follows.                                            *)
(***************************************************************************)
LEMMA UserGapless == EditsOnly /\ TypeInv /\ GaplessInv /\ User => GaplessInv'
<1> SUFFICES ASSUME EditsOnly, TypeInv, GaplessInv, User PROVE GaplessInv'
  OBVIOUS
<1>1. /\ GuiFree /\ UNCHANGED <<core, startedFile>>
      /\ \/ SetGaplessEnabled
         \/ Edit /\ Heard /\ UNCHANGED <<gaplessEnabled, thread>>
  BY DEF EditsOnly, User, EditPlaylist, TogglePlayPause, PressStop, SetGaplessEnabled, Act, Edit
<1>2. CASE SetGaplessEnabled
  <2>1. /\ UNCHANGED <<rows, present, PhaseVars, posted>> /\ ~Editing /\ ~Editing' /\ pc' = "sync"
    BY <1>1, <1>2 DEF SetGaplessEnabled, NoSignal, PhaseVars, core, transport, GuiFree, Editing
  <2>2. Phase' /\ present' = File
    BY <2>1, RowsKept, PhaseKept DEF GaplessInv
  <2>3. QED
    BY <2>1, <2>2 DEF GaplessInv, Editable, Due
<1>3. CASE Edit /\ Heard /\ UNCHANGED <<gaplessEnabled, thread>>
  <2>1. UNCHANGED present
    BY <1>3 DEF Edit, Playlist!AddFile, Playlist!AddFiles, Playlist!MoveTrack
  <2>2. PlaylistInv /\ pc = "loop"
    BY <1>1, TypeInvIs DEF TypeParts, GuiFree
  <2>3. QED
    BY <1>1, <1>3, <2>1, <2>2, EditGapless
<1>4. QED
  BY <1>1, <1>2, <1>3

LEMMA LoopGapless == EditsOnly /\ TypeInv /\ GaplessInv /\ Loop => GaplessInv'
<1> SUFFICES ASSUME EditsOnly, TypeInv, GaplessInv, Loop PROVE GaplessInv'
  OBVIOUS
<1>1. CASE AddFile
  <2>1. UNCHANGED present /\ Edit
    BY <1>1 DEF AddFile, Edit, Playlist!AddFile
  <2>2. QED
    BY <1>1, <2>1, EditGapless, TypeInvIs DEF TypeParts, AddFile
<1>2. CASE SyncTimeout
  BY <1>2, QuietGapless
     DEF SyncTimeout, NoSignal, PhaseVars, core, transport, GuiFree, Editing
<1>3. CASE Tick
  BY <1>3, QuietGapless DEF Tick, NoSignal, PhaseVars, core, transport, GuiFree, Editing
<1>4. QED
  BY <1>1, <1>2, <1>3, TrackSelectedGapless DEF Loop

LEMMA HandlerGapless == TypeInv /\ LampInv /\ GaplessInv /\ Handler => GaplessInv'
<1> SUFFICES ASSUME TypeInv, LampInv, GaplessInv, Handler PROVE GaplessInv'
  OBVIOUS
<1>1. CASE TickDone
  BY <1>1, QuietGapless DEF TickDone, NoSignal, PhaseVars, core, transport, Editing
<1>2. CASE PauseChanged
  BY <1>2, QuietGapless DEF PauseChanged, NoSignal, PhaseVars, thread, Editing
<1>3. QED
  BY <1>1, <1>2, SyncCheckGapless, SyncEditGapless, FileStartedGapless, FileLoadedGapless,
     ReleaseGapless, FileEndedGapless DEF Handler

\* The race is not forgotten.
LEMMA RacedStays == [Next]_vars /\ raced => raced'
BY DEF Next, User, EditPlaylist, TogglePlayPause, PressStop, SetGaplessEnabled, Act, Loop, AddFile,
       TrackSelected, SyncTimeout, Tick, Handler, SyncCheck, SyncEdit, TickDone, PauseChanged,
       FileStarted, FileLoaded, Release, FileEnded, Read, CoreExec, CoreAdvance, CorePublish,
       CoreDo, Vanish, vars

LEMMA GaplessNext ==
    EditsOnly /\ TypeInv /\ LampInv /\ GaplessInv /\ [Next]_vars /\ ~raced' => GaplessInv'
<1> SUFFICES ASSUME EditsOnly, TypeInv, LampInv, GaplessInv, [Next]_vars, ~raced' PROVE GaplessInv'
  OBVIOUS
<1>1. CASE CorePublish \/ UNCHANGED vars
  <2>1. /\ UNCHANGED <<rows, PhaseVars, posted>> /\ UNCHANGED <<present, pc, rest, syncTimer>>
        /\ UNCHANGED <<gaplessEnabled, currentFile, fileLoaded, loadPending, queuedFiles, playing>>
    <3>1. CASE CorePublish
      BY <3>1 DEF CorePublish, CoreDo, NoSignal, Core!Publish, Core!player, PhaseVars, core,
                  transport, thread
    <3>2. CASE UNCHANGED vars
      BY <3>2 DEF vars, PhaseVars, core, transport, thread
    <3>3. QED
      BY <1>1, <3>1, <3>2
  <2>2. Phase'
    BY <2>1, RowsKept, PhaseKept DEF GaplessInv, Editing
  <2>3. WantedNext' = WantedNext
    BY <2>1, WantedSame
  <2>4. HandoffAt(1, 0, 1) => HandoffAt(1, 0, 1)'
    BY <2>1, RowsKept, HandoffKept DEF Editing
  <2>5. Editable'
    BY <2>1, <2>3, <2>4 DEF GaplessInv, Editable, Editing
  <2>6. Due'
    BY <2>1, <2>3 DEF GaplessInv, Due, Editing
  <2>7. QED
    BY <2>1, <2>2, <2>5, <2>6 DEF GaplessInv
<1>2. CASE Vanish
  BY <1>2 DEF Vanish, EditsOnly
<1>3. QED
  BY <1>1, <1>2, UserGapless, LoopGapless, HandlerGapless, CoreExecGapless,
     CoreAdvanceGapless DEF Next

LEMMA GaplessInit == EditsOnly /\ Init => GaplessInv
<1> SUFFICES ASSUME EditsOnly, Init PROVE GaplessInv
  OBVIOUS
<1>1. present = File
  BY DEF Init, EditsOnly
<1>2. PausesOnly
  BY DEF Init, Core!Init, PausesOnly
<1>3. Resting
  BY <1>2 DEF Init, Core!Init, Resting
<1>4. QED
  BY <1>1, <1>3 DEF GaplessInv, Phase, Init, Editable, Due, Editing

LEMMA GaplessHolds ==
    ASSUME EditsOnly
    PROVE  Spec => [](TypeInv /\ LampInv /\ PauseInv /\ (~raced => GaplessInv))
<1> DEFINE All == TypeInv /\ LampInv /\ PauseInv /\ (~raced => GaplessInv)
<1>1. Init => All
  <2>1. Init => LampInv
    BY DEF Init, LampInv, Lagging, LampExact
  <2>2. QED
    BY <2>1, TypeInit, PauseInit, GaplessInit
<1>2. All /\ [Next]_vars => All'
  BY TypeNext, LampNext, PauseNext, GaplessNext, RacedStays
<1>3. QED
  BY <1>1, <1>2, PTL DEF Spec

LEMMA FirstAt ==
    ASSUME NEW n \in 1 .. 3, NEW k \in Nat, NEW q \in 0 .. 2, 0 + n = 3 * k + q
    PROVE  \/ n = 1 /\ k = 0 /\ q = 1
           \/ n = 2 /\ k = 0 /\ q = 2
           \/ n = 3 /\ k = 1 /\ q = 0
OBVIOUS

\* When all is quiet there is nothing to play, or the core plays the player's
\* own file.
LEMMA QuietPhase ==
    ASSUME TypeInv, GaplessInv, Quiescent
    PROVE  \/ ~fileLoaded /\ stage = "idle"
           \/ fileLoaded /\ stage = "loaded" /\ HandoffAt(1, 0, 1)
<1>1. /\ cmds = <<>> /\ events = <<>> /\ stage \in {"idle", "loaded"}
      /\ Len(events) = 0
  BY DEF Quiescent
<1>2. CASE Resting
  BY <1>2 DEF Resting
<1>3. ~Loading
  <2>1. ~Requested
    BY <1>1 DEF Requested
  <2>2. ~Taken
    <3>1. <<FreshStart, LoadedEvent>> # <<>> /\ <<LoadedEvent>> # <<>>
      OBVIOUS
    <3>2. QED
      BY <1>1, <3>1 DEF Taken
  <2>3. QED
    BY <2>1, <2>2 DEF Loading
<1>4. CASE Handoffs
  <2>1. PICK n \in 1 .. 3, k \in Nat, q \in 0 .. 2 : HandoffAt(n, k, q)
    BY <1>4 DEF Handoffs
  <2>2. 0 + n = 3 * k + q
    BY <1>1, <2>1 DEF HandoffAt
  <2>3. \/ n = 1 /\ k = 0 /\ q = 1
        \/ n = 2 /\ k = 0 /\ q = 2
        \/ n = 3 /\ k = 1 /\ q = 0
    BY <2>2, FirstAt
  <2>4. ~(n = 3 /\ q = 0)
    BY <1>1, <2>1 DEF HandoffAt, CoreAt
  <2>5. ~(n = 2 /\ k = 0 /\ q = 2)
    <3>1. SUFFICES ASSUME n = 2, k = 0, q = 2 PROVE FALSE
      OBVIOUS
    <3>2. queuedFiles \in Seq(File) /\ queuedFiles # <<>>
      BY <2>1, <3>1, TypeInvIs DEF TypeParts, TransportTyped, HandoffAt, ReadUpTo
    <3>3. list = <<>>
      BY <1>1, <2>1, <3>1 DEF HandoffAt, CoreAt
    <3>4. Len(queuedFiles) = 0 + Len(<<>>)
      BY <2>1, <3>1, <3>3 DEF HandoffAt, CoreAt, Following
    <3>5. QED
      BY <3>2, <3>4
  <2>6. n = 1 /\ k = 0 /\ q = 1
    BY <2>3, <2>4, <2>5
  <2>7. HandoffAt(1, 0, 1)
    BY <2>1, <2>6
  <2>8. fileLoaded /\ stage = "loaded"
    BY <2>7 DEF HandoffAt, ReadUpTo, CoreAt
  <2>9. QED
    BY <2>7, <2>8
<1>5. QED
  BY <1>2, <1>3, <1>4 DEF GaplessInv, Phase

\* While the user adds to the queue, reorders it and changes the mode, and every
\* file can be decoded: when all is quiet the core plays the highlighted row,
\* and what it holds behind it, what the player believes it to hold and what the
\* playlist asks for are the same files, unless the core has left an entry
\* inside an edit of its queue (syncNextTrack, AudioPlayer.cpp:248-272).
THEOREM QueueFollowsPlaylist == ASSUME EditsOnly PROVE Spec => []QueueMirrorsPlaylist
<1>1. TypeInv /\ (~raced => GaplessInv) => QueueMirrorsPlaylist
  <2> SUFFICES ASSUME TypeInv, GaplessInv, Quiescent, fileLoaded
               PROVE  /\ Playlist!CurrentFile = playing
                      /\ queuedFiles = [i \in DOMAIN Tail(list) |-> Tail(list)[i].file]
                      /\ queuedFiles = WantedNext
    BY DEF QueueMirrorsPlaylist
  <2>1. HandoffAt(1, 0, 1)
    BY QuietPhase
  <2>2. /\ Playlist!CurrentFile = currentFile /\ playing = currentFile /\ ~loadPending
        /\ list # <<>> /\ Len(queuedFiles) = 0 + Len(Tail(list))
        /\ \A j \in DOMAIN Tail(list) : Tail(list)[j].file = queuedFiles[0 + j]
    BY <2>1 DEF HandoffAt, QueueSound, CoreAt, Nth, Following
  <2>3. queuedFiles \in Seq(File) /\ Tail(list) \in Seq(Core!Entry)
    BY <2>2, TypeInvIs DEF TypeParts, TransportTyped, CoreTyped
  <2> DEFINE m == [i \in DOMAIN Tail(list) |-> Tail(list)[i].file]
  <2>4. DOMAIN queuedFiles = DOMAIN Tail(list)
        /\ \A j \in DOMAIN Tail(list) : Tail(list)[j].file = queuedFiles[j]
    BY <2>2, <2>3
  <2>5. queuedFiles = [i \in DOMAIN queuedFiles |-> queuedFiles[i]]
    BY <2>3
  <2>6. queuedFiles = m
    BY <2>4, <2>5
  <2>7. queuedFiles = WantedNext
    BY <2>2 DEF GaplessInv, Due, Quiescent, Editing
  <2>8. QED
    BY <2>2, <2>6, <2>7
<1>2. QED
  BY <1>1, GaplessHolds, PTL

\* In the same circumstances, through every native handoff but one that comes
\* inside an edit of the queue: when all is quiet the player's file, its loaded
\* flag and its lamp are those of the core.
THEOREM ViewSettlesGapless == ASSUME EditsOnly PROVE Spec => [](~raced => ViewSettles)
<1>1. TypeInv /\ LampInv /\ PauseInv /\ (~raced => GaplessInv) => (~raced => ViewSettles)
  <2> SUFFICES ASSUME TypeInv, LampInv, PauseInv, GaplessInv, Quiescent
               PROVE  /\ fileLoaded <=> stage = "loaded"
                      /\ fileLoaded => playing = currentFile
                      /\ isPlaying <=> stage = "loaded" /\ ~corePaused
    BY DEF ViewSettles
  <2>1. cmds = <<>> /\ ~fresh /\ published = corePaused /\ pc = "loop"
    BY DEF Quiescent
  <2>2. fileLoaded <=> stage = "loaded"
    BY QuietPhase
  <2>3. fileLoaded => playing = currentFile /\ currentFile # NoFile
    BY QuietPhase DEF HandoffAt, QueueSound, CoreAt, Nth
  <2>4. paused = corePaused
    <3>1. Pauses(cmds) = {}
      BY <2>1 DEF Pauses
    <3>2. QED
      BY <2>1, <3>1 DEF PauseInv, Final
  <2>5. isPlaying <=> fileLoaded /\ ~paused /\ currentFile # NoFile
    BY <2>1, LampAtLoop DEF LampExact
  <2>6. QED
    BY <2>2, <2>3, <2>4, <2>5
<1>2. QED
  BY <1>1, GaplessHolds, PTL

LoadsOnlyUnloaded ==
    (\E i \in Len(cmds) + 1 .. Len(cmds') : cmds'[i].op = "load") => ~fileLoaded \/ raced

LEMMA NoLoadAdded ==
    ASSUME TypeInv, \/ cmds' = cmds
                    \/ cmds # <<>> /\ cmds' = Tail(cmds)
                    \/ cmds' = Append(cmds, Core!SetPause(FALSE))
    PROVE  LoadsOnlyUnloaded
<1>1. cmds \in Seq(Core!Request) /\ Core!SetPause(FALSE) \in Core!Request
  BY TypeInvIs, RequestTypes DEF TypeParts, TransportTyped
<1>2. Core!SetPause(FALSE).op # "load"
  BY DEF Core!SetPause
<1> DEFINE R == Core!Request
           p == Core!SetPause(FALSE)
<1>3. cmds \in Seq(R) /\ p \in R /\ p.op # "load"
  BY <1>1, <1>2
<1> HIDE DEF R, p
<1>4. CASE cmds' = cmds
  <2>1. Len(cmds) + 1 .. Len(cmds') = {}
    BY <1>3, <1>4
  <2>2. QED
    BY <2>1 DEF LoadsOnlyUnloaded
<1>5. CASE cmds # <<>> /\ cmds' = Tail(cmds)
  <2>1. Len(cmds) + 1 .. Len(cmds') = {}
    BY <1>3, <1>5
  <2>2. QED
    BY <2>1 DEF LoadsOnlyUnloaded
<1>6. CASE cmds' = Append(cmds, p)
  <2>1. \A i \in Len(cmds) + 1 .. Len(cmds') : cmds'[i] = p
    BY <1>3, <1>6
  <2>2. QED
    BY <1>3, <2>1 DEF LoadsOnlyUnloaded
<1>7. QED
  BY <1>4, <1>5, <1>6 DEF p

\* In the same circumstances no file is loaded over one that plays before the
\* core has left an entry inside an edit of its queue: the
\* additions, moves and changes of mode do not interrupt the active track, and
\* the tracks of an album are handed over, not reloaded (README.md:107).
THEOREM NeverInterruptedByEdits == ASSUME EditsOnly PROVE Spec => NeverInterrupted
<1>1. ASSUME TypeInv, GaplessInv, [Next]_vars PROVE LoadsOnlyUnloaded
  <2>1. CASE TrackSelected
    <3>1. Resting
      BY <1>1, <2>1 DEF GaplessInv, TrackSelected, Phase, Loading, Handoffs, HandoffAt
    <3>2. QED
      BY <3>1 DEF Resting, LoadsOnlyUnloaded
  <2>2. CASE Release
    BY <1>1, <2>2, NoLoadAdded DEF Release, AskPause
  <2>3. CASE CoreExec
    BY <1>1, <2>3, NoLoadAdded
       DEF CoreExec, CoreDo, Core!Exec, Core!ExecPause, Core!ExecLoad, Core!ExecStop
  <2>4. CASE CoreAdvance \/ CorePublish
    BY <1>1, <2>4, NoLoadAdded
       DEF CoreAdvance, CorePublish, CoreDo, Core!Publish, Core!Advance, Core!Unwind, Core!Start,
           Core!Loaded, Core!Fail, Core!Eof, Core!NextEntry
  <2>5. CASE User
    <3>1. cmds' = cmds
      <4>1. CASE SetGaplessEnabled
        BY <4>1 DEF SetGaplessEnabled
      <4>2. CASE Edit /\ Heard
        <5>1. PlaylistInv
          BY <1>1, TypeInvIs DEF TypeParts
        <5>2. ~signals'.emptied
          BY <4>2, <5>1, EditCurrent
        <5>3. QED
          BY <4>2, <5>2 DEF Heard
      <4>3. QED
        BY <2>5, <4>1, <4>2
           DEF EditsOnly, User, EditPlaylist, TogglePlayPause, PressStop, SetGaplessEnabled, Act, Edit
    <3>2. QED
      BY <1>1, <3>1, NoLoadAdded
  <2>6. CASE AddFile
    <3>1. Edit /\ Heard /\ PlaylistInv
      BY <1>1, <2>6, TypeInvIs DEF AddFile, Edit, TypeParts
    <3>2. cmds' = cmds
      BY <3>1, EditCurrent DEF Heard
    <3>3. QED
      BY <1>1, <3>2, NoLoadAdded
  <2>7. CASE SyncTimeout \/ Tick \/ SyncCheck \/ SyncEdit \/ TickDone \/ PauseChanged
             \/ FileStarted \/ FileLoaded \/ FileEnded \/ Vanish \/ UNCHANGED vars
    <3>1. cmds' = cmds
      BY <2>7 DEF SyncTimeout, Tick, SyncCheck, SyncEdit, TickDone, PauseChanged, FileStarted,
         FileLoaded, FileEnded, Vanish, vars
    <3>2. QED
      BY <1>1, <3>1, NoLoadAdded
  <2>8. QED
    BY <1>1, <2>1, <2>2, <2>3, <2>4, <2>5, <2>6, <2>7 DEF Next, Loop, Handler
<1>2. [][LoadsOnlyUnloaded]_vars => NeverInterrupted
  BY DEF NeverInterrupted, LoadsOnlyUnloaded
<1>3. TypeInv /\ LampInv /\ PauseInv /\ (~raced => GaplessInv) /\ [Next]_vars => LoadsOnlyUnloaded
  <2>1. raced => LoadsOnlyUnloaded
    BY DEF LoadsOnlyUnloaded
  <2>2. QED
    BY <1>1, <2>1
<1>4. QED
  BY <1>2, <1>3, GaplessHolds, PTL DEF Spec
=============================================================================
