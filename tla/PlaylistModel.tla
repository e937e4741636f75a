---------------------------- MODULE PlaylistModel ----------------------------
(***************************************************************************)
(* models/PlaylistModel.cpp: the ordered list of tracks, the current row   *)
(* and the Qt signals each operation emits.                                *)
(*                                                                         *)
(* A track is its absolute path (File); its tags are left out.  Rows are   *)
(* numbered from 0 as in the code, sequences from 1.  An addition of many  *)
(* files (a dropped selection, a folder, a playlist, the command line) is  *)
(* a loop of addFile calls during which the GUI thread does nothing else:  *)
(* the files still to be added are in `batch`, one addFile is one step,    *)
(* and every other operation waits for the batch to be empty.              *)
(***************************************************************************)
EXTENDS Integers, Sequences, SequencesExt

CONSTANTS File,        \* paths of media files with a supported suffix
          NoFile,      \* the null path
          Volatile,    \* files that may disappear from the disk
          Batches      \* the lists of files a user may add or load at once

ASSUME FileAssumption == NoFile \notin File
ASSUME BatchAssumption == Batches \subseteq Seq(File) /\ Volatile \subseteq File

VARIABLES tracks,        \* m_tracks
          currentIndex,  \* m_currentIndex, -1 when there is no current track
          batch,         \* the rest of the addFile loop being executed
          present,       \* the files that exist on disk
          signals        \* what the last step emitted

vars == <<tracks, currentIndex, batch, present, signals>>

(***************************************************************************)
(* The signals of one operation.  `index`, `count` and `moved` stand for   *)
(* currentIndexChanged, countChanged and rowsMoved, `selected` for the     *)
(* argument of trackSelected.                                              *)
(***************************************************************************)
Signals == [count : BOOLEAN, index : BOOLEAN, moved : BOOLEAN,
            emptied : BOOLEAN, selected : File \cup {NoFile}]

Quiet == [count |-> FALSE, index |-> FALSE, moved |-> FALSE,
          emptied |-> FALSE, selected |-> NoFile]

Count == Len(tracks)
Rows == 0 .. Count - 1

\* currentFilePath(): the path of the current row, null when there is none.
CurrentFile == IF currentIndex \in Rows THEN tracks[currentIndex + 1] ELSE NoFile

\* The tracks after the current one, in playing order.
Upcoming == SubSeq(tracks, currentIndex + 2, Count)

Init ==
    /\ tracks = <<>>
    /\ currentIndex = -1
    /\ batch = <<>>
    /\ present \in {P \in SUBSET File : File \ Volatile \subseteq P}
    /\ signals = Quiet

-----------------------------------------------------------------------------
(***************************************************************************)
(* Operations.  All but addFile need an idle GUI thread.  A definition     *)
(* marked as a fault is a plausible wrong version of the one after it,     *)
(* kept to show which property would notice; no action uses it.            *)
(***************************************************************************)
Idle == batch = <<>>

NoChange == UNCHANGED <<tracks, currentIndex>> /\ signals' = Quiet

\* Fault: trackSelected is not emitted.
SelectRowQuietly(row) ==
    \/ /\ row \in Rows \ {currentIndex}
       /\ currentIndex' = row
       /\ signals' = [Quiet EXCEPT !.index = TRUE]
       /\ UNCHANGED tracks
    \/ /\ row \notin Rows \ {currentIndex}
       /\ NoChange

\* Make `row` current and announce it, unless it is no row or is current already.
SelectRow(row) ==
    \/ /\ row \in Rows \ {currentIndex}
       /\ currentIndex' = row
       /\ signals' = [Quiet EXCEPT !.index = TRUE, !.selected = tracks[row + 1]]
       /\ UNCHANGED tracks
    \/ /\ row \notin Rows \ {currentIndex}
       /\ NoChange

SetCurrentIndex(row) == Idle /\ SelectRow(row) /\ UNCHANGED <<batch, present>>

\* Fault: no wrap-around after the last row.
NextTrackStopping ==
    Idle /\ SelectRow(currentIndex + 1) /\ UNCHANGED <<batch, present>>

NextTrack ==
    /\ Idle
    /\ \/ Count = 0 /\ NoChange
       \/ Count > 0 /\ SelectRow((currentIndex + 1) % Count)
    /\ UNCHANGED <<batch, present>>

PreviousTrack ==
    /\ Idle
    /\ \/ Count = 0 /\ NoChange
       \/ Count > 0 /\ SelectRow((currentIndex - 1 + Count) % Count)
    /\ UNCHANGED <<batch, present>>

\* Fault: the handoff goes through setCurrentIndex, which selects.
FollowPlaybackSelecting(file) ==
    /\ \/ \E row \in Rows : tracks[row + 1] = file /\ SelectRow(row)
       \/ file \notin ToSet(tracks) /\ NoChange
    /\ UNCHANGED <<batch, present>>

\* The engine started `file` by itself: move the highlight, do not select.
FollowPlayback(file) ==
    /\ \/ \E row \in Rows \ {currentIndex} :
             /\ tracks[row + 1] = file
             /\ currentIndex' = row
             /\ signals' = [Quiet EXCEPT !.index = TRUE]
             /\ UNCHANGED tracks
       \/ /\ file \notin ToSet(tracks) \/ file = CurrentFile
          /\ NoChange
    /\ UNCHANGED <<batch, present>>

\* Fault: duplicates are accepted.
AddableTwice(file) == file \in present

\* A file that exists and is not in the list yet.
Addable(file) == file \in present \ ToSet(tracks)

\* addFile() on the next file of the batch; the first track becomes current.
AddFile ==
    /\ batch # <<>>
    /\ LET file == Head(batch) IN
       \/ /\ Addable(file)
          /\ tracks' = Append(tracks, file)
          /\ \/ /\ currentIndex = -1
                /\ currentIndex' = 0
                /\ signals' = [Quiet EXCEPT !.count = TRUE, !.index = TRUE,
                                            !.selected = tracks'[1]]
             \/ /\ currentIndex # -1
                /\ signals' = [Quiet EXCEPT !.count = TRUE]
                /\ UNCHANGED currentIndex
       \/ ~Addable(file) /\ NoChange
    /\ batch' = Tail(batch)
    /\ UNCHANGED present

\* addFiles(), addFolder() and the open dialogs: the loop starts.
AddFiles(files) ==
    /\ Idle
    /\ NoChange
    /\ batch' = files
    /\ UNCHANGED present

\* Faults: m_currentIndex is not reset; only emptied() is emitted.
ClearRowsOnly ==
    /\ tracks' = <<>>
    /\ signals' = [Quiet EXCEPT !.count = TRUE, !.index = TRUE, !.emptied = TRUE]
    /\ UNCHANGED currentIndex

ClearRowsQuietly ==
    /\ tracks' = <<>>
    /\ currentIndex' = -1
    /\ signals' = [Quiet EXCEPT !.emptied = TRUE]

ClearRows ==
    /\ tracks' = <<>>
    /\ currentIndex' = -1
    /\ signals' = [Quiet EXCEPT !.count = TRUE, !.index = TRUE, !.emptied = TRUE]

Clear == Idle /\ ClearRows /\ UNCHANGED <<batch, present>>

\* loadPlaylist(): the list is replaced only when some entry can be played.
\* The code keeps the playable entries, once each; here addFile, which makes
\* the same two tests on an empty list, skips the others.
LoadPlaylist(files) ==
    /\ Idle
    /\ \/ /\ ToSet(files) \cap present = {}
          /\ NoChange
          /\ UNCHANGED batch
       \/ /\ ToSet(files) \cap present # {}
          /\ ClearRows
          /\ batch' = files
    /\ UNCHANGED present

\* Fault: removing the current row steps back as well.
IndexAfterRemoveBack(row) ==
    IF row <= currentIndex THEN currentIndex - 1 ELSE currentIndex

\* The current row after row `row` has been removed.
IndexAfterRemove(row) ==
    IF Count = 1 THEN -1
    ELSE IF row < currentIndex THEN currentIndex - 1
    ELSE IF row = currentIndex /\ row = Count - 1 THEN row - 1
    ELSE currentIndex

RemoveTrack(row) ==
    /\ Idle
    /\ row \in Rows
    /\ tracks' = RemoveAt(tracks, row + 1)
    /\ currentIndex' = IndexAfterRemove(row)
    /\ signals' = [count |-> TRUE, moved |-> FALSE,
                   index |-> Count = 1 \/ row <= currentIndex,
                   emptied |-> Count = 1,
                   selected |-> IF row = currentIndex THEN CurrentFile' ELSE NoFile]
    /\ UNCHANGED <<batch, present>>

\* Fault: a track moved exactly onto the current row is not counted.
IndexAfterMoveStrict(from, to) ==
    IF currentIndex = from THEN to
    ELSE IF from < currentIndex /\ to > currentIndex THEN currentIndex - 1
    ELSE IF from > currentIndex /\ to < currentIndex THEN currentIndex + 1
    ELSE currentIndex

\* The current row after the track of row `from` has been moved to row `to`.
IndexAfterMove(from, to) ==
    IF currentIndex = from THEN to
    ELSE IF from < currentIndex /\ to >= currentIndex THEN currentIndex - 1
    ELSE IF from > currentIndex /\ to <= currentIndex THEN currentIndex + 1
    ELSE currentIndex

MoveTrack(from, to) ==
    /\ Idle
    /\ from \in Rows /\ to \in Rows /\ from # to
    /\ tracks' = InsertAt(RemoveAt(tracks, from + 1), to + 1, tracks[from + 1])
    /\ currentIndex' = IndexAfterMove(from, to)
    /\ signals' = [Quiet EXCEPT !.moved = TRUE, !.index = currentIndex' # currentIndex]
    /\ UNCHANGED <<batch, present>>

\* A file disappears from the disk (not an operation of the program).
Vanish(file) ==
    /\ file \in present \cap Volatile
    /\ present' = present \ {file}
    /\ signals' = Quiet
    /\ UNCHANGED <<tracks, currentIndex, batch>>

-----------------------------------------------------------------------------
\* What the user, the dialogs and the engine's end of track ask of the list.
Operate ==
    \/ AddFile
    \/ \E files \in Batches : AddFiles(files) \/ LoadPlaylist(files)
    \/ \E row \in Rows : SetCurrentIndex(row) \/ RemoveTrack(row)
    \/ \E from, to \in Rows : MoveTrack(from, to)
    \/ NextTrack \/ PreviousTrack \/ Clear

Next ==
    \/ Operate
    \/ \E file \in File : FollowPlayback(file)
    \/ \E file \in Volatile : Vanish(file)

Spec == Init /\ [][Next]_vars

-----------------------------------------------------------------------------
(***************************************************************************)
(* Properties.                                                             *)
(***************************************************************************)

\* The variables hold values of their types (PlaylistModel.hpp:109-110).
TypeOK ==
    /\ tracks \in Seq(File)
    /\ currentIndex \in -1 .. Count - 1
    /\ batch \in Seq(File)
    /\ present \subseteq File
    /\ signals \in Signals

\* Whatever the history of additions, removals and moves, there is a current
\* row exactly when there are tracks: addFile, removeTrack and clear
\* (PlaylistModel.cpp:164-346) keep m_currentIndex in step with the list.
IndexValid == currentIndex = -1 <=> tracks = <<>>

\* No file is listed twice: addFile's scan (PlaylistModel.cpp:169-171) is the
\* only guard, and followPlayback relies on it to find the right row.
UniqueTracks ==
    \A i, j \in DOMAIN tracks : tracks[i] = tracks[j] => i = j

\* Every change of what is to play after the current track is signalled by one
\* of the three signals AudioPlayer resynchronises mpv's queue on
\* (AudioPlayer.cpp:228-231): no edit goes unnoticed.
ResyncSignalled ==
    [][Upcoming' # Upcoming
          => signals'.count \/ signals'.index \/ signals'.moved]_vars

\* No operation of the list moves the current track silently: a new one is
\* announced for loading and losing the last one by emptied().  A selection, a
\* removal or a first addition that forgot to (PlaylistModel.cpp:104-111,
\* 164-210, 311-346) would leave the player on the old file.  The one silent
\* move, followPlayback after a handoff, is no operation of the list.
SelectionAnnounced ==
    [][Operate /\ CurrentFile' # CurrentFile
          => \/ signals'.selected = CurrentFile' /\ CurrentFile' # NoFile
             \/ signals'.emptied /\ CurrentFile' = NoFile]_vars

\* The current track keeps its identity through every edit of the list: with
\* the current row read as a file, each operation is one of PlayQueue's.
Queue == INSTANCE PlayQueue WITH queue <- tracks, cur <- CurrentFile
ImplementsPlayQueue == Queue!Spec
=============================================================================
