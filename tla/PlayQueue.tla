------------------------------ MODULE PlayQueue ------------------------------
(***************************************************************************)
(* What a playlist promises its listener: an ordered queue of distinct     *)
(* files and the identity of the current one.  There is no current row     *)
(* here to be kept in step with insertions, removals and moves; that is    *)
(* an implementation matter.  PlaylistModel is shown to implement this     *)
(* specification.                                                          *)
(***************************************************************************)
EXTENDS Integers, Sequences, SequencesExt

CONSTANTS File,    \* the media files that can be queued
          NoFile   \* "no current file"

VARIABLES queue,   \* the files in playing order
          cur      \* the current file, NoFile when the queue is empty

vars == <<queue, cur>>

Init == queue = <<>> /\ cur = NoFile

\* A new file goes to the end; the first one becomes current.
Add(f) ==
    /\ f \notin ToSet(queue)
    /\ queue' = Append(queue, f)
    /\ cur' = IF queue = <<>> THEN f ELSE cur

\* Removing the current file passes the role to its successor, or to the new
\* last file; removing another one never changes who is current.
RemovePlace(i) ==
    /\ queue' = RemoveAt(queue, i)
    /\ \/ queue[i] # cur /\ UNCHANGED cur
       \/ queue[i] = cur /\ i < Len(queue) /\ cur' = queue[i + 1]
       \/ queue[i] = cur /\ i = Len(queue) /\ i > 1 /\ cur' = queue[i - 1]
       \/ queue[i] = cur /\ Len(queue) = 1 /\ cur' = NoFile

\* Reordering never changes who is current.
MovePlace(i, j) ==
    /\ queue' = InsertAt(RemoveAt(queue, i), j, queue[i])
    /\ UNCHANGED cur

Select(i) == cur' = queue[i] /\ UNCHANGED queue

Clear == queue' = <<>> /\ cur' = NoFile

Next == \/ \E f \in File : Add(f)
        \/ \E i \in DOMAIN queue : RemovePlace(i) \/ Select(i)
        \/ \E i, j \in DOMAIN queue : MovePlace(i, j)
        \/ Clear

Spec == Init /\ [][Next]_vars
=============================================================================
