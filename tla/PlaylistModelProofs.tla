------------------------- MODULE PlaylistModelProofs -------------------------
(***************************************************************************)
(* What PlaylistModel guarantees for every set of files, proved.           *)
(***************************************************************************)
EXTENDS PlaylistModel, SequenceTheorems, TLAPS

(***************************************************************************)
(* Lists with one element taken out or put in.                             *)
(***************************************************************************)

\* Taking element i out of a list shifts those after it.
LEMMA RemoveAtElements ==
    ASSUME NEW S, NEW s \in Seq(S), NEW i \in 1 .. Len(s)
    PROVE  /\ RemoveAt(s, i) \in Seq(S)
           /\ Len(RemoveAt(s, i)) = Len(s) - 1
           /\ \A k \in 1 .. Len(s) - 1 :
                 RemoveAt(s, i)[k] = IF k < i THEN s[k] ELSE s[k + 1]
<1> DEFINE l == SubSeq(s, 1, i - 1)
           r == SubSeq(s, i + 1, Len(s))
<1>1. /\ l \in Seq(S) /\ Len(l) = i - 1
      /\ \A k \in 1 .. i - 1 : l[k] = s[k]
  OBVIOUS
<1>2. /\ r \in Seq(S) /\ Len(r) = Len(s) - i
      /\ \A k \in 1 .. Len(s) - i : r[k] = s[i + k]
  OBVIOUS
<1>3. RemoveAt(s, i) = l \o r
  BY DEF RemoveAt
<1> HIDE DEF l, r
<1>4. /\ l \o r \in Seq(S) /\ Len(l \o r) = Len(s) - 1
      /\ \A k \in 1 .. Len(s) - 1 :
            (l \o r)[k] = IF k < i THEN l[k] ELSE r[k - (i - 1)]
  <2>1. Len(l) + Len(r) = Len(s) - 1
    BY <1>1, <1>2
  <2>2. /\ l \o r \in Seq(S) /\ Len(l \o r) = Len(l) + Len(r)
        /\ \A k \in 1 .. Len(l) + Len(r) :
              (l \o r)[k] = IF k <= Len(l) THEN l[k] ELSE r[k - Len(l)]
    BY <1>1, <1>2, ConcatProperties, Zenon
  <2>3. QED
    BY <1>1, <2>1, <2>2
<1>5. ASSUME NEW k \in 1 .. Len(s) - 1
      PROVE  (l \o r)[k] = IF k < i THEN s[k] ELSE s[k + 1]
  BY <1>1, <1>2, <1>4
<1>6. QED
  BY <1>3, <1>4, <1>5

\* Putting e at place i shifts the elements from there on.
LEMMA InsertAtElements ==
    ASSUME NEW s \in Seq(File), NEW e \in File, NEW i \in 1 .. Len(s) + 1
    PROVE  /\ InsertAt(s, i, e) \in Seq(File)
           /\ Len(InsertAt(s, i, e)) = Len(s) + 1
           /\ \A k \in 1 .. Len(s) + 1 :
                 InsertAt(s, i, e)[k] = IF k < i THEN s[k]
                                        ELSE IF k = i THEN e ELSE s[k - 1]
<1> DEFINE l == SubSeq(s, 1, i - 1)
           r == SubSeq(s, i, Len(s))
<1>1. /\ l \in Seq(File) /\ Len(l) = i - 1
      /\ \A k \in 1 .. i - 1 : l[k] = s[k]
  OBVIOUS
<1>2. /\ r \in Seq(File) /\ Len(r) = Len(s) - i + 1
      /\ \A k \in 1 .. Len(s) - i + 1 : r[k] = s[i + k - 1]
  OBVIOUS
<1>3. InsertAt(s, i, e) = l \o <<e>> \o r
  BY DEF InsertAt
<1> HIDE DEF l, r
<1> DEFINE m == l \o <<e>>
<1>4. /\ m \in Seq(File) /\ Len(m) = i
      /\ \A k \in 1 .. i : m[k] = IF k < i THEN l[k] ELSE e
  BY <1>1
<1> HIDE DEF m
<1>5. /\ m \o r \in Seq(File) /\ Len(m \o r) = Len(s) + 1
      /\ \A k \in 1 .. Len(s) + 1 :
            (m \o r)[k] = IF k <= i THEN m[k] ELSE r[k - i]
  <2>1. Len(m) + Len(r) = Len(s) + 1
    BY <1>2, <1>4
  <2>2. /\ m \o r \in Seq(File) /\ Len(m \o r) = Len(m) + Len(r)
        /\ \A k \in 1 .. Len(m) + Len(r) :
              (m \o r)[k] = IF k <= Len(m) THEN m[k] ELSE r[k - Len(m)]
    BY <1>2, <1>4, ConcatProperties, Zenon
  <2>3. QED
    BY <1>4, <2>1, <2>2
<1>6. ASSUME NEW k \in 1 .. Len(s) + 1
      PROVE  (m \o r)[k] = IF k < i THEN s[k] ELSE IF k = i THEN e ELSE s[k - 1]
  <2>1. CASE k < i
    BY <1>1, <1>4, <1>5, <2>1
  <2>2. CASE k = i
    BY <1>4, <1>5, <2>2
  <2>3. CASE k > i
    <3>1. (m \o r)[k] = r[k - i] /\ k - i \in 1 .. Len(s) - i + 1
      BY <1>5, <2>3
    <3>2. r[k - i] = s[i + (k - i) - 1] /\ i + (k - i) - 1 = k - 1
      BY <1>2, <3>1
    <3>3. QED
      BY <2>3, <3>1, <3>2
  <2>4. k < i \/ k = i \/ k > i
    OBVIOUS
  <2>5. QED
    BY <2>1, <2>2, <2>3, <2>4
<1>7. QED
  BY <1>3, <1>5, <1>6 DEF m

-----------------------------------------------------------------------------
(***************************************************************************)
(* The inductive invariant.  IndexValid needs the range of currentIndex,   *)
(* and UniqueTracks the types; nothing else is needed.                     *)
(***************************************************************************)
Inv == TypeOK /\ IndexValid /\ UniqueTracks

\* What the row arithmetic needs to know of a list of tracks.
LEMMA CountFacts ==
    ASSUME TypeOK
    PROVE  /\ Count \in Nat
           /\ DOMAIN tracks = 1 .. Count
           /\ Count = 0 <=> tracks = <<>>
           /\ \A row \in Rows : tracks[row + 1] \in File
BY DEF TypeOK, Count, Rows

\* Selecting a row keeps the invariant: rows and tracks stay as they are.
LEMMA SelectRowInv ==
    ASSUME Inv, NEW row, SelectRow(row)
    PROVE  /\ UNCHANGED tracks
           /\ currentIndex' \in -1 .. Count - 1
           /\ currentIndex' = -1 <=> tracks = <<>>
           /\ signals' \in Signals
<1>1. CASE row \in Rows \ {currentIndex}
  <2>1. UNCHANGED tracks /\ currentIndex' = row
    BY <1>1 DEF SelectRow
  <2>2. row \in 0 .. Count - 1 /\ Count \in Nat /\ tracks[row + 1] \in File
    BY <1>1, CountFacts DEF Inv, Rows
  <2>3. tracks # <<>>
    BY <2>2, CountFacts DEF Inv
  <2>4. signals' = [Quiet EXCEPT !.index = TRUE, !.selected = tracks[row + 1]]
    BY <1>1 DEF SelectRow
  <2>5. signals' \in Signals
    BY <2>2, <2>4 DEF Signals, Quiet
  <2>6. QED
    BY <2>1, <2>2, <2>3, <2>5
<1>2. CASE row \notin Rows \ {currentIndex}
  <2>1. NoChange
    BY <1>2 DEF SelectRow
  <2>2. Quiet \in Signals
    BY DEF Signals, Quiet
  <2>3. QED
    BY <2>1, <2>2 DEF NoChange, Inv, TypeOK, IndexValid
<1>3. QED
  BY <1>1, <1>2

\* A step that leaves tracks, batch and present alone and selects keeps Inv.
LEMMA InvFromParts ==
    ASSUME Inv, UNCHANGED tracks, batch' \in Seq(File), present' \subseteq File,
           signals' \in Signals, currentIndex' \in -1 .. Count - 1,
           currentIndex' = -1 <=> tracks = <<>>
    PROVE  Inv'
BY DEF Inv, TypeOK, IndexValid, UniqueTracks, Count

LEMMA QuietTyped == Quiet \in Signals
BY DEF Quiet, Signals

LEMMA AddFileInv ==
    ASSUME Inv, AddFile
    PROVE  Inv'
<1> DEFINE file == Head(batch)
<1>1. file \in File /\ batch' \in Seq(File) /\ UNCHANGED present
  BY DEF AddFile, Inv, TypeOK
<1>2. CASE Addable(file)
  <2>1. tracks' = Append(tracks, file) /\ file \notin ToSet(tracks)
    BY <1>2 DEF AddFile, Addable
  <2>2. /\ tracks' \in Seq(File) /\ Count' = Count + 1
        /\ \A i \in 1 .. Count : tracks'[i] = tracks[i]
        /\ tracks'[Count + 1] = file
    BY <1>1, <2>1, AppendProperties DEF Inv, TypeOK, Count
  <2>3. \A i \in 1 .. Count : tracks[i] # file
    BY <2>1 DEF ToSet, Inv, TypeOK, Count
  <2>4. UniqueTracks'
    BY <2>2, <2>3 DEF UniqueTracks, Inv, TypeOK, Count
  <2>5. tracks' # <<>> /\ currentIndex' \in 0 .. Count
    BY <1>2, <2>2 DEF AddFile, Inv, TypeOK, Count
  <2>6. tracks'[1] \in File
    BY <2>2, <2>5 DEF Inv, TypeOK, Count
  <2>7. signals' \in Signals
    BY <1>2, <2>6 DEF AddFile, Signals, Quiet
  <2>8. TypeOK' /\ IndexValid'
    BY <1>1, <2>2, <2>5, <2>7 DEF Inv, TypeOK, IndexValid, Count
  <2>9. QED
    BY <2>4, <2>8 DEF Inv
<1>3. CASE ~Addable(file)
  BY <1>1, <1>3, QuietTyped, InvFromParts
     DEF AddFile, NoChange, Inv, TypeOK, IndexValid
<1>4. QED
  BY <1>2, <1>3

LEMMA RemoveTrackInv ==
    ASSUME Inv, NEW row \in Rows, RemoveTrack(row)
    PROVE  Inv'
<1>1. row + 1 \in 1 .. Count /\ Count \in Nat /\ row \in 0 .. Count - 1
  BY CountFacts DEF Rows, Inv
<1>2. /\ tracks' \in Seq(File) /\ Count' = Count - 1
      /\ \A k \in 1 .. Count - 1 :
            tracks'[k] = IF k < row + 1 THEN tracks[k] ELSE tracks[k + 1]
  BY <1>1, RemoveAtElements DEF RemoveTrack, Inv, TypeOK, Count
<1>3. UniqueTracks'
  <2> SUFFICES ASSUME NEW i \in 1 .. Count - 1, NEW j \in 1 .. Count - 1,
                      tracks'[i] = tracks'[j]
               PROVE  i = j
    BY <1>1, <1>2 DEF UniqueTracks, Count
  <2> DEFINE u == IF i < row + 1 THEN i ELSE i + 1
             v == IF j < row + 1 THEN j ELSE j + 1
  <2>1. u \in 1 .. Count /\ v \in 1 .. Count /\ tracks[u] = tracks[v]
    BY <1>1, <1>2
  <2>2. u = v
    <3> HIDE DEF u, v
    <3>1. QED
      BY <2>1, CountFacts DEF Inv, UniqueTracks
  <2>3. QED
    BY <1>1, <2>2
<1>4. /\ currentIndex' \in -1 .. Count - 2
      /\ currentIndex' = -1 <=> Count = 1
  BY <1>1, CountFacts DEF RemoveTrack, IndexAfterRemove, Inv, TypeOK, IndexValid
<1>5. CurrentFile' \in File \cup {NoFile}
  BY <1>2 DEF CurrentFile, Rows, Count
<1>6. signals' \in Signals
  BY <1>5 DEF RemoveTrack, Signals
<1>7. TypeOK' /\ IndexValid'
  BY <1>1, <1>2, <1>4, <1>6 DEF RemoveTrack, Inv, TypeOK, IndexValid, Count
<1>8. QED
  BY <1>3, <1>7 DEF Inv

\* A move as one rearrangement: the places between `from` and `to` shift by one.
Source(from, to, k) ==
    IF k = to THEN from
    ELSE IF from <= k /\ k < to THEN k + 1
    ELSE IF to < k /\ k <= from THEN k - 1
    ELSE k

LEMMA MoveElements ==
    ASSUME Inv, NEW from \in Rows, NEW to \in Rows, MoveTrack(from, to)
    PROVE  /\ tracks' \in Seq(File) /\ Count' = Count
           /\ \A k \in Rows : tracks'[k + 1] = tracks[Source(from, to, k) + 1]
<1> DEFINE s == RemoveAt(tracks, from + 1)
           e == tracks[from + 1]
<1>1. /\ from \in 0 .. Count - 1 /\ to \in 0 .. Count - 1 /\ Count \in Nat
      /\ from + 1 \in 1 .. Count /\ e \in File
  BY CountFacts DEF Rows, Inv
<1>2. /\ s \in Seq(File) /\ Len(s) = Count - 1
      /\ \A k \in 1 .. Count - 1 :
            s[k] = IF k < from + 1 THEN tracks[k] ELSE tracks[k + 1]
  BY <1>1, RemoveAtElements DEF Inv, TypeOK, Count
<1> HIDE DEF s, e
<1>3. /\ InsertAt(s, to + 1, e) \in Seq(File)
      /\ Len(InsertAt(s, to + 1, e)) = Count
      /\ \A k \in 1 .. Count :
            InsertAt(s, to + 1, e)[k] =
               IF k < to + 1 THEN s[k] ELSE IF k = to + 1 THEN e ELSE s[k - 1]
  <2>1. to + 1 \in 1 .. Len(s) + 1 /\ Len(s) + 1 = Count
    BY <1>1, <1>2
  <2>2. QED
    <3> DEFINE place == to + 1
    <3>1. s \in Seq(File) /\ e \in File /\ place \in 1 .. Len(s) + 1
      BY <1>1, <1>2, <2>1
    <3> HIDE DEF place
    <3>2. /\ InsertAt(s, place, e) \in Seq(File)
          /\ Len(InsertAt(s, place, e)) = Len(s) + 1
          /\ \A k \in 1 .. Len(s) + 1 :
                InsertAt(s, place, e)[k] =
                   IF k < place THEN s[k] ELSE IF k = place THEN e ELSE s[k - 1]
      BY <3>1, InsertAtElements
    <3>3. QED
      BY <2>1, <3>2 DEF place
<1>4. tracks' = InsertAt(s, to + 1, e)
  BY DEF MoveTrack, s, e
<1>5. ASSUME NEW k \in Rows
      PROVE  tracks'[k + 1] = tracks[Source(from, to, k) + 1]
  <2>1. k \in 0 .. Count - 1 /\ k + 1 \in 1 .. Count
    BY <1>1 DEF Rows
  <2>2. tracks'[k + 1] = IF k < to THEN s[k + 1]
                         ELSE IF k = to THEN e ELSE s[k]
    BY <1>1, <1>3, <1>4, <2>1
  <2>3. CASE k < to
    BY <1>1, <1>2, <2>1, <2>2, <2>3 DEF Source
  <2>4. CASE k = to
    BY <1>1, <2>2, <2>4 DEF Source, e
  <2>5. CASE k > to
    BY <1>1, <1>2, <2>1, <2>2, <2>5 DEF Source
  <2>6. QED
    BY <1>1, <2>1, <2>3, <2>4, <2>5
<1>6. QED
  BY <1>3, <1>4, <1>5 DEF Count

LEMMA MoveTrackInv ==
    ASSUME Inv, NEW from \in Rows, NEW to \in Rows, MoveTrack(from, to)
    PROVE  Inv'
<1>1. /\ from \in 0 .. Count - 1 /\ to \in 0 .. Count - 1 /\ Count \in Nat
      /\ DOMAIN tracks = 1 .. Count
  BY CountFacts DEF Rows, Inv
<1>2. /\ tracks' \in Seq(File) /\ Count' = Count
      /\ \A k \in Rows : tracks'[k + 1] = tracks[Source(from, to, k) + 1]
  BY MoveElements
<1>3. \A j, k \in 0 .. Count - 1 :
         /\ Source(from, to, k) \in 0 .. Count - 1
         /\ Source(from, to, j) = Source(from, to, k) => j = k
  BY <1>1 DEF Source
<1>4. UniqueTracks'
  <2> SUFFICES ASSUME NEW i \in 1 .. Count, NEW j \in 1 .. Count,
                      tracks'[i] = tracks'[j]
               PROVE  i = j
    BY <1>2 DEF UniqueTracks, Count
  <2> DEFINE p == i - 1
             q == j - 1
  <2>1. p \in 0 .. Count - 1 /\ q \in 0 .. Count - 1 /\ i = p + 1 /\ j = q + 1
    BY <1>1
  <2>2. tracks[Source(from, to, p) + 1] = tracks[Source(from, to, q) + 1]
    BY <1>2, <2>1 DEF Rows
  <2>3. Source(from, to, p) = Source(from, to, q)
    <3> DEFINE u == Source(from, to, p)
               v == Source(from, to, q)
    <3>1. u \in 0 .. Count - 1 /\ v \in 0 .. Count - 1
      BY <1>3, <2>1
    <3> HIDE DEF u, v
    <3>2. tracks[u + 1] = tracks[v + 1]
      BY <2>2 DEF u, v
    <3>3. u + 1 = v + 1
      BY <1>1, <3>1, <3>2 DEF Inv, UniqueTracks
    <3>4. QED
      BY <3>1, <3>3 DEF u, v
  <2>4. QED
    BY <1>3, <2>1, <2>3
<1>5. currentIndex' \in 0 .. Count - 1
  BY <1>1 DEF MoveTrack, IndexAfterMove, Inv, TypeOK, IndexValid, Count, Rows
<1>6. signals' \in Signals
  BY DEF MoveTrack, Signals, Quiet
<1>7. TypeOK' /\ IndexValid'
  BY <1>1, <1>2, <1>5, <1>6 DEF MoveTrack, Inv, TypeOK, IndexValid, Count
<1>8. QED
  BY <1>4, <1>7 DEF Inv

LEMMA EmptyListInv ==
    ASSUME Inv, ClearRows, batch' \in Seq(File), UNCHANGED present
    PROVE  Inv'
<1>1. tracks' = <<>> /\ currentIndex' = -1 /\ signals' \in Signals
  BY DEF ClearRows, Signals, Quiet
<1>2. TypeOK' /\ IndexValid'
  BY <1>1 DEF Inv, TypeOK, IndexValid, Count
<1>3. UniqueTracks'
  BY <1>1 DEF UniqueTracks
<1>4. QED
  BY <1>2, <1>3 DEF Inv

LEMMA NoChangeInv ==
    ASSUME Inv, NoChange, batch' \in Seq(File), present' \subseteq File
    PROVE  Inv'
BY QuietTyped, InvFromParts DEF NoChange, Inv, TypeOK, IndexValid

LEMMA SelectionInv ==
    ASSUME Inv, NEW row, SelectRow(row), UNCHANGED <<batch, present>>
    PROVE  Inv'
BY SelectRowInv, InvFromParts DEF Inv, TypeOK

LEMMA FollowPlaybackInv ==
    ASSUME Inv, NEW file \in File, FollowPlayback(file)
    PROVE  Inv'
<1>1. UNCHANGED <<batch, present>> /\ batch \in Seq(File) /\ present \subseteq File
  BY DEF FollowPlayback, Inv, TypeOK
<1>2. CASE NoChange
  BY <1>1, <1>2, NoChangeInv
<1>3. ASSUME NEW row \in Rows \ {currentIndex},
             currentIndex' = row, UNCHANGED tracks,
             signals' = [Quiet EXCEPT !.index = TRUE]
      PROVE  Inv'
  <2>1. row \in 0 .. Count - 1 /\ Count \in Nat
    BY CountFacts DEF Rows, Inv
  <2>2. signals' \in Signals
    BY <1>3 DEF Signals, Quiet
  <2>3. tracks # <<>>
    BY <2>1, CountFacts DEF Inv
  <2>4. QED
    BY <1>1, <1>3, <2>1, <2>2, <2>3, InvFromParts
<1>4. QED
  BY <1>2, <1>3 DEF FollowPlayback

LEMMA InitInv == Init => Inv
<1> SUFFICES ASSUME Init PROVE Inv
  OBVIOUS
<1>1. tracks = <<>> /\ currentIndex = -1 /\ batch = <<>> /\ signals \in Signals
  BY QuietTyped DEF Init
<1>2. present \subseteq File
  BY DEF Init
<1>3. QED
  BY <1>1, <1>2 DEF Inv, TypeOK, IndexValid, UniqueTracks, Count

LEMMA NextInv == Inv /\ [Next]_vars => Inv'
<1> SUFFICES ASSUME Inv, [Next]_vars PROVE Inv'
  OBVIOUS
<1> USE DEF Inv
<1>0. batch \in Seq(File) /\ present \subseteq File
  BY DEF TypeOK
<1>1. CASE AddFile
  BY <1>1, AddFileInv
<1>2. ASSUME NEW files \in Batches, AddFiles(files)
      PROVE  Inv'
  BY <1>0, <1>2, BatchAssumption, NoChangeInv DEF AddFiles
<1>3. ASSUME NEW files \in Batches, LoadPlaylist(files)
      PROVE  Inv'
  BY <1>0, <1>3, BatchAssumption, NoChangeInv, EmptyListInv DEF LoadPlaylist
<1>4. ASSUME NEW row \in Rows, SetCurrentIndex(row)
      PROVE  Inv'
  BY <1>4, SelectionInv DEF SetCurrentIndex
<1>5. ASSUME NEW row \in Rows, RemoveTrack(row)
      PROVE  Inv'
  BY <1>5, RemoveTrackInv
<1>6. ASSUME NEW from \in Rows, NEW to \in Rows, MoveTrack(from, to)
      PROVE  Inv'
  BY <1>6, MoveTrackInv
<1>7. CASE NextTrack
  BY <1>0, <1>7, SelectionInv, NoChangeInv DEF NextTrack
<1>8. CASE PreviousTrack
  BY <1>0, <1>8, SelectionInv, NoChangeInv DEF PreviousTrack
<1>9. CASE Clear
  BY <1>0, <1>9, EmptyListInv DEF Clear
<1>10. ASSUME NEW file \in File, FollowPlayback(file)
       PROVE  Inv'
  BY <1>10, FollowPlaybackInv
<1>11. ASSUME NEW file \in Volatile, Vanish(file)
       PROVE  Inv'
  BY <1>0, <1>11, NoChangeInv DEF Vanish, NoChange
<1>12. CASE UNCHANGED vars
  BY <1>12 DEF vars, TypeOK, IndexValid, UniqueTracks, Count
<1>13. QED
  BY <1>1, <1>2, <1>3, <1>4, <1>5, <1>6, <1>7, <1>8, <1>9, <1>10, <1>11, <1>12
     DEF Next, Operate

\* In every reachable state of the playlist the variables have their types,
\* there is a current row exactly when there are tracks, and no file is listed
\* twice, for any set of files and any additions (PlaylistModel.cpp:164-417).
THEOREM PlaylistSafety == Spec => [](TypeOK /\ IndexValid /\ UniqueTracks)
<1>1. Init => Inv
  BY InitInv
<1>2. Inv /\ [Next]_vars => Inv'
  BY NextInv
<1>3. QED
  BY <1>1, <1>2, PTL DEF Spec, Inv

-----------------------------------------------------------------------------
(***************************************************************************)
(* The playlist implements PlayQueue: no row arithmetic ever hands the     *)
(* role of current track to another file than the abstract queue would.    *)
(***************************************************************************)

\* With a valid index, the current file is read off the list.
LEMMA CurrentFileValue ==
    ASSUME Inv
    PROVE  /\ currentIndex = -1 => CurrentFile = NoFile
           /\ currentIndex # -1 => /\ currentIndex \in Rows
                                   /\ currentIndex + 1 \in 1 .. Count
                                   /\ CurrentFile = tracks[currentIndex + 1]
BY CountFacts DEF CurrentFile, Rows, Inv, TypeOK

LEMMA QuietStep ==
    ASSUME NoChange
    PROVE  UNCHANGED Queue!vars
BY DEF NoChange, Queue!vars, CurrentFile, Rows, Count

LEMMA SelectStep ==
    ASSUME Inv, NEW row, SelectRow(row)
    PROVE  [Queue!Next]_(Queue!vars)
<1>1. CASE row \in Rows \ {currentIndex}
  <2>1. tracks' = tracks /\ CurrentFile' = tracks[row + 1]
    BY <1>1 DEF SelectRow, CurrentFile, Rows, Count
  <2>2. row + 1 \in DOMAIN tracks
    BY <1>1, CountFacts DEF Inv, Rows
  <2>3. Queue!Select(row + 1)
    BY <2>1 DEF Queue!Select
  <2>4. QED
    BY <2>2, <2>3 DEF Queue!Next
<1>2. CASE row \notin Rows \ {currentIndex}
  BY <1>2, QuietStep DEF SelectRow
<1>3. QED
  BY <1>1, <1>2

LEMMA FollowStep ==
    ASSUME Inv, NEW file \in File, FollowPlayback(file)
    PROVE  [Queue!Next]_(Queue!vars)
<1>1. ASSUME NEW row \in Rows \ {currentIndex},
             currentIndex' = row, UNCHANGED tracks
      PROVE  Queue!Next
  <2>1. tracks' = tracks /\ CurrentFile' = tracks[row + 1]
    BY <1>1 DEF CurrentFile, Rows, Count
  <2>2. row + 1 \in DOMAIN tracks
    BY <1>1, CountFacts DEF Inv, Rows
  <2>3. Queue!Select(row + 1)
    BY <2>1 DEF Queue!Select
  <2>4. QED
    BY <2>2, <2>3 DEF Queue!Next
<1>2. QED
  BY <1>1, QuietStep DEF FollowPlayback

LEMMA AddStep ==
    ASSUME Inv, AddFile
    PROVE  [Queue!Next]_(Queue!vars)
<1> DEFINE file == Head(batch)
<1>1. CASE Addable(file)
  <2>1. /\ file \in File /\ file \notin ToSet(tracks)
        /\ tracks' = Append(tracks, file)
    BY <1>1 DEF AddFile, Addable, Inv, TypeOK
  <2>2. /\ Count' = Count + 1 /\ Count \in Nat
        /\ \A i \in 1 .. Count : tracks'[i] = tracks[i]
        /\ tracks'[Count + 1] = file
    BY <2>1, AppendProperties DEF Inv, TypeOK, Count
  <2>3. CASE tracks = <<>>
    <3>1. currentIndex' = 0 /\ Count = 0
      BY <1>1, <2>3, CountFacts DEF AddFile, Inv, IndexValid
    <3>2. CurrentFile' = file
      BY <2>2, <3>1 DEF CurrentFile, Rows
    <3>3. Queue!Add(file)
      BY <2>1, <2>3, <3>2 DEF Queue!Add, Queue!ToSet, ToSet
    <3>4. QED
      BY <2>1, <3>3 DEF Queue!Next
  <2>4. CASE tracks # <<>>
    <3>1. currentIndex' = currentIndex /\ currentIndex # -1
      BY <1>1, <2>4 DEF AddFile, Inv, IndexValid
    <3>2. currentIndex + 1 \in 1 .. Count /\ CurrentFile = tracks[currentIndex + 1]
      BY <3>1, CurrentFileValue
    <3>3. currentIndex \in 0 .. Count
      BY <2>2, <3>2 DEF Inv, TypeOK
    <3>4. CurrentFile' = CurrentFile
      BY <2>2, <3>1, <3>2, <3>3 DEF CurrentFile, Rows
    <3>5. Queue!Add(file)
      BY <2>1, <2>4, <3>4 DEF Queue!Add, Queue!ToSet, ToSet
    <3>6. QED
      BY <2>1, <3>5 DEF Queue!Next
  <2>5. QED
    BY <2>3, <2>4
<1>2. CASE ~Addable(file)
  BY <1>2, QuietStep DEF AddFile
<1>3. QED
  BY <1>1, <1>2

LEMMA RemovePlaceStep ==
    ASSUME Inv, NEW row \in Rows, RemoveTrack(row)
    PROVE  /\ row + 1 \in DOMAIN tracks
           /\ tracks[row + 1] = CurrentFile <=> row = currentIndex
           /\ Queue!RemovePlace(row + 1)
<1>1. row + 1 \in 1 .. Count /\ Count \in Nat /\ row \in 0 .. Count - 1
  BY CountFacts DEF Rows, Inv
<1>2. /\ Count' = Count - 1
      /\ \A k \in 1 .. Count - 1 :
            tracks'[k] = IF k < row + 1 THEN tracks[k] ELSE tracks[k + 1]
  BY <1>1, RemoveAtElements DEF RemoveTrack, Inv, TypeOK, Count
<1>3. /\ currentIndex \in 0 .. Count - 1 /\ CurrentFile = tracks[currentIndex + 1]
      /\ currentIndex + 1 \in 1 .. Count /\ tracks # <<>>
  BY <1>1, CountFacts, CurrentFileValue DEF Inv, TypeOK, IndexValid
<1>4. tracks[row + 1] = CurrentFile <=> row = currentIndex
  <2> DEFINE i == row + 1
             j == currentIndex + 1
  <2>1. i \in DOMAIN tracks /\ j \in DOMAIN tracks
    BY <1>1, <1>3, CountFacts DEF Inv
  <2>2. tracks[i] = tracks[j] => i = j
    <3> HIDE DEF i, j
    <3>1. QED
      BY <2>1 DEF Inv, UniqueTracks
  <2>3. QED
    BY <1>1, <1>3, <2>2
<1>5. CurrentFile' = IF currentIndex' \in 0 .. Count - 2
                     THEN tracks'[currentIndex' + 1] ELSE NoFile
  BY <1>1, <1>2 DEF CurrentFile, Rows
<1>6. currentIndex' = IndexAfterRemove(row)
  BY DEF RemoveTrack
<1>7. Queue!RemovePlace(row + 1)
  <2>1. tracks' = Queue!RemoveAt(tracks, row + 1)
    BY DEF RemoveTrack, RemoveAt, Queue!RemoveAt
  <2>2. CASE row # currentIndex
    <3>1. CurrentFile' = CurrentFile
      BY <1>1, <1>2, <1>3, <1>5, <1>6, <2>2 DEF IndexAfterRemove
    <3>2. QED
      BY <1>4, <2>1, <2>2, <3>1 DEF Queue!RemovePlace
  <2>3. CASE row = currentIndex /\ row + 1 < Count
    <3>1. CurrentFile' = tracks[row + 1 + 1]
      BY <1>1, <1>2, <1>3, <1>5, <1>6, <2>3 DEF IndexAfterRemove
    <3>2. QED
      BY <1>4, <2>1, <2>3, <3>1 DEF Queue!RemovePlace, Count
  <2>4. CASE row = currentIndex /\ row + 1 = Count /\ Count > 1
    <3>1. CurrentFile' = tracks[row]
      BY <1>1, <1>2, <1>3, <1>5, <1>6, <2>4 DEF IndexAfterRemove
    <3>2. (row + 1) - 1 = row /\ row + 1 > 1 /\ row + 1 = Len(tracks)
      BY <1>1, <2>4 DEF Count
    <3>3. CurrentFile' = tracks[(row + 1) - 1]
      BY <3>1, <3>2
    <3>4. tracks[row + 1] = CurrentFile
      BY <1>4, <2>4
    <3>5. QED
      BY <2>1, <3>2, <3>3, <3>4 DEF Queue!RemovePlace
  <2>5. CASE row = currentIndex /\ Count = 1
    <3>1. CurrentFile' = NoFile
      BY <1>1, <1>2, <1>3, <1>5, <1>6, <2>5 DEF IndexAfterRemove
    <3>2. QED
      BY <1>4, <2>1, <2>5, <3>1 DEF Queue!RemovePlace, Count
  <2>6. QED
    BY <1>1, <2>2, <2>3, <2>4, <2>5
<1>8. row + 1 \in DOMAIN tracks
  BY <1>1, CountFacts DEF Inv
<1>9. QED
  BY <1>4, <1>7, <1>8

LEMMA RemoveStep ==
    ASSUME Inv, NEW row \in Rows, RemoveTrack(row)
    PROVE  Queue!Next
BY RemovePlaceStep DEF Queue!Next

LEMMA MoveKeepsCurrent ==
    ASSUME Inv, NEW from \in Rows, NEW to \in Rows, MoveTrack(from, to)
    PROVE  CurrentFile' = CurrentFile
<1>1. /\ from \in 0 .. Count - 1 /\ to \in 0 .. Count - 1 /\ Count \in Nat
      /\ DOMAIN tracks = 1 .. Count
  BY CountFacts DEF Rows, Inv
<1>2. /\ Count' = Count
      /\ \A k \in Rows : tracks'[k + 1] = tracks[Source(from, to, k) + 1]
  BY MoveElements
<1>3. currentIndex \in 0 .. Count - 1 /\ CurrentFile = tracks[currentIndex + 1]
  BY <1>1, CountFacts, CurrentFileValue DEF Inv, TypeOK, IndexValid
<1>4. /\ currentIndex' \in 0 .. Count - 1
      /\ Source(from, to, currentIndex') = currentIndex
  BY <1>1, <1>3 DEF MoveTrack, IndexAfterMove, Source
<1>5. CurrentFile' = tracks'[currentIndex' + 1]
  BY <1>2, <1>4 DEF CurrentFile, Rows
<1>6. tracks'[currentIndex' + 1] = tracks[currentIndex + 1]
  BY <1>2, <1>4 DEF Rows
<1>7. QED
  BY <1>3, <1>5, <1>6

LEMMA MoveStep ==
    ASSUME Inv, NEW from \in Rows, NEW to \in Rows, MoveTrack(from, to)
    PROVE  Queue!Next
<1>1. Queue!MovePlace(from + 1, to + 1)
  <2>1. tracks' = Queue!InsertAt(Queue!RemoveAt(tracks, from + 1), to + 1,
                                 tracks[from + 1])
    BY DEF MoveTrack, InsertAt, RemoveAt, Queue!InsertAt, Queue!RemoveAt
  <2>2. QED
    BY <2>1, MoveKeepsCurrent DEF Queue!MovePlace
<1>2. from + 1 \in DOMAIN tracks /\ to + 1 \in DOMAIN tracks
  BY CountFacts DEF Rows, Inv
<1>3. QED
  BY <1>1, <1>2 DEF Queue!Next

LEMMA ClearStep ==
    ASSUME ClearRows
    PROVE  Queue!Next
<1>1. tracks' = <<>> /\ CurrentFile' = NoFile
  BY DEF ClearRows, CurrentFile, Rows, Count
<1>2. QED
  BY <1>1 DEF Queue!Next, Queue!Clear

LEMMA QueueInit == Init => Queue!Init
BY DEF Init, Queue!Init, CurrentFile, Rows, Count

LEMMA QueueNext == Inv /\ [Next]_vars => [Queue!Next]_(Queue!vars)
<1> SUFFICES ASSUME Inv, [Next]_vars PROVE [Queue!Next]_(Queue!vars)
  OBVIOUS
<1>1. CASE AddFile
  BY <1>1, AddStep
<1>2. ASSUME NEW files \in Batches, AddFiles(files)
      PROVE  UNCHANGED Queue!vars
  BY <1>2, QuietStep DEF AddFiles
<1>3. ASSUME NEW files \in Batches, LoadPlaylist(files)
      PROVE  [Queue!Next]_(Queue!vars)
  BY <1>3, QuietStep, ClearStep DEF LoadPlaylist
<1>4. ASSUME NEW row \in Rows, SetCurrentIndex(row)
      PROVE  [Queue!Next]_(Queue!vars)
  BY <1>4, SelectStep DEF SetCurrentIndex
<1>5. ASSUME NEW row \in Rows, RemoveTrack(row)
      PROVE  Queue!Next
  BY <1>5, RemoveStep
<1>6. ASSUME NEW from \in Rows, NEW to \in Rows, MoveTrack(from, to)
      PROVE  Queue!Next
  BY <1>6, MoveStep
<1>7. CASE NextTrack
  BY <1>7, SelectStep, QuietStep DEF NextTrack
<1>8. CASE PreviousTrack
  BY <1>8, SelectStep, QuietStep DEF PreviousTrack
<1>9. CASE Clear
  BY <1>9, ClearStep DEF Clear
<1>10. ASSUME NEW file \in File, FollowPlayback(file)
       PROVE  [Queue!Next]_(Queue!vars)
  BY <1>10, FollowStep
<1>11. ASSUME NEW file \in Volatile, Vanish(file)
       PROVE  UNCHANGED Queue!vars
  BY <1>11, QuietStep DEF Vanish, NoChange
<1>12. CASE UNCHANGED vars
  BY <1>12 DEF vars, Queue!vars, CurrentFile, Rows, Count
<1>13. QED
  BY <1>1, <1>2, <1>3, <1>4, <1>5, <1>6, <1>7, <1>8, <1>9, <1>10, <1>11, <1>12
     DEF Next, Operate

\* Through every addition, removal, move, selection and handoff the current
\* track is the one the abstract queue names: the row arithmetic of
\* PlaylistModel.cpp:104-111 and 311-431 is right for lists of every length.
THEOREM PlaylistRefinesQueue == Spec => ImplementsPlayQueue
<1>1. Init => Queue!Init
  BY QueueInit
<1>2. Inv /\ [Next]_vars => [Queue!Next]_(Queue!vars)
  BY QueueNext
<1>3. Spec => []Inv
  BY PlaylistSafety DEF Inv
<1>4. QED
  BY <1>1, <1>2, <1>3, PTL DEF Spec, ImplementsPlayQueue, Queue!Spec

-----------------------------------------------------------------------------
(***************************************************************************)
(* What the operations announce.                                           *)
(***************************************************************************)
Resync == Upcoming' # Upcoming => signals'.count \/ signals'.index \/ signals'.moved

LEMMA UnchangedUpcoming == UNCHANGED <<tracks, currentIndex>> => Upcoming' = Upcoming
BY DEF Upcoming, Count

LEMMA SelectResyncs == ASSUME NEW row, SelectRow(row) PROVE Resync
BY UnchangedUpcoming DEF Resync, SelectRow, NoChange, Quiet

LEMMA ClearResyncs == ClearRows => Resync
BY DEF Resync, ClearRows, Quiet

LEMMA NextResyncs == [Next]_vars => Resync
<1> SUFFICES ASSUME [Next]_vars PROVE Resync
  OBVIOUS
<1>1. CASE AddFile
  BY <1>1, UnchangedUpcoming DEF AddFile, NoChange, Resync, Quiet
<1>2. CASE NextTrack \/ PreviousTrack
  BY <1>2, SelectResyncs, UnchangedUpcoming DEF NextTrack, PreviousTrack, NoChange, Resync
<1>3. CASE Clear
  BY <1>3, ClearResyncs DEF Clear
<1>4. ASSUME NEW files \in Batches, AddFiles(files) \/ LoadPlaylist(files)
      PROVE  Resync
  BY <1>4, ClearResyncs, UnchangedUpcoming DEF AddFiles, LoadPlaylist, NoChange, Resync
<1>5. ASSUME NEW row \in Rows, SetCurrentIndex(row)
      PROVE  Resync
  BY <1>5, SelectResyncs DEF SetCurrentIndex
<1>6. ASSUME NEW row \in Rows, RemoveTrack(row)
      PROVE  Resync
  BY <1>6 DEF RemoveTrack, Resync
<1>7. ASSUME NEW from \in Rows, NEW to \in Rows, MoveTrack(from, to)
      PROVE  Resync
  BY <1>7 DEF MoveTrack, Resync, Quiet
<1>8. ASSUME NEW file \in File, FollowPlayback(file)
      PROVE  Resync
  BY <1>8, UnchangedUpcoming DEF FollowPlayback, NoChange, Resync, Quiet
<1>9. CASE UNCHANGED <<tracks, currentIndex>>
  BY <1>9, UnchangedUpcoming DEF Resync
<1>10. QED
  BY <1>1, <1>2, <1>3, <1>4, <1>5, <1>6, <1>7, <1>8, <1>9 DEF Next, Operate, Vanish, vars

\* Every change of what is to play next is signalled to AudioPlayer, whatever
\* the list and the operation (AudioPlayer.cpp:228-231).
THEOREM EditsSignalled == Spec => ResyncSignalled
<1>1. [Next]_vars => [Resync]_vars
  BY NextResyncs
<1>2. QED
  BY <1>1, PTL DEF Spec, ResyncSignalled, Resync

Announced ==
    CurrentFile' # CurrentFile
       => \/ signals'.selected = CurrentFile' /\ CurrentFile' # NoFile
          \/ signals'.emptied /\ CurrentFile' = NoFile

LEMMA UnchangedCurrent == UNCHANGED <<tracks, currentIndex>> => CurrentFile' = CurrentFile
BY DEF CurrentFile, Rows, Count

LEMMA SelectAnnounces ==
    ASSUME Inv, NEW row, SelectRow(row)
    PROVE  Announced
<1>1. CASE row \in Rows \ {currentIndex}
  <2>1. CurrentFile' = tracks[row + 1]
    BY <1>1 DEF SelectRow, CurrentFile, Rows, Count
  <2>2. signals'.selected = tracks[row + 1]
    BY <1>1 DEF SelectRow, Quiet
  <2>3. tracks[row + 1] \in File
    BY <1>1, CountFacts DEF Inv
  <2>4. QED
    BY <2>1, <2>2, <2>3, FileAssumption DEF Announced
<1>2. CASE row \notin Rows \ {currentIndex}
  BY <1>2, UnchangedCurrent DEF SelectRow, NoChange, Announced
<1>3. QED
  BY <1>1, <1>2

LEMMA AddAnnounces == Inv /\ AddFile => Announced
<1> SUFFICES ASSUME Inv, AddFile, CurrentFile' # CurrentFile PROVE Announced
  BY DEF Announced
<1>1. Addable(Head(batch)) /\ tracks' = Append(tracks, Head(batch))
  BY UnchangedCurrent DEF AddFile, NoChange
<1>2. /\ Head(batch) \in File /\ Count' = Count + 1 /\ Count \in Nat
      /\ \A i \in 1 .. Count : tracks'[i] = tracks[i]
      /\ tracks'[Count + 1] = Head(batch)
  BY <1>1, AppendProperties DEF AddFile, Inv, TypeOK, Count
<1>3. CASE currentIndex = -1
  <2>1. currentIndex' = 0 /\ Count = 0 /\ signals'.selected = tracks'[1]
    BY <1>1, <1>3, CountFacts DEF AddFile, Quiet, Inv, IndexValid
  <2>2. CurrentFile' = tracks'[1] /\ tracks'[1] = Head(batch)
    BY <1>2, <2>1 DEF CurrentFile, Rows
  <2>3. QED
    BY <1>2, <2>1, <2>2, FileAssumption DEF Announced
<1>4. CASE currentIndex # -1
  <2>1. /\ currentIndex' = currentIndex /\ currentIndex \in 0 .. Count - 1
        /\ CurrentFile = tracks[currentIndex + 1]
    BY <1>1, <1>2, <1>4, CurrentFileValue DEF AddFile, Rows
  <2>2. CurrentFile' = tracks'[currentIndex + 1]
    BY <1>2, <2>1 DEF CurrentFile, Rows
  <2>3. QED
    BY <1>2, <2>1, <2>2
<1>5. QED
  BY <1>3, <1>4

LEMMA RemoveAnnounces ==
    ASSUME Inv, NEW row \in Rows, RemoveTrack(row)
    PROVE  Announced
<1>1. CASE row # currentIndex
  BY <1>1, RemovePlaceStep DEF Queue!RemovePlace, Announced
<1>2. CASE row = currentIndex /\ Count = 1
  <2>1. signals'.emptied
    BY <1>2 DEF RemoveTrack
  <2>2. CurrentFile' = NoFile
    BY <1>2, RemovePlaceStep, CountFacts DEF Queue!RemovePlace, Count, Rows, Inv
  <2>3. QED
    BY <2>1, <2>2 DEF Announced
<1>3. CASE row = currentIndex /\ Count # 1
  <2>1. signals'.selected = CurrentFile'
    BY <1>3 DEF RemoveTrack
  <2>2. CurrentFile' \in File
    <3>1. row + 1 \in 1 .. Count /\ Count \in Nat /\ row \in 0 .. Count - 1
      BY CountFacts DEF Rows, Inv
    <3>2. tracks[row + 1] = CurrentFile /\ Queue!RemovePlace(row + 1)
      BY <1>3, RemovePlaceStep
    <3>3. \/ row + 1 < Count /\ CurrentFile' = tracks[(row + 1) + 1]
          \/ row + 1 > 1 /\ CurrentFile' = tracks[(row + 1) - 1]
      BY <1>3, <3>2, Zenon DEF Queue!RemovePlace, Count
    <3>4. row + 1 < Count => row + 1 \in Rows
      BY <3>1 DEF Rows
    <3>5. row + 1 > 1 => row - 1 \in Rows /\ (row - 1) + 1 = (row + 1) - 1
      BY <3>1 DEF Rows
    <3>6. QED
      BY <3>3, <3>4, <3>5, CountFacts DEF Inv
  <2>3. QED
    BY <2>1, <2>2, FileAssumption DEF Announced
<1>4. QED
  BY <1>1, <1>2, <1>3

LEMMA ClearAnnounces == ClearRows => Announced
<1> SUFFICES ASSUME ClearRows PROVE Announced
  OBVIOUS
<1>1. signals'.emptied
  BY DEF ClearRows, Quiet
<1>2. CurrentFile' = NoFile
  BY DEF ClearRows, CurrentFile, Rows, Count
<1>3. QED
  BY <1>1, <1>2 DEF Announced

LEMMA OperateAnnounces == Inv /\ Operate => Announced
<1> SUFFICES ASSUME Inv, Operate PROVE Announced
  OBVIOUS
<1>1. CASE AddFile
  BY <1>1, AddAnnounces
<1>2. CASE NextTrack \/ PreviousTrack
  BY <1>2, SelectAnnounces, UnchangedCurrent
     DEF NextTrack, PreviousTrack, NoChange, Announced
<1>3. CASE Clear
  BY <1>3, ClearAnnounces DEF Clear
<1>4. ASSUME NEW files \in Batches, AddFiles(files) \/ LoadPlaylist(files)
      PROVE  Announced
  BY <1>4, ClearAnnounces, UnchangedCurrent
     DEF AddFiles, LoadPlaylist, NoChange, Announced
<1>5. ASSUME NEW row \in Rows, SetCurrentIndex(row)
      PROVE  Announced
  BY <1>5, SelectAnnounces DEF SetCurrentIndex
<1>6. ASSUME NEW row \in Rows, RemoveTrack(row)
      PROVE  Announced
  BY <1>6, RemoveAnnounces
<1>7. ASSUME NEW from \in Rows, NEW to \in Rows, MoveTrack(from, to)
      PROVE  Announced
  BY <1>7, MoveKeepsCurrent DEF Announced
<1>8. QED
  BY <1>1, <1>2, <1>3, <1>4, <1>5, <1>6, <1>7 DEF Operate

\* Whatever the list, no operation makes a track current without announcing it
\* for loading, nor leaves no current track without emptied(): followPlayback,
\* which is none of the operations, is alone in moving the current track
\* silently (PlaylistModel.cpp:104-111, 164-210, 311-346, 419-431).
THEOREM NewCurrentAnnounced == Spec => SelectionAnnounced
<1>1. Inv /\ [Next]_vars => [Operate => Announced]_vars
  BY OperateAnnounces
<1>2. Spec => []Inv
  BY PlaylistSafety DEF Inv
<1>3. [Operate => Announced]_vars
         => [Operate /\ CurrentFile' # CurrentFile
               => \/ signals'.selected = CurrentFile' /\ CurrentFile' # NoFile
                  \/ signals'.emptied /\ CurrentFile' = NoFile]_vars
  BY DEF Announced
<1>4. QED
  BY <1>1, <1>2, <1>3, PTL DEF Spec, SelectionAnnounced
=============================================================================
