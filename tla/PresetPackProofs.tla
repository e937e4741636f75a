-------------------------- MODULE PresetPackProofs --------------------------
(***************************************************************************)
(* What PresetPackDownloader guarantees for packs, limits and numbers of   *)
(* attempts of any size, proved.                                           *)
(***************************************************************************)
EXTENDS PresetPackDownloader, FiniteSetTheorems, TLAPS

\* The pieces of a download under way: those written and those still to be
\* read are those sent, unless a write failed.
PiecesKept ==
    reply # "none" =>
        /\ fileOpen
        /\ zip + buffer <= sent
        /\ lost \/ zip + buffer = sent
        /\ reply = "finished" => sent = Size

\* What unzip has extracted is there or was removed, if it was given the
\* directory.
ExtractedKept ==
    unzip # "none" =>
        /\ target => 1 .. extracted \subseteq presets \cup gone
        /\ unzip = "ok" => extracted = Full

Inv == TypeOK /\ PiecesKept /\ ExtractedKept /\ InstalledIsThere

-----------------------------------------------------------------------------
(***************************************************************************)
(* Operators.                                                              *)
(***************************************************************************)
LEMMA Numbers == Size \in Nat /\ Full \in Nat /\ Many \in Nat /\ Locals \subseteq Nat /\ MaxOps \in Nat
BY PackAssumption

LEMMA Zeros == 0 \in 0 .. Size /\ 0 \in 0 .. Full /\ 0 \in 0 .. MaxOps
BY Numbers

LEMMA ActTyped == ASSUME TypeOK, Act PROVE ops' \in 0 .. MaxOps
BY Numbers DEF TypeOK, Act

\* How many some of the presets are.
LEMMA PresetsCounted ==
    ASSUME NEW S, S \subseteq Pack
    PROVE  IsFiniteSet(S) /\ Cardinality(S) \in Nat /\ (S # {} <=> Cardinality(S) > 0)
<1>1. IsFiniteSet(Pack)
  BY Numbers, FS_Interval DEF Pack
<1>2. IsFiniteSet(S)
  BY <1>1, FS_Subset
<1>3. Cardinality(S) \in Nat /\ (Cardinality(S) = 0 <=> S = {})
  BY <1>2, FS_CardinalityType, FS_EmptySet
<1>4. QED
  BY <1>2, <1>3

LEMMA MorePresets ==
    ASSUME NEW S, NEW T, S \subseteq T, T \subseteq Pack
    PROVE  Cardinality(S) <= Cardinality(T)
BY PresetsCounted, FS_Subset

\* A refresh offers something as soon as there is anything.
LEMMA RefreshOffers ==
    ASSUME TypeOK, Refresh
    PROVE  /\ offered' \in Nat
           /\ Cardinality(presets) + local > 0 => offered' > 0
<1>1. /\ Cardinality(presets) \in Nat /\ (presets # {} <=> Cardinality(presets) > 0)
      /\ local \in Nat
  BY Numbers, PresetsCounted DEF TypeOK
<1>2. QED
  BY <1>1 DEF Refresh

\* A count never exceeds what is there.
LEMMA CountSound ==
    ASSUME presets \subseteq Pack, local \in Nat
    PROVE  Count \in Nat /\ Count <= Cardinality(presets) + local
BY PresetsCounted DEF Count

-----------------------------------------------------------------------------
(***************************************************************************)
(* The steps.                                                              *)
(***************************************************************************)
LEMMA InitInv == Init => Inv
<1> SUFFICES ASSUME Init PROVE Inv
  OBVIOUS
<1>1. /\ presets \subseteq Pack /\ local \in Nat /\ local \in Locals
      /\ Cardinality(presets) \in Nat /\ (presets # {} <=> Cardinality(presets) > 0)
  BY Numbers, PresetsCounted DEF Init
<1>2. Count \in Nat /\ Count <= Cardinality(presets) + local /\ presetCount = Count
  BY <1>1, CountSound DEF Init
<1>3. offered \in Nat /\ (Cardinality(presets) + local > 0 => offered > 0)
  BY <1>1 DEF Init
<1>4. isInstalled = (presetCount > Many)
  BY DEF Init
<1>5. isInstalled \in BOOLEAN /\ (isInstalled => presetCount > Many)
  <2>1. isInstalled \in BOOLEAN
    <3>1. CASE presetCount > Many
      BY <1>4, <3>1
    <3>2. CASE ~(presetCount > Many)
      BY <1>4, <3>2
    <3>3. QED
      BY <3>1, <3>2
  <2>2. isInstalled => presetCount > Many
    BY <1>4
  <2>3. QED
    BY <2>1, <2>2
<1>6. TypeOK
  BY <1>1, <1>2, <1>3, <1>5, Zeros DEF Init, TypeOK
<1>7. PiecesKept /\ ExtractedKept
  BY DEF Init, PiecesKept, ExtractedKept
<1>8. InstalledIsThere
  <2>1. presets \cup gone = presets /\ goneLocal = 0
    BY DEF Init
  <2>2. QED
    BY <1>1, <1>2, <1>3, <1>5, <2>1, Numbers DEF InstalledIsThere
<1>9. QED
  BY <1>6, <1>7, <1>8 DEF Inv

\* After a count, and the refresh it brings about, the panel is right.
LEMMA CountInstalls ==
    ASSUME TypeOK, presetCount' = Count, isInstalled' = (presetCount' > Many), Refresh,
           presets' = presets, local' = local, gone' = {}, goneLocal' = 0
    PROVE  /\ isInstalled' \in BOOLEAN /\ presetCount' \in Nat /\ offered' \in Nat
           /\ InstalledIsThere'
<1>1. isInstalled' \in BOOLEAN
  OBVIOUS
<1>2. presets \subseteq Pack /\ local \in Nat /\ Cardinality(presets) \in Nat
  BY Numbers, PresetsCounted DEF TypeOK
<1>3. presetCount' \in Nat /\ presetCount' <= Cardinality(presets) + local
  BY <1>2, CountSound
<1>4. offered' \in Nat /\ (Cardinality(presets) + local > 0 => offered' > 0)
  BY RefreshOffers
<1>5. InstalledIsThere'
  <2>1. presets' \cup gone' = presets
    OBVIOUS
  <2>2. ASSUME isInstalled' PROVE presetCount' > Many
    BY <2>2
  <2>3. QED
    BY <1>2, <1>3, <1>4, <2>1, <2>2, Numbers DEF InstalledIsThere
<1>6. QED
  BY <1>1, <1>3, <1>4, <1>5

LEMMA DownloadPackKeeps == ASSUME Inv, DownloadPack PROVE Inv'
<1>1. TypeOK'
  BY ActTyped, Zeros DEF Inv, DownloadPack, OpenZip, TypeOK, child, disk, removed
<1>2. PiecesKept' /\ ExtractedKept' /\ InstalledIsThere'
  BY DEF Inv, DownloadPack, OpenZip, PiecesKept, ExtractedKept, InstalledIsThere, child, disk, removed
<1>3. QED
  BY <1>1, <1>2 DEF Inv

\* Writing what has arrived keeps the account of the pieces.
LEMMA WriteKeeps ==
    ASSUME TypeOK, PiecesKept, reply # "none", WriteAll
    PROVE  /\ zip' \in 0 .. Size /\ buffer' \in 0 .. Size /\ lost' \in BOOLEAN
           /\ zip' + buffer' <= sent
           /\ lost' \/ zip' + buffer' = sent
<1>1. /\ zip \in Nat /\ buffer \in Nat /\ sent \in Nat /\ sent <= Size
      /\ zip + buffer <= sent /\ (lost \/ zip + buffer = sent)
  BY Numbers DEF TypeOK, PiecesKept
<1>2. CASE buffer' = 0 /\ zip' = zip + buffer /\ UNCHANGED lost
  BY <1>1, <1>2, Numbers DEF TypeOK
<1>3. CASE buffer' = 0 /\ lost' = TRUE /\ UNCHANGED zip
  BY <1>1, <1>3, Numbers
<1>4. QED
  BY <1>2, <1>3 DEF WriteAll

LEMMA OnReadyReadKeeps == ASSUME Inv, OnReadyRead PROVE Inv'
<1>1. /\ zip' \in 0 .. Size /\ buffer' \in 0 .. Size /\ lost' \in BOOLEAN
      /\ zip' + buffer' <= sent
      /\ lost' \/ zip' + buffer' = sent
  BY WriteKeeps DEF Inv, OnReadyRead
<1>2. TypeOK'
  BY <1>1 DEF Inv, OnReadyRead, TypeOK, status, child, disk, removed
<1>3. PiecesKept' /\ ExtractedKept' /\ InstalledIsThere'
  BY <1>1 DEF Inv, OnReadyRead, PiecesKept, ExtractedKept, InstalledIsThere, status, child, disk, removed
<1>4. QED
  BY <1>2, <1>3 DEF Inv

LEMMA OnDownloadFinishedKeeps ==
    ASSUME Inv, OnDownloadFinished
    PROVE  Inv' /\ (reply = "finished" => zip' = Size \/ lost')
<1>1. reply \in {"finished", "failed"} /\ WriteAll
  BY DEF Inv, OnDownloadFinished, PiecesKept, WriteRest
<1>2. /\ zip' \in 0 .. Size /\ buffer' \in 0 .. Size /\ lost' \in BOOLEAN
      /\ lost' \/ zip' + buffer' = sent
  BY <1>1, WriteKeeps DEF Inv
<1>3. reply = "finished" => zip' = Size \/ lost'
  BY <1>1, <1>2, Numbers DEF Inv, PiecesKept, TypeOK, WriteAll
<1>4. TypeOK'
  <2>1. CASE reply = "failed" /\ GiveUp /\ UNCHANGED child
    BY <2>1, <1>2 DEF Inv, OnDownloadFinished, GiveUp, TypeOK, child, disk, removed
  <2>2. CASE /\ UNCHANGED isDownloading
             /\ pc' = "extracting" /\ target' = writable
             /\ unzip' = "running" /\ extracted' = 0
    BY <2>2, <1>2, Zeros DEF Inv, OnDownloadFinished, TypeOK, disk, removed
  <2>3. QED
    BY <2>1, <2>2 DEF OnDownloadFinished
<1>5. PiecesKept' /\ InstalledIsThere'
  BY DEF Inv, OnDownloadFinished, PiecesKept, InstalledIsThere, disk, removed
<1>6. ExtractedKept'
  BY Numbers DEF Inv, OnDownloadFinished, ExtractedKept, TypeOK, child, disk, removed
<1>7. QED
  BY <1>3, <1>4, <1>5, <1>6 DEF Inv

LEMMA ExtractionEndsKeeps == ASSUME Inv, ExtractionEnds PROVE Inv'
<1>1. /\ isInstalled' \in BOOLEAN /\ presetCount' \in Nat /\ offered' \in Nat
      /\ InstalledIsThere'
  <2>1. CASE ExtractionWorked
    BY <2>1, CountInstalls DEF Inv, ExtractionEnds, CheckInstallationStatus, FollowPack, disk
  <2>2. CASE ~ExtractionWorked
    BY <2>2 DEF Inv, ExtractionEnds, TypeOK, InstalledIsThere, disk, removed
  <2>3. QED
    BY <2>1, <2>2
<1>2. TypeOK'
  <2>1. gone' \subseteq Pack /\ goneLocal' \in Nat
    BY DEF Inv, ExtractionEnds, CheckInstallationStatus, TypeOK, removed
  <2>2. QED
    BY <1>1, <2>1 DEF Inv, ExtractionEnds, TypeOK, transfer, file, disk
<1>3. PiecesKept' /\ ExtractedKept'
  BY DEF Inv, ExtractionEnds, PiecesKept, ExtractedKept, transfer, file
<1>4. QED
  BY <1>1, <1>2, <1>3 DEF Inv

LEMMA UseLibraryKeeps == ASSUME Inv, UseLibrary PROVE Inv'
<1>1. offered' \in Nat /\ (Cardinality(presets) + local > 0 => offered' > 0)
  BY RefreshOffers DEF Inv, UseLibrary
<1>2. TypeOK'
  BY <1>1 DEF Inv, UseLibrary, TypeOK, transfer, file, child, disk, removed
<1>3. PiecesKept' /\ ExtractedKept'
  BY DEF Inv, UseLibrary, PiecesKept, ExtractedKept, transfer, file, child, disk, removed
<1>4. InstalledIsThere'
  <2>1. UNCHANGED <<isInstalled, presetCount, presets, local, gone, goneLocal>>
    BY DEF UseLibrary, disk, removed
  <2>2. /\ presetCount \in Nat /\ local \in Nat /\ goneLocal \in Nat
        /\ Cardinality(presets) \in Nat
    BY Numbers, PresetsCounted DEF Inv, TypeOK
  <2>3. isInstalled => /\ Many < presetCount
                       /\ presetCount <= Cardinality(presets \cup gone) + local + goneLocal
    BY DEF Inv, InstalledIsThere
  <2>4. ASSUME isInstalled, gone = {}, ~(goneLocal > 0) PROVE offered' > 0
    <3>1. presets \cup gone = presets /\ goneLocal = 0
      BY <2>2, <2>4
    <3>2. presetCount > 0 /\ presetCount <= Cardinality(presets) + local + 0
      BY <2>2, <2>3, <2>4, <3>1, Numbers
    <3>3. QED
      BY <1>1, <2>2, <3>2
  <2>5. QED
    BY <2>1, <2>3, <2>4 DEF InstalledIsThere
<1>5. QED
  BY <1>2, <1>3, <1>4 DEF Inv

LEMMA RestartKeeps == ASSUME Inv, Restart PROVE Inv'
<1>1. /\ isInstalled' \in BOOLEAN /\ presetCount' \in Nat /\ offered' \in Nat
      /\ InstalledIsThere'
  BY CountInstalls DEF Inv, Restart, Start
<1>2. orphan' \in BOOLEAN
  BY DEF Inv, Restart, TypeOK
<1>3. TypeOK'
  BY <1>1, <1>2, ActTyped, Zeros DEF Inv, Restart, Start, TypeOK, file
<1>4. PiecesKept' /\ ExtractedKept'
  BY DEF Restart, Start, PiecesKept, ExtractedKept
<1>5. QED
  BY <1>1, <1>3, <1>4 DEF Inv

LEMMA TransferKeeps == ASSUME Inv, Send \/ Answer PROVE Inv'
<1>1. CASE Send
  <2>1. sent' \in 0 .. Size /\ buffer' \in 0 .. Size /\ zip' = zip
    BY <1>1, Numbers DEF Inv, Send, TypeOK, PiecesKept, file
  <2>2. TypeOK'
    BY <1>1, <2>1 DEF Inv, Send, TypeOK, status, file, child, disk, removed
  <2>3. PiecesKept'
    BY <1>1, Numbers DEF Inv, Send, TypeOK, PiecesKept, file
  <2>4. ExtractedKept' /\ InstalledIsThere'
    BY <1>1 DEF Inv, Send, ExtractedKept, InstalledIsThere, status, child, disk, removed
  <2>5. QED
    BY <2>2, <2>3, <2>4 DEF Inv
<1>2. CASE Answer
  <2>1. TypeOK'
    BY <1>2 DEF Inv, Answer, TypeOK, status, file, child, disk, removed
  <2>2. PiecesKept' /\ ExtractedKept' /\ InstalledIsThere'
    BY <1>2 DEF Inv, Answer, PiecesKept, ExtractedKept, InstalledIsThere, status, file, child, disk, removed
  <2>3. QED
    BY <2>1, <2>2 DEF Inv
<1>3. QED
  BY <1>1, <1>2

\* An unzip only adds presets.
LEMMA UnzipKeeps == ASSUME Inv, UnzipOne \/ UnzipEnds \/ OrphanUnzips PROVE Inv'
<1>1. /\ presets \subseteq presets' /\ presets' \subseteq Pack /\ extracted' \in 0 .. Full
      /\ UNCHANGED <<local, gone, goneLocal>>
  <2>1. presets \subseteq Pack /\ extracted \in 0 .. Full /\ Full \in Nat
    BY Numbers DEF Inv, TypeOK
  <2>2. CASE UnzipOne
    BY <2>1, <2>2 DEF UnzipOne, Pack, removed
  <2>3. CASE UnzipEnds
    BY <2>1, <2>3 DEF UnzipEnds, disk, removed
  <2>4. CASE OrphanUnzips
    BY <2>1, <2>4 DEF OrphanUnzips, child, removed
  <2>5. QED
    BY <2>2, <2>3, <2>4
<1>2. TypeOK'
  <2>1. CASE UnzipOne
    BY <1>1, <2>1 DEF Inv, UnzipOne, TypeOK, status, transfer, file
  <2>2. CASE UnzipEnds
    BY <1>1, <2>2 DEF Inv, UnzipEnds, TypeOK, status, transfer, file, disk
  <2>3. CASE OrphanUnzips
    BY <1>1, <2>3 DEF Inv, OrphanUnzips, TypeOK, status, transfer, file, child
  <2>4. QED
    BY <2>1, <2>2, <2>3
<1>3. PiecesKept'
  BY DEF Inv, UnzipOne, UnzipEnds, OrphanUnzips, PiecesKept, transfer, file
<1>4. ExtractedKept'
  <2>1. CASE UnzipOne
    <3>1. extracted' = extracted + 1 /\ extracted \in Nat /\ UNCHANGED <<target, unzip>>
      BY <2>1, Numbers DEF Inv, UnzipOne, TypeOK
    <3>2. target => extracted' \in presets'
      BY <2>1 DEF UnzipOne
    <3>3. 1 .. extracted' = (1 .. extracted) \cup {extracted'}
      BY <3>1
    <3>4. unzip # "ok"
      BY <2>1 DEF UnzipOne
    <3>5. QED
      BY <1>1, <2>1, <3>1, <3>2, <3>3, <3>4 DEF Inv, ExtractedKept, UnzipOne
  <2>2. CASE UnzipEnds
    BY <2>2 DEF Inv, UnzipEnds, ExtractedKept, disk, removed
  <2>3. CASE OrphanUnzips
    BY <2>3, <1>1 DEF Inv, OrphanUnzips, ExtractedKept, child
  <2>4. QED
    BY <2>1, <2>2, <2>3
<1>5. InstalledIsThere'
  <2>1. UNCHANGED <<isInstalled, presetCount, offered>>
    BY DEF UnzipOne, UnzipEnds, OrphanUnzips, status
  <2>2. /\ presets \cup gone \subseteq presets' \cup gone /\ presets' \cup gone \subseteq Pack
        /\ presets \cup gone \subseteq Pack
    BY <1>1 DEF Inv, TypeOK
  <2>3. /\ Cardinality(presets \cup gone) <= Cardinality(presets' \cup gone)
        /\ Cardinality(presets \cup gone) \in Nat /\ Cardinality(presets' \cup gone) \in Nat
    BY <2>2, MorePresets, PresetsCounted
  <2>4. local \in Nat /\ goneLocal \in Nat /\ presetCount \in Nat
    BY Numbers DEF Inv, TypeOK
  <2>5. QED
    BY <1>1, <2>1, <2>3, <2>4 DEF Inv, InstalledIsThere
<1>6. QED
  BY <1>2, <1>3, <1>4, <1>5 DEF Inv

\* What is removed is accounted for.
LEMMA RemovePresetsKeeps == ASSUME Inv, RemovePresets PROVE Inv'
<1>1. /\ presets' \cup gone' = presets \cup gone
      /\ presets' \subseteq Pack /\ gone' \subseteq Pack
  <2>1. presets \subseteq Pack /\ gone \subseteq Pack
    BY DEF Inv, TypeOK
  <2>2. QED
    BY <2>1 DEF RemovePresets
<1>2. /\ local' + goneLocal' = local + goneLocal /\ local' \in Locals /\ local' \in Nat
      /\ goneLocal' \in Nat /\ goneLocal' >= goneLocal /\ local \in Nat /\ goneLocal \in Nat
  <2>1. local \in Nat /\ goneLocal \in Nat /\ local \in Locals /\ \A l \in Locals : l \in Nat
    BY Numbers DEF Inv, TypeOK
  <2>2. QED
    BY <2>1 DEF RemovePresets
<1>3. gone \subseteq gone'
  BY DEF RemovePresets
<1>4. TypeOK'
  BY <1>1, <1>2, ActTyped DEF Inv, RemovePresets, TypeOK, status, transfer, file, child
<1>5. PiecesKept' /\ ExtractedKept'
  BY <1>1 DEF Inv, RemovePresets, PiecesKept, ExtractedKept, transfer, file, child
<1>6. InstalledIsThere'
  <2>1. UNCHANGED <<isInstalled, presetCount, offered>>
    BY DEF RemovePresets, status
  <2>2. Cardinality(presets \cup gone) \in Nat /\ presetCount \in Nat
    BY PresetsCounted DEF Inv, TypeOK
  <2>3. isInstalled => presetCount <= Cardinality(presets' \cup gone') + local' + goneLocal'
    <3>1. Cardinality(presets' \cup gone') = Cardinality(presets \cup gone)
      BY <1>1
    <3>2. isInstalled => presetCount <= Cardinality(presets \cup gone) + local + goneLocal
      BY DEF Inv, InstalledIsThere
    <3>3. \A c, p, l, g, m, h \in Nat : m + h = l + g /\ p <= c + l + g => p <= c + m + h
      OBVIOUS
    <3>4. QED
      BY <1>2, <2>2, <3>1, <3>2, <3>3
  <2>4. gone # {} \/ goneLocal > 0 => gone' # {} \/ goneLocal' > 0
    BY <1>2, <1>3
  <2>5. QED
    BY <2>1, <2>3, <2>4 DEF Inv, InstalledIsThere
<1>7. QED
  BY <1>4, <1>5, <1>6 DEF Inv

LEMMA ChangeDiskKeeps == ASSUME Inv, ChangeDisk PROVE Inv'
<1>1. TypeOK'
  BY ActTyped DEF Inv, ChangeDisk, TypeOK, status, transfer, file, child, removed
<1>2. PiecesKept' /\ ExtractedKept' /\ InstalledIsThere'
  BY DEF Inv, ChangeDisk, PiecesKept, ExtractedKept, InstalledIsThere, status, transfer, file, child,
         removed
<1>3. QED
  BY <1>1, <1>2 DEF Inv

LEMMA NextInv == Inv /\ [Next]_vars => Inv'
<1>1. ASSUME Inv, UNCHANGED vars PROVE Inv'
  BY <1>1 DEF Inv, vars, TypeOK, PiecesKept, ExtractedKept, InstalledIsThere,
              status, transfer, file, child, disk, removed
<1>2. ASSUME Inv, Gui PROVE Inv'
  BY <1>2, DownloadPackKeeps, OnReadyReadKeeps, OnDownloadFinishedKeeps, ExtractionEndsKeeps,
     UseLibraryKeeps, RestartKeeps DEF Gui
<1>3. ASSUME Inv, World PROVE Inv'
  BY <1>3, TransferKeeps, UnzipKeeps, ChangeDiskKeeps, RemovePresetsKeeps DEF World
<1>4. QED
  BY <1>1, <1>2, <1>3 DEF Next

LEMMA Invariance == Spec => []Inv
BY InitInv, NextInv, PTL DEF Spec

-----------------------------------------------------------------------------
\* For packs of any size, any failures of the server, the disk and unzip, and
\* any removals: what the panel calls installed is there, or has been removed
\* since the program counted it, and the launcher has something to offer unless
\* something has been removed (PresetPackDownloader.cpp:55-75, main.cpp:139).
THEOREM NeverClaimsTooMuch == Spec => [](TypeOK /\ InstalledIsThere)
<1>1. Inv => TypeOK /\ InstalledIsThere
  BY DEF Inv
<1>2. QED
  BY <1>1, Invariance, PTL

\* For packs of any size: unzip is given all that was sent, once, unless a
\* write failed (PresetPackDownloader.cpp:114-118, 137-143).
THEOREM NothingSkipped == Spec => HandsOverAll
<1>1. Inv /\ [Next]_vars => [pc = "loop" /\ pc' = "extracting" => zip' = Size \/ lost']_vars
  <2> SUFFICES ASSUME Inv, Next, pc = "loop", pc' = "extracting"
               PROVE  zip' = Size \/ lost'
    OBVIOUS
  <2>1. OnDownloadFinished /\ reply = "finished"
    BY DEF Next, Gui, World, DownloadPack, OnReadyRead, OnDownloadFinished, ExtractionEnds,
           UseLibrary, Restart, Start, Send, Answer, UnzipOne, UnzipEnds, OrphanUnzips,
           ChangeDisk, RemovePresets, child
  <2>2. QED
    BY <2>1, OnDownloadFinishedKeeps
<1>2. QED
  BY <1>1, Invariance, PTL DEF Spec, HandsOverAll

\* For packs of any size: what becomes installed while the program runs is
\* complete but for what has been removed, unless unzip could not be given the
\* directory (PresetPackDownloader.cpp:169-197).
THEOREM InstalledWhole == Spec => InstalledComplete
<1>1. Inv => [ExtractionEnds /\ ~isInstalled /\ isInstalled'
                => presets \cup gone = Pack \/ ~target]_vars
  <2> SUFFICES ASSUME Inv, ExtractionEnds, ~isInstalled, isInstalled', target
               PROVE  presets \cup gone = Pack
    OBVIOUS
  <2>1. unzip = "ok"
    BY DEF ExtractionEnds, ExtractionWorked
  <2>2. Pack \subseteq presets \cup gone
    BY <2>1 DEF Inv, ExtractedKept, Pack
  <2>3. QED
    BY <2>2 DEF Inv, TypeOK
<1>2. QED
  BY <1>1, Invariance, PTL DEF InstalledComplete
=============================================================================
