-------------------------- MODULE PulseAudioProofs --------------------------
(***************************************************************************)
(* What PulseAudioAnalyzer guarantees for any number of blocks, proved.    *)
(***************************************************************************)
EXTENDS PulseAudioAnalyzer, TLAPS

\* Outside the capture thread's critical section the three results are of one
\* block; inside it those stored already are of the last.
LevelsAgree ==
    /\ cap \notin Storing => left = right /\ right = spectrum
    /\ cap = "left" => left = right /\ right = spectrum
    /\ cap = "right" => left = block /\ right = spectrum
    /\ cap = "spectrum" => left = block /\ right = block
    /\ cap = "unlock" => left = block /\ right = block /\ spectrum = block

\* The copies made so far are of the results there are.
CopiesAgree ==
    /\ gui \notin Storing => taken.left = taken.right /\ taken.right = taken.spectrum
    /\ gui = "right" => taken.left = left
    /\ gui \in {"spectrum", "unlock"} => taken.left = left /\ taken.right = right
    /\ gui = "unlock" => taken.spectrum = spectrum


\* The recording is open while the thread reads from it.
Recording ==
    /\ available => stream
    /\ cap \in {"opened", "loop", "read", "analyzed", "leave", "free"} \cup Storing => stream
    /\ cap \in {"look", "opened", "free", "done"} => ~available

\* Nothing can have been too early before the constructor is done.
InTime == gui = "construct" => ~early

Guarded == ~early => LevelsAgree /\ CopiesAgree
Inv == TypeOK /\ Recording /\ InTime /\ Guarded

-----------------------------------------------------------------------------
LEMMA NextBlock == ASSUME block \in Block PROVE (block % MaxBlocks) + 1 \in Block
BY BlocksAssumption DEF Block

LEMMA InitInv == Init => Inv
<1>1. 0 \in Block
  BY BlocksAssumption DEF Block
<1>2. Init => TypeOK
  <2> SUFFICES ASSUME Init PROVE TypeOK
    OBVIOUS
  <2>1. taken \in [left : Block, right : Block, spectrum : Block]
    BY <1>1 DEF Init, Empty
  <2>2. QED
    BY <1>1, <2>1 DEF Init, TypeOK, Storing
<1>3. Init => Recording
  BY DEF Init, Recording, Storing
<1>4. Init => LevelsAgree /\ CopiesAgree
  BY DEF Init, LevelsAgree, CopiesAgree, Storing, Empty
<1>5. Init => InTime
  BY DEF Init, InTime
<1>6. QED
  BY <1>2, <1>3, <1>4, <1>5 DEF Inv, Guarded

\* The steps of the capture thread that touch no level.
LEMMA QuietCapture ==
    ASSUME Inv, Look \/ Announce \/ CheckStop \/ Read \/ Leave \/ Free
    PROVE  Inv'
<1> USE DEF Inv
<1>1. (block \in Block)'
  BY NextBlock DEF TypeOK, Look, Announce, CheckStop, Read, Leave, Free
<1>2. UNCHANGED <<gui, holder, left, right, spectrum, taken, early, stop>>
  BY DEF Look, Announce, CheckStop, Read, Leave, Free, levels
<1>3. /\ cap \notin Storing /\ cap' \notin Storing
      /\ cap' \in {"look", "opened", "loop", "read", "analyzed", "leave", "free", "done"}
  BY DEF Look, Announce, CheckStop, Read, Leave, Free, Storing
<1>4. available' \in BOOLEAN /\ stream' \in BOOLEAN
  BY DEF TypeOK, Look, Announce, CheckStop, Read, Leave, Withdraw, Free
<1>5. TypeOK'
  BY <1>1, <1>2, <1>3, <1>4 DEF TypeOK
<1>6. Recording'
  <2>1. CASE Look
    BY <2>1 DEF Look, Recording, Storing
  <2>2. CASE Announce \/ CheckStop
    BY <2>2 DEF Announce, CheckStop, Recording, Storing
  <2>3. CASE Read
    BY <2>3 DEF Read, Recording, Storing
  <2>4. CASE Leave \/ Free
    BY <2>4 DEF Leave, Withdraw, Free, Recording, Storing
  <2>5. QED
    BY <2>1, <2>2, <2>3, <2>4
<1>7. Guarded'
  BY <1>2, <1>3 DEF Guarded, LevelsAgree, CopiesAgree, Storing
<1>8. InTime'
  BY <1>2 DEF InTime
<1>9. QED
  BY <1>5, <1>6, <1>7, <1>8

\* The critical section of the capture thread, during which, if the members
\* were initialised in time, the GUI thread copies nothing.
LEMMA CaptureSection == ASSUME Inv, Lock \/ Store \/ Unlock PROVE Inv'
<1> USE DEF Inv
<1>1. TypeOK'
  BY DEF TypeOK, Lock, CaptureLock, Store, Unlock, Release, Storing, levels
<1>2. Recording'
  BY DEF Recording, Lock, CaptureLock, Store, Unlock, Storing
<1>3. Guarded'
  <2> SUFFICES ASSUME ~early' PROVE LevelsAgree' /\ CopiesAgree'
    BY DEF Guarded
  <2>1. ~early /\ LevelsAgree /\ CopiesAgree
    BY DEF Guarded, Lock, Store, Unlock
  <2>2. LevelsAgree'
    BY <2>1 DEF LevelsAgree, Lock, Store, Unlock, Storing, levels
  <2>3. gui' = gui /\ taken' = taken
    BY DEF Lock, Store, Unlock
  <2>4. CASE Store
    <3>1. cap \in Storing
      BY <2>4 DEF Store, Storing
    <3>2. gui \notin Storing
      BY <2>1, <3>1 DEF TypeOK
    <3>3. gui # "right" /\ gui # "spectrum" /\ gui # "unlock"
      BY <3>2 DEF Storing
    <3>4. QED
      BY <2>1, <2>2, <2>3, <3>2, <3>3 DEF CopiesAgree
  <2>5. CASE Lock \/ Unlock
    <3>1. UNCHANGED <<left, right, spectrum>>
      BY <2>5 DEF Lock, Unlock, levels
    <3>2. QED
      BY <2>1, <2>2, <2>3, <3>1 DEF CopiesAgree
  <2>6. QED
    BY <2>2, <2>4, <2>5
<1>4. InTime'
  BY DEF InTime, Lock, Store, Unlock
<1>5. QED
  BY <1>1, <1>2, <1>3, <1>4

LEMMA ConstructKeeps == ASSUME Inv, Construct PROVE Inv'
<1> USE DEF Inv
<1>1. 0 \in Block
  BY BlocksAssumption DEF Block
<1>2. TypeOK'
  <2>1. ~early' => holder # "capture"
    BY DEF Construct
  <2>2. ~early /\ gui \notin Storing /\ gui' \notin Storing
    BY DEF Construct, InTime, Storing
  <2>3. QED
    BY <1>1, <2>1, <2>2 DEF TypeOK, Construct, Storing
<1>3. Recording'
  BY DEF Recording, Construct
<1>4. Guarded'
  <2> SUFFICES ASSUME ~early' PROVE LevelsAgree' /\ CopiesAgree'
    BY DEF Guarded
  <2>1. ~early /\ holder # "capture" /\ left = 0 /\ gui = "construct" /\ gui' = "idle"
    BY DEF Construct, InTime
  <2>2. cap \notin Storing /\ cap' = cap
    BY <2>1 DEF Construct, TypeOK
  <2>3. LevelsAgree'
    BY <2>2 DEF LevelsAgree, Construct, Storing
  <2>4. CopiesAgree'
    BY <2>1 DEF Guarded, CopiesAgree, Construct, Storing
  <2>5. QED
    BY <2>3, <2>4
<1>5. InTime'
  BY DEF InTime, Construct
<1>6. QED
  BY <1>2, <1>3, <1>4, <1>5

LEMMA SnapshotKeeps ==
    ASSUME Inv, BeginSnapshot \/ LockSnapshot \/ Copy \/ EndSnapshot PROVE Inv'
<1> USE DEF Inv
<1>1. taken' \in [left : Block, right : Block, spectrum : Block]
  BY DEF TypeOK, BeginSnapshot, LockSnapshot, Copy, EndSnapshot
<1>2. TypeOK'
  BY <1>1 DEF TypeOK, BeginSnapshot, LockSnapshot, Copy, EndSnapshot, Storing, levels
<1>3. Recording'
  BY DEF Recording, BeginSnapshot, LockSnapshot, Copy, EndSnapshot
<1>4. Guarded'
  <2> SUFFICES ASSUME ~early' PROVE LevelsAgree' /\ CopiesAgree'
    BY DEF Guarded
  <2>1. ~early /\ LevelsAgree /\ CopiesAgree
    BY DEF Guarded, BeginSnapshot, LockSnapshot, Copy, EndSnapshot
  <2>2. LevelsAgree'
    BY <2>1 DEF LevelsAgree, BeginSnapshot, LockSnapshot, Copy, EndSnapshot, levels
  <2>3. CASE BeginSnapshot \/ LockSnapshot
    <3>1. gui' \in {"lock", "left"}
      BY <2>3 DEF BeginSnapshot, LockSnapshot
    <3>2. QED
      BY <2>1, <2>2, <2>3, <3>1 DEF CopiesAgree, BeginSnapshot, LockSnapshot, Storing, levels
  <2>4. CASE Copy
    <3>1. CASE gui = "left" /\ taken' = [taken EXCEPT !.left = left] /\ gui' = "right"
      BY <2>2, <2>4, <3>1 DEF CopiesAgree, Copy, TypeOK, Storing, levels
    <3>2. CASE gui = "right" /\ taken' = [taken EXCEPT !.right = right] /\ gui' = "spectrum"
      BY <2>1, <2>2, <2>4, <3>2 DEF CopiesAgree, Copy, TypeOK, Storing, levels
    <3>3. CASE gui = "spectrum" /\ taken' = [taken EXCEPT !.spectrum = spectrum] /\ gui' = "unlock"
      BY <2>1, <2>2, <2>4, <3>3 DEF CopiesAgree, Copy, TypeOK, Storing, levels
    <3>4. QED
      BY <2>4, <3>1, <3>2, <3>3 DEF Copy
  <2>5. CASE EndSnapshot
    <3>1. cap \notin Storing
      BY <2>1, <2>5 DEF EndSnapshot, TypeOK, Storing
    <3>2. QED
      BY <2>1, <2>5, <3>1 DEF CopiesAgree, LevelsAgree, EndSnapshot, Storing, levels
  <2>6. QED
    BY <2>2, <2>3, <2>4, <2>5
<1>5. InTime'
  BY DEF InTime, BeginSnapshot, LockSnapshot, Copy, EndSnapshot
<1>6. QED
  BY <1>2, <1>3, <1>4, <1>5

LEMMA EndingKeeps == ASSUME Inv, Destroy \/ Join PROVE Inv'
<1>1. Recording'
  BY DEF Inv, Destroy, Join, Recording
<1>2. /\ gui \notin Storing /\ gui' \notin Storing
      /\ gui' # "right" /\ gui' # "spectrum" /\ gui' # "unlock"
      /\ UNCHANGED <<cap, left, right, spectrum, block, taken, early>>
  BY DEF Destroy, Join, Storing, levels
<1>3. Guarded'
  BY <1>2 DEF Inv, Guarded, LevelsAgree, CopiesAgree
<1>4. TypeOK'
  BY <1>2 DEF Inv, TypeOK, Destroy, Join
<1>5. InTime'
  BY DEF InTime, Destroy, Join
<1>6. QED
  BY <1>1, <1>3, <1>4, <1>5 DEF Inv

LEMMA NextInv == Inv /\ [Next]_vars => Inv'
<1>1. ASSUME Inv, UNCHANGED vars PROVE Inv'
  BY <1>1 DEF Inv, vars, TypeOK, Recording, InTime, Guarded, LevelsAgree, CopiesAgree, levels
<1>2. ASSUME Inv, Capture PROVE Inv'
  BY <1>2, QuietCapture, CaptureSection DEF Capture
<1>3. ASSUME Inv, Gui PROVE Inv'
  BY <1>3, ConstructKeeps, SnapshotKeeps, EndingKeeps DEF Gui
<1>4. QED
  BY <1>1, <1>2, <1>3 DEF Next

LEMMA Invariance == Spec => []Inv
BY InitInv, NextInv, PTL DEF Spec

-----------------------------------------------------------------------------
\* For any number of blocks and any interleaving of the two threads: a snapshot
\* is of one block, unless the thread used the members before they were
\* initialised (PulseAudioAnalyzer.cpp:66-75, 179-182).
THEOREM NoTornSnapshot == Spec => [](TypeOK /\ SnapshotWhole)
<1>1. Inv => TypeOK /\ SnapshotWhole
  BY DEF Inv, Guarded, CopiesAgree, SnapshotWhole, Storing
<1>2. QED
  BY <1>1, Invariance, PTL

\* The analyzer says that it is available only while it records
\* (PulseAudioAnalyzer.cpp:104-128).
THEOREM OnlyWhileRecording == Spec => []AvailableTruthful
<1>1. Inv => AvailableTruthful
  BY DEF Inv, Recording, AvailableTruthful
<1>2. QED
  BY <1>1, Invariance, PTL
=============================================================================
