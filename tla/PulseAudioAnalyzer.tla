------------------------- MODULE PulseAudioAnalyzer -------------------------
(***************************************************************************)
(* audio/PulseAudioAnalyzer.cpp: a thread of its own records what is played *)
(* and leaves levels and a spectrum for the GUI thread, which reads them in *)
(* AudioPlayer::updateAudioAnalysis() (AudioPlayer.cpp:979) and ends the    *)
(* thread in AudioPlayer::~AudioPlayer() (line 121).                        *)
(*                                                                         *)
(* A step is one access to what the two threads share.  The thread is       *)
(* started before the members declared after it are initialised             *)
(* (PulseAudioAnalyzer.hpp:28-33): the constructor goes on beside it.       *)
(*                                                                         *)
(* Abstractions: what is left for one block of samples is the number of the *)
(* block; a build without PulseAudio is one that never finds a source.      *)
(*                                                                         *)
(* A definition marked as a fault is a plausible wrong version of the one   *)
(* after it, kept to show which property would notice; no action uses it.   *)
(***************************************************************************)
EXTENDS Naturals

CONSTANT MaxBlocks  \* bound: blocks are numbered 1 to MaxBlocks, over and over

ASSUME BlocksAssumption == MaxBlocks \in Nat /\ MaxBlocks > 1

VARIABLES cap,       \* where the capture thread is
          gui,       \* where the GUI thread is
          stop,      \* m_stop
          available, \* m_available
          holder,    \* who holds m_mutex
          left,      \* m_left: the block it is from
          right,     \* m_right
          spectrum,  \* m_spectrum
          taken,     \* the GUI thread's copies of the three
          stream,    \* the recording is open
          block,     \* the last block recorded
          early      \* history: a member was initialised after its first use

levels == <<left, right, spectrum>>
vars == <<cap, gui, stop, available, holder, levels, taken, stream, block, early>>

Empty == [left |-> 0, right |-> 0, spectrum |-> 0]

Init ==
    /\ cap = "look" /\ gui = "construct"
    /\ stop = FALSE /\ available = FALSE
    /\ holder = "nobody" /\ left = 0 /\ right = 0 /\ spectrum = 0
    /\ taken = Empty
    /\ stream = FALSE /\ block = 0 /\ early = FALSE

-----------------------------------------------------------------------------
(***************************************************************************)
(* The capture thread.                                                     *)
(***************************************************************************)

\* One pass of the outer loop: without a source or a recording it waits a
\* second, looking at m_stop meanwhile.
Look ==
    /\ cap = "look"
    /\ \/ stop /\ cap' = "done" /\ UNCHANGED <<available, stream>>
       \/ ~stop /\ (UNCHANGED available \/ available' = FALSE) /\ UNCHANGED <<cap, stream>>
       \/ ~stop /\ cap' = "opened" /\ stream' = TRUE /\ UNCHANGED available
    /\ UNCHANGED <<gui, stop, holder, levels, taken, block, early>>

Announce ==
    /\ cap = "opened"
    /\ available' = TRUE /\ cap' = "loop"
    /\ UNCHANGED <<gui, stop, holder, levels, taken, stream, block, early>>

\* Fault: the inner loop reads on for as long as there is sound.
ReadingEnds == FALSE

StopSeen == stop

\* The inner loop: m_stop is looked at before every read.
CheckStop ==
    /\ cap = "loop"
    /\ cap' = IF StopSeen THEN "leave" ELSE "read"
    /\ UNCHANGED <<gui, stop, available, holder, levels, taken, stream, block, early>>

\* pa_simple_read() returns a block, or an error.
Read ==
    /\ cap = "read"
    /\ \/ cap' = "analyzed" /\ block' = (block % MaxBlocks) + 1
       \/ cap' = "leave" /\ UNCHANGED block
    /\ UNCHANGED <<gui, stop, available, holder, levels, taken, stream, early>>

\* Fault: the results are stored without the lock.
CaptureLockNot == UNCHANGED holder

CaptureLock == holder = "nobody" /\ holder' = "capture"

Lock ==
    /\ cap = "analyzed"
    /\ CaptureLock
    /\ cap' = "left"
    /\ UNCHANGED <<gui, stop, available, levels, taken, stream, block, early>>

Store ==
    /\ \/ cap = "left" /\ left' = block /\ cap' = "right" /\ UNCHANGED <<right, spectrum>>
       \/ cap = "right" /\ right' = block /\ cap' = "spectrum" /\ UNCHANGED <<left, spectrum>>
       \/ cap = "spectrum" /\ spectrum' = block /\ cap' = "unlock" /\ UNCHANGED <<left, right>>
    /\ UNCHANGED <<gui, stop, available, holder, taken, stream, block, early>>

\* Fault: the lock is kept.
ReleaseNot == UNCHANGED holder

Release == holder' = "nobody"

Unlock ==
    /\ cap = "unlock"
    /\ Release /\ cap' = "loop"
    /\ UNCHANGED <<gui, stop, available, levels, taken, stream, block, early>>

\* Fault: the recording is given up without a word.
WithdrawNot == UNCHANGED available

Withdraw == available' = FALSE

Leave ==
    /\ cap = "leave"
    /\ Withdraw /\ cap' = "free"
    /\ UNCHANGED <<gui, stop, holder, levels, taken, stream, block, early>>

Free ==
    /\ cap = "free"
    /\ stream' = FALSE /\ cap' = "look"
    /\ UNCHANGED <<gui, stop, available, holder, levels, taken, block, early>>

Capture == Look \/ Announce \/ CheckStop \/ Read \/ Lock \/ Store \/ Unlock \/ Leave \/ Free

-----------------------------------------------------------------------------
(***************************************************************************)
(* The GUI thread.                                                         *)
(***************************************************************************)

\* The rest of the constructor, which is too late when the capture thread has
\* locked the mutex or stored anything.
Construct ==
    /\ gui = "construct" /\ gui' = "idle"
    /\ holder' = "nobody" /\ left' = 0 /\ right' = 0 /\ spectrum' = 0
    /\ early' = (holder = "capture" \/ left # 0)
    /\ UNCHANGED <<cap, stop, available, taken, stream, block>>

\* snapshot(), if there is anything to be had: the lock, ...
BeginSnapshot ==
    /\ gui = "idle" /\ available
    /\ gui' = "lock"
    /\ UNCHANGED <<cap, stop, available, holder, levels, taken, stream, block, early>>

LockSnapshot ==
    /\ gui = "lock"
    /\ holder = "nobody" /\ holder' = "gui"
    /\ gui' = "left"
    /\ UNCHANGED <<cap, stop, available, levels, taken, stream, block, early>>

\* ... the three copies, ...
Copy ==
    /\ \/ gui = "left" /\ taken' = [taken EXCEPT !.left = left] /\ gui' = "right"
       \/ gui = "right" /\ taken' = [taken EXCEPT !.right = right] /\ gui' = "spectrum"
       \/ gui = "spectrum" /\ taken' = [taken EXCEPT !.spectrum = spectrum] /\ gui' = "unlock"
    /\ UNCHANGED <<cap, stop, available, holder, levels, stream, block, early>>

\* ... and the end of the lock.
EndSnapshot ==
    /\ gui = "unlock" /\ gui' = "idle"
    /\ holder' = "nobody"
    /\ UNCHANGED <<cap, stop, available, levels, taken, stream, block, early>>

\* The destructor asks the thread to stop ...
Destroy ==
    /\ gui = "idle" /\ gui' = "join"
    /\ stop' = TRUE
    /\ UNCHANGED <<cap, available, holder, levels, taken, stream, block, early>>

\* ... and waits until it has.
Join ==
    /\ gui = "join" /\ cap = "done" /\ gui' = "gone"
    /\ UNCHANGED <<cap, stop, available, holder, levels, taken, stream, block, early>>

Gui == Construct \/ BeginSnapshot \/ LockSnapshot \/ Copy \/ EndSnapshot \/ Destroy \/ Join

Next == Capture \/ Gui

Spec == Init /\ [][Next]_vars

\* Both threads run, and the sound server answers every call in the end.
FairSpec == Spec /\ WF_vars(Capture) /\ WF_vars(Join)

-----------------------------------------------------------------------------
(***************************************************************************)
(* Properties.                                                             *)
(***************************************************************************)
Storing == {"left", "right", "spectrum", "unlock"}
Block == 0 .. MaxBlocks

\* The variables hold values of their types, and m_mutex is held by the thread
\* that is inside it (PulseAudioAnalyzer.hpp:26-33).
TypeOK ==
    /\ cap \in {"look", "opened", "loop", "read", "analyzed", "leave", "free", "done"} \cup Storing
    /\ gui \in {"construct", "idle", "lock", "join", "gone"} \cup Storing
    /\ stop \in BOOLEAN /\ available \in BOOLEAN /\ stream \in BOOLEAN /\ early \in BOOLEAN
    /\ left \in Block /\ right \in Block /\ spectrum \in Block /\ block \in Block
    /\ taken \in [left : Block, right : Block, spectrum : Block]
    /\ holder \in {"nobody", "capture", "gui"}
    /\ ~early => /\ holder = "capture" <=> cap \in Storing
                 /\ holder = "gui" <=> gui \in Storing

\* The levels and the spectrum the GUI thread gets are of one block of samples
\* (PulseAudioAnalyzer.cpp:66-75, 179-182), unless the thread was so fast that
\* it used the members before they were initialised.
SnapshotWhole ==
    ~early /\ gui \in {"idle", "join", "gone"} =>
        taken.left = taken.right /\ taken.right = taken.spectrum

\* The analyzer says that it is available only while it records; otherwise the
\* meters would stand still instead of moving by themselves
\* (PulseAudioAnalyzer.cpp:104-128, AudioPlayer.cpp:982).
AvailableTruthful == available => stream

\* The destructor does not wait for ever, wherever the thread is when it is
\* asked to stop (PulseAudioAnalyzer.cpp:60-64).
DestructionEnds == gui = "join" ~> gui = "gone"
=============================================================================
