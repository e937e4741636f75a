------------------------ MODULE PresetPackDownloader ------------------------
(***************************************************************************)
(* models/PresetPackDownloader.cpp: the full preset pack is downloaded into *)
(* a zip file, handed to unzip, and counted; and what the launcher of the   *)
(* visuals makes of it (VisualizerLauncher.cpp:306-325, main.cpp:139).      *)
(*                                                                         *)
(* The server, the disk and unzip act while the GUI thread handles signals, *)
(* one at a time.  During the extraction that thread waits, at most two     *)
(* minutes.  The program may be ended anywhere and started again; an unzip  *)
(* that was running then goes on by itself.  Presets may be removed at any  *)
(* time, which the program does not notice: it counts when it starts and    *)
(* after an extraction that worked.                                         *)
(*                                                                         *)
(* Abstractions: the pack is Size pieces in the order sent, its presets are *)
(* numbered in the order of extraction; unzip refuses a file that is not    *)
(* whole.  Progress and messages are left out.                              *)
(*                                                                         *)
(* A definition marked as a fault is a plausible wrong version of the one   *)
(* after it, kept to show which property would notice; no action uses it.   *)
(***************************************************************************)
EXTENDS Naturals, FiniteSets

CONSTANTS Size,   \* pieces of the pack
          Full,   \* presets in the pack
          Many,   \* more presets than this count as the full pack
          Locals, \* how many presets other directories may hold
          MaxOps  \* bound: downloads asked for, restarts, changes of the disk

ASSUME PackAssumption ==
    /\ Size \in Nat \ {0} /\ Full \in Nat /\ Many \in Nat
    /\ Locals \subseteq Nat /\ MaxOps \in Nat

VARIABLES isDownloading,  \* m_isDownloading
          isInstalled,    \* m_isInstalled
          presetCount,    \* m_presetCount
          reply,          \* m_reply: none, running, or answered but not handled
          fileOpen,       \* m_outputFile is open
          pc,             \* GUI thread: in its loop, or waiting for unzip
          target,         \* the directory given to unzip is the right one
          offered,        \* launcher: m_fullPresetCount
          sent,           \* server: pieces sent
          buffer,         \* pieces that have arrived and are not read
          zip,            \* disk: pieces in the zip file
          lost,           \* history: a write to the zip file failed
          presets,        \* disk: the pack's presets in the user's directory
          local,          \* disk: how many presets other directories have
          writable,       \* disk: the user's directory can be made and written
          unzip,          \* unzip: not there, running, or its exit
          extracted,      \* unzip: presets extracted
          orphan,         \* an unzip of a program that has ended
          gone,           \* history: presets removed since the last count,
          goneLocal,      \* and how many from other directories
          ops             \* acts counted so far

status == <<isDownloading, isInstalled, presetCount, offered>>
transfer == <<reply, fileOpen, sent, buffer>>
file == <<zip, lost>>
child == <<pc, target, unzip, extracted>>
disk == <<presets, local, writable, orphan>>
removed == <<gone, goneLocal>>
vars == <<status, transfer, file, child, disk, removed, ops>>

Pack == 1 .. Full

Act == ops < MaxOps /\ ops' = ops + 1

\* refreshPresetLibrary(): the first directory that has any presets.
Refresh == offered' = IF presets # {} THEN Cardinality(presets) ELSE local

\* Fault: the launcher is not told.
FollowPackNot == UNCHANGED offered

\* isInstalledChanged refreshes the launcher's library.
FollowPack == Refresh

\* The presets that checkInstallationStatus() finds.
Count == (IF writable THEN Cardinality(presets) ELSE 0) + local

CheckInstallationStatus ==
    /\ presetCount' = Count
    /\ isInstalled' = (presetCount' > Many)
    /\ FollowPack
    /\ gone' = {} /\ goneLocal' = 0

\* The constructors, in the order of main().
Start ==
    /\ isDownloading' = FALSE
    /\ presetCount' = Count /\ isInstalled' = (presetCount' > Many)
    /\ Refresh
    /\ gone' = {} /\ goneLocal' = 0
    /\ reply' = "none" /\ fileOpen' = FALSE /\ sent' = 0 /\ buffer' = 0
    /\ pc' = "loop" /\ target' = FALSE /\ unzip' = "none" /\ extracted' = 0

Init ==
    /\ presets \in SUBSET Pack /\ local \in Locals /\ writable \in BOOLEAN
    /\ isDownloading = FALSE
    /\ presetCount = Count /\ isInstalled = (presetCount > Many)
    /\ offered = IF presets # {} THEN Cardinality(presets) ELSE local
    /\ gone = {} /\ goneLocal = 0
    /\ reply = "none" /\ fileOpen = FALSE /\ sent = 0 /\ buffer = 0
    /\ pc = "loop" /\ target = FALSE /\ unzip = "none" /\ extracted = 0
    /\ zip = 0 /\ lost = FALSE /\ orphan = FALSE /\ ops = 0

-----------------------------------------------------------------------------
(***************************************************************************)
(* The GUI thread.                                                         *)
(***************************************************************************)

\* Fault: the zip file of the last attempt is appended to.
OpenZipAppending == UNCHANGED file

\* QIODevice::WriteOnly
OpenZip == zip' = 0 /\ lost' = FALSE

\* downloadPack(): without a directory or a file nothing happens.
DownloadPack ==
    /\ pc = "loop" /\ Act
    /\ ~isDownloading /\ writable
    /\ OpenZip
    /\ isDownloading' = TRUE /\ fileOpen' = TRUE
    /\ reply' = "running" /\ sent' = 0 /\ buffer' = 0
    /\ UNCHANGED <<isInstalled, presetCount, offered, child, disk, removed>>

\* What has arrived is written; the result of the write is not looked at.
WriteAll ==
    /\ buffer' = 0
    /\ \/ zip' = zip + buffer /\ UNCHANGED lost
       \/ buffer > 0 /\ lost' = TRUE /\ UNCHANGED zip

\* The handler of readyRead.
OnReadyRead ==
    /\ pc = "loop" /\ buffer > 0
    /\ reply # "none" /\ fileOpen
    /\ WriteAll
    /\ UNCHANGED <<status, reply, fileOpen, sent, child, disk, removed, ops>>

\* Fault: what has arrived with the end of the reply is not read.
WriteRestNot == buffer' = 0 /\ UNCHANGED file

WriteRest == WriteAll

\* Fault: the panel is not told that a failed download has ended.
GiveUpQuietly == UNCHANGED isDownloading

GiveUp == isDownloading' = FALSE

\* onDownloadFinished(), up to the start of unzip.
OnDownloadFinished ==
    /\ pc = "loop" /\ reply \in {"finished", "failed"}
    /\ IF fileOpen THEN WriteRest ELSE UNCHANGED <<buffer, file>>
    /\ fileOpen' = FALSE /\ reply' = "none"
    /\ \/ reply = "failed" /\ GiveUp /\ UNCHANGED child
       \/ /\ reply = "finished" /\ UNCHANGED isDownloading
          /\ pc' = "extracting" /\ target' = writable
          /\ unzip' = "running" /\ extracted' = 0
    /\ UNCHANGED <<isInstalled, presetCount, offered, sent, disk, removed, ops>>

\* Fault: unzip is taken to have worked whenever it has ended.
ExtractionWorkedEnding == unzip # "running"

ExtractionWorked == unzip = "ok"

\* The rest of extractZip(): unzip has ended, or is killed after two minutes.
ExtractionEnds ==
    /\ pc = "extracting"
    /\ pc' = "loop" /\ unzip' = "none"
    /\ isDownloading' = FALSE
    /\ IF ExtractionWorked THEN CheckInstallationStatus
                           ELSE UNCHANGED <<isInstalled, presetCount, offered, removed>>
    /\ UNCHANGED <<transfer, file, target, extracted, disk, ops>>

\* The user starts the visuals, or chooses a library.
UseLibrary ==
    /\ pc = "loop"
    /\ Refresh
    /\ UNCHANGED <<isDownloading, isInstalled, presetCount, transfer, file, child, disk, removed, ops>>

\* The program ends, by itself or not, and is started again.
Restart ==
    /\ Act
    /\ Start
    /\ orphan' = (orphan \/ (unzip = "running" /\ target))
    /\ UNCHANGED <<file, presets, local, writable>>

Gui == DownloadPack \/ OnReadyRead \/ OnDownloadFinished \/ ExtractionEnds \/ UseLibrary \/ Restart

-----------------------------------------------------------------------------
(***************************************************************************)
(* The server, unzip and the disk.                                         *)
(***************************************************************************)
Send ==
    /\ reply = "running" /\ sent < Size
    /\ sent' = sent + 1 /\ buffer' = buffer + 1
    /\ UNCHANGED <<status, reply, fileOpen, file, child, disk, removed, ops>>

Answer ==
    /\ reply = "running"
    /\ \/ sent = Size /\ reply' = "finished"
       \/ reply' = "failed"
    /\ UNCHANGED <<status, fileOpen, sent, buffer, file, child, disk, removed, ops>>

\* One more preset, which may be there already.
UnzipOne ==
    /\ unzip = "running" /\ zip = Size /\ extracted < Full
    /\ extracted' = extracted + 1
    /\ presets' = IF target THEN presets \cup {extracted'} ELSE presets
    /\ UNCHANGED <<status, transfer, file, pc, target, unzip, local, writable, orphan, removed, ops>>

UnzipEnds ==
    /\ unzip = "running"
    /\ \/ unzip' = "failed"
       \/ zip = Size /\ extracted = Full /\ unzip' = "ok"
    /\ UNCHANGED <<status, transfer, file, pc, target, extracted, disk, removed, ops>>

OrphanUnzips ==
    /\ orphan
    /\ \/ zip = Size /\ UNCHANGED orphan
          /\ \E preset \in Pack \ presets : presets' = presets \cup {preset}
       \/ orphan' = FALSE /\ UNCHANGED presets
    /\ UNCHANGED <<status, transfer, file, child, local, writable, removed, ops>>

ChangeDisk ==
    /\ Act
    /\ writable' = ~writable
    /\ UNCHANGED <<status, transfer, file, child, presets, local, orphan, removed>>

\* Somebody deletes presets, some or all of those in a directory.
RemovePresets ==
    /\ Act
    /\ \/ \E some \in SUBSET presets \ {{}} :
             /\ presets' = presets \ some
             /\ gone' = gone \cup some
             /\ UNCHANGED <<local, goneLocal>>
       \/ \E rest \in Locals :
             /\ rest < local
             /\ local' = rest
             /\ goneLocal' = goneLocal + (local - rest)
             /\ UNCHANGED <<presets, gone>>
    /\ UNCHANGED <<status, transfer, file, child, writable, orphan>>

World == Send \/ Answer \/ UnzipOne \/ UnzipEnds \/ OrphanUnzips \/ ChangeDisk \/ RemovePresets

Next == Gui \/ World

Spec == Init /\ [][Next]_vars

\* The event loop runs and the wait for unzip is limited.  The server owes no
\* answer: downloadPack sets no time limit for the transfer (lines 106-110).
FairSpec == Spec /\ WF_vars(OnDownloadFinished) /\ WF_vars(ExtractionEnds)

-----------------------------------------------------------------------------
(***************************************************************************)
(* Properties.                                                             *)
(***************************************************************************)

\* The variables hold values of their types, and never more is kept of the
\* pack than the server has sent (PresetPackDownloader.hpp:48-56).
TypeOK ==
    /\ isDownloading \in BOOLEAN /\ isInstalled \in BOOLEAN
    /\ presetCount \in Nat /\ offered \in Nat
    /\ reply \in {"none", "running", "finished", "failed"} /\ fileOpen \in BOOLEAN
    /\ sent \in 0 .. Size /\ buffer \in 0 .. Size /\ zip \in 0 .. Size /\ lost \in BOOLEAN
    /\ pc \in {"loop", "extracting"} /\ target \in BOOLEAN
    /\ unzip \in {"none", "running", "ok", "failed"} /\ extracted \in 0 .. Full
    /\ presets \subseteq Pack /\ local \in Locals /\ writable \in BOOLEAN
    /\ gone \subseteq Pack /\ goneLocal \in Nat
    /\ orphan \in BOOLEAN /\ ops \in 0 .. MaxOps

\* Through failed downloads, killed extractions and restarts, what the panel
\* calls installed is there or has been removed since it was counted, and the
\* launcher has something to offer unless something was removed (lines 55-76,
\* main.cpp:139).  Nothing is counted again while the program runs, so a
\* removal is shown at the next start, or after the next extraction.
InstalledIsThere ==
    isInstalled =>
        /\ Many < presetCount
        /\ presetCount <= Cardinality(presets \cup gone) + local + goneLocal
        /\ offered > 0 \/ gone # {} \/ goneLocal > 0

\* What unzip is given is all the server has sent, once and in order, also at
\* the second attempt and when the last of it comes with the end of the reply;
\* unless a write failed, which nobody notices (lines 114-118, 137-143).
HandsOverAll == [][pc = "loop" /\ pc' = "extracting" => zip' = Size \/ lost']_vars

\* A pack that becomes installed while the program runs is complete, after
\* whatever earlier attempts, but for what was removed since the last count;
\* unless unzip could not be given the directory (lines 166-195).  At a start
\* more than Many presets are enough.
InstalledComplete ==
    [][ExtractionEnds /\ ~isInstalled /\ isInstalled'
          => presets \cup gone = Pack \/ ~target]_vars

\* Once the reply has ended, with or without an error, the button comes back:
\* no way out of onDownloadFinished and extractZip leaves the panel busy (lines
\* 145-153, 179-197).  A server that stalls keeps it busy for ever.
DownloadEnds == isDownloading /\ reply # "running" ~> ~isDownloading
=============================================================================
