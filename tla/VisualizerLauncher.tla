------------------------- MODULE VisualizerLauncher -------------------------
(***************************************************************************)
(* models/VisualizerLauncher.cpp: the projectM process the player keeps    *)
(* beside it, the two timers that restart and kill it, and the settings it *)
(* is started with.                                                        *)
(*                                                                         *)
(* The GUI thread runs one handler at a time; the process is started,      *)
(* told to end and ends by itself outside it, and QProcess reports this.   *)
(* Timers have no length here: one that runs may fire at any time, but the *)
(* posted relaunch (a timer of 0 ms) fires before a process that has been  *)
(* started meanwhile can end.                                              *)
(*                                                                         *)
(* Of the settings, the three durations that limit each other and the      *)
(* preset source are kept; all the others are one value, `look`.           *)
(* Durations are in half seconds.  The command line of the process is      *)
(* reduced to whether it carries the present settings.                     *)
(*                                                                         *)
(* A definition marked as a fault is a plausible wrong version of the one  *)
(* after it, kept to show which property would notice; no action uses it.  *)
(***************************************************************************)
EXTENDS Integers, FiniteSets

CONSTANTS Durations,    \* preset durations the user may ask for
          Transitions,  \* transition durations the user may ask for
          HardCuts,     \* hard cut durations the user may ask for
          Looks,        \* values of the other settings
          Disks,        \* what may be found on the disk
          MaxOps        \* bound: how many times the user and the disk act

ASSUME LauncherAssumption ==
    /\ Durations \cup Transitions \cup HardCuts \subseteq Int
    /\ Looks # {}
    /\ Disks \subseteq SUBSET {"CURATED", "ALL", "projectMSDL"}
    /\ MaxOps \in Nat

VARIABLES proc,              \* m_process->state()
          signal,            \* the strongest signal the process was sent
          applied,           \* it was started with the present settings
          restartTimer,      \* m_restartTimer is running
          killTimer,         \* m_forceKillTimer is running
          restartAfterStop,  \* m_restartAfterStop
          relaunch,          \* a call of launchVisuals is posted
          processFailed,     \* m_processFailed
          status,            \* m_statusMessage
          settings,          \* the settings in memory
          saved,             \* the settings stored
          disk,              \* the preset sources and the program found on the disk
          ops                \* acts of the user and the disk so far

process == <<proc, signal, applied>>
stopping == <<restartTimer, killTimer, restartAfterStop, relaunch>>
vars == <<process, stopping, processFailed, status, settings, saved, disk, ops>>

Status == {"stopped", "starting", "running", "applying", "stopping", "error",
           "no presets", "no runtime", "install first"}

-----------------------------------------------------------------------------
(***************************************************************************)
(* Settings.                                                               *)
(***************************************************************************)
Clamp(low, high, x) == IF x < low THEN low ELSE IF x > high THEN high ELSE x
AtMost(x, y) == IF x < y THEN x ELSE y
AtLeast(x, y) == IF x < y THEN y ELSE x

ClampDuration(x) == Clamp(6, 480, x)
ClampTransition(duration, x) == Clamp(1, AtMost(60, duration - 1), x)
ClampHardCut(duration, x) == Clamp(4, AtLeast(4, duration - 2), x)

Settings == [duration : 6 .. 480, transition : 1 .. 60, hardCut : 4 .. 480,
             look : Looks, source : {"CURATED", "ALL"}]

\* Fault: what the panel asks for is taken as it is.
WithDurationAsked(s, x) ==
    [s EXCEPT !.duration = x,
              !.transition = Clamp(1, x - 1, s.transition),
              !.hardCut = AtMost(s.hardCut, AtLeast(4, x - 2))]

\* Setting the preset duration drags the two others into their new ranges.
WithDuration(s, x) ==
    LET d == ClampDuration(x) IN
    [s EXCEPT !.duration = d,
              !.transition = Clamp(1, d - 1, s.transition),
              !.hardCut = AtMost(s.hardCut, AtLeast(4, d - 2))]

\* loadSettings(): what the stored values become when they are read again.
LoadSettings(s) ==
    LET d == ClampDuration(s.duration) IN
    [s EXCEPT !.duration = d,
              !.transition = ClampTransition(d, s.transition),
              !.hardCut = ClampHardCut(d, s.hardCut)]

\* The constructor: the full library is given up when it is not there.
Available(s, found) ==
    IF "ALL" \in found THEN s ELSE [s EXCEPT !.source = "CURATED"]

Init ==
    /\ proc = "NotRunning" /\ signal = "none" /\ applied = TRUE
    /\ restartTimer = FALSE /\ killTimer = FALSE
    /\ restartAfterStop = FALSE /\ relaunch = FALSE
    /\ processFailed = FALSE /\ status = "stopped"
    /\ \E look \in Looks :
          settings = [duration |-> 30, transition |-> 5, hardCut |-> 20,
                      look |-> look, source |-> "CURATED"]
    /\ saved = settings
    /\ disk \in Disks
    /\ ops = 0

-----------------------------------------------------------------------------
(***************************************************************************)
(* Starting and stopping the process.                                      *)
(***************************************************************************)
IsRunning == proc # "NotRunning"

\* launchVisuals() when no process runs.
Start ==
    /\ \/ /\ settings.source \notin disk
          /\ status' = IF settings.source = "ALL" THEN "install first" ELSE "no presets"
          /\ UNCHANGED <<process, processFailed>>
       \/ /\ settings.source \in disk /\ "projectMSDL" \notin disk
          /\ status' = "no runtime"
          /\ UNCHANGED <<process, processFailed>>
       \/ /\ {settings.source, "projectMSDL"} \subseteq disk
          /\ proc' = "Starting" /\ signal' = "none" /\ applied' = TRUE
          /\ processFailed' = FALSE
          /\ status' = "starting"
    /\ UNCHANGED <<disk, settings, saved>>

\* Fault: nothing is prepared for a process that does not listen.
TerminatePolitely(restart) ==
    /\ restartAfterStop' = restart
    /\ status' = IF restart THEN "applying" ELSE "stopping"
    /\ signal' = IF signal = "kill" THEN "kill" ELSE "term"
    /\ UNCHANGED <<proc, applied, killTimer, relaunch, processFailed, settings, saved, disk>>

\* requestProcessStop() of a running process.
Terminate(restart) ==
    /\ restartAfterStop' = restart
    /\ status' = IF restart THEN "applying" ELSE "stopping"
    /\ signal' = IF signal = "kill" THEN "kill" ELSE "term"
    /\ killTimer' = TRUE
    /\ UNCHANGED <<proc, applied, relaunch, processFailed, settings, saved, disk>>

\* stopVisuals() of a running process.
Stop == restartTimer' = FALSE /\ Terminate(FALSE)

Act == ops < MaxOps /\ ops' = ops + 1

Toggle ==
    /\ Act
    /\ \/ IsRunning /\ Stop
       \/ ~IsRunning /\ Start /\ UNCHANGED stopping

\* Fault: a process that is still starting is forgotten.
ScheduleRestartRunning ==
    restartTimer' = (restartTimer \/ proc = "Running")

\* scheduleRestartIfRunning()
ScheduleRestart == restartTimer' = (restartTimer \/ IsRunning)

\* Fault: only the duration itself is stored.
SaveChanged(s) ==
    saved' = IF s.duration # settings.duration
             THEN [saved EXCEPT !.duration = s.duration] ELSE s

Save(s) == saved' = s

\* A setter with a new value: remember, store, restart.
Change(s) ==
    /\ s # settings
    /\ settings' = s
    /\ Save(s)
    /\ ScheduleRestart
    /\ applied' = FALSE
    /\ UNCHANGED <<proc, signal, killTimer, restartAfterStop, relaunch,
                   processFailed, disk>>

ChangeSetting ==
    /\ Act
    /\ \/ \E x \in Durations : Change(WithDuration(settings, x))
       \/ \E x \in Transitions :
             Change([settings EXCEPT !.transition = ClampTransition(settings.duration, x)])
       \/ \E x \in HardCuts :
             Change([settings EXCEPT !.hardCut = ClampHardCut(settings.duration, x)])
       \/ \E look \in Looks : Change([settings EXCEPT !.look = look])
    /\ UNCHANGED status

\* setPresetSource(): the full library must be there to be chosen.
SetPresetSource ==
    /\ Act
    /\ \/ /\ "ALL" \notin disk
          /\ status' = "install first"
          /\ UNCHANGED <<process, stopping, processFailed, settings, saved, disk>>
       \/ \E source \in {"CURATED", "ALL"} :
             /\ source = "ALL" => "ALL" \in disk
             /\ Change([settings EXCEPT !.source = source])
             /\ UNCHANGED status

\* Presets or the program are installed, or removed behind the program's back.
ChangeDisk ==
    /\ Act
    /\ disk' \in Disks \ {disk}
    /\ UNCHANGED <<process, stopping, processFailed, status, settings, saved>>

\* The program ends, ending the process, and is opened again.
Reopen ==
    /\ Act
    /\ proc' = "NotRunning" /\ signal' = "none" /\ applied' = TRUE
    /\ restartTimer' = FALSE /\ killTimer' = FALSE
    /\ restartAfterStop' = FALSE /\ relaunch' = FALSE
    /\ processFailed' = FALSE /\ status' = "stopped"
    /\ settings' = Available(LoadSettings(saved), disk)
    /\ saved' = [saved EXCEPT !.source = settings'.source]
    /\ UNCHANGED disk

User == Toggle \/ ChangeSetting \/ SetPresetSource \/ ChangeDisk \/ Reopen

-----------------------------------------------------------------------------
(***************************************************************************)
(* Timers.                                                                 *)
(***************************************************************************)

\* performRestart(): requestProcessStop(true)
RestartTimeout ==
    /\ restartTimer
    /\ restartTimer' = FALSE
    /\ \/ IsRunning /\ Terminate(TRUE)
       \/ ~IsRunning /\ Start /\ UNCHANGED <<killTimer, restartAfterStop, relaunch>>
    /\ UNCHANGED ops

KillTimeout ==
    /\ killTimer
    /\ killTimer' = FALSE
    /\ signal' = IF IsRunning THEN "kill" ELSE signal
    /\ UNCHANGED <<proc, applied, restartTimer, restartAfterStop, relaunch,
                   processFailed, status, settings, saved, disk, ops>>

\* The posted launchVisuals() is executed.
Relaunch ==
    /\ relaunch
    /\ relaunch' = FALSE
    /\ \/ ~IsRunning /\ Start
       \/ IsRunning /\ UNCHANGED <<process, processFailed, status, settings, saved, disk>>
    /\ UNCHANGED <<restartTimer, killTimer, restartAfterStop, ops>>

-----------------------------------------------------------------------------
(***************************************************************************)
(* The process, as QProcess reports it.                                    *)
(***************************************************************************)
Started ==
    /\ proc = "Starting"
    /\ proc' = "Running"
    /\ status' = "running"
    /\ UNCHANGED <<signal, applied, stopping, processFailed, settings, saved, disk, ops>>

\* Fault: the kill timer is left running.
StopKillTimerNever == UNCHANGED killTimer

StopKillTimer == killTimer' = FALSE

\* Fault: the end is not taken as the moment to start again.
EndedForgetfully ==
    /\ proc' = "NotRunning"
    /\ StopKillTimer
    /\ restartAfterStop' = FALSE
    /\ UNCHANGED <<signal, applied, restartTimer, relaunch, settings, saved, disk, ops>>

\* onProcessStateChanged(NotRunning), its status message apart.
Ended ==
    /\ proc' = "NotRunning"
    /\ StopKillTimer
    /\ relaunch' = (relaunch \/ restartAfterStop)
    /\ restartAfterStop' = FALSE
    /\ UNCHANGED <<signal, applied, restartTimer, settings, saved, disk, ops>>

\* The state changes first and FailedToStart is reported after it.
StartFailed ==
    /\ proc = "Starting"
    /\ Ended
    /\ processFailed' = TRUE
    /\ status' = "error"

\* Crashed is reported before the state changes.  The end by a signal that
\* was asked for is no error.
Exited ==
    /\ proc = "Running" /\ ~relaunch
    /\ \E crashed \in BOOLEAN :
          LET excused == ~crashed \/ restartAfterStop \/ status = "stopping"
          IN  /\ signal = "kill" => crashed
              /\ processFailed' = (processFailed \/ ~excused)
              /\ Ended
              /\ status' = IF ~excused THEN "error"
                           ELSE IF restartAfterStop \/ processFailed' THEN status
                           ELSE "stopped"

Next == User \/ RestartTimeout \/ KillTimeout \/ Relaunch \/ Started \/ StartFailed \/ Exited

Spec == Init /\ [][Next]_vars

\* Timers fire, a start succeeds or fails, and a killed process ends; one that
\* was only asked to end need not.
Fairness ==
    /\ WF_vars(RestartTimeout) /\ WF_vars(KillTimeout) /\ WF_vars(Relaunch)
    /\ WF_vars(Started \/ StartFailed)
    /\ WF_vars(signal = "kill" /\ Exited)

FairSpec == Spec /\ Fairness

-----------------------------------------------------------------------------
(***************************************************************************)
(* Properties.                                                             *)
(***************************************************************************)

\* The variables hold values of their types (VisualizerLauncher.hpp:105-138).
TypeOK ==
    /\ proc \in {"NotRunning", "Starting", "Running"}
    /\ signal \in {"none", "term", "kill"}
    /\ applied \in BOOLEAN
    /\ restartTimer \in BOOLEAN /\ killTimer \in BOOLEAN
    /\ restartAfterStop \in BOOLEAN /\ relaunch \in BOOLEAN
    /\ processFailed \in BOOLEAN /\ status \in Status
    /\ settings \in Settings /\ saved \in Settings
    /\ disk \in Disks
    /\ ops \in 0 .. MaxOps

\* The kill timer only ever runs for the process it was started for: it is
\* not left over to kill the next one (m_forceKillTimer, lines 51-53, 442, 478).
KillTimerScoped == killTimer => IsRunning /\ signal # "none"

\* A message that speaks of a process is not left standing when there is none
\* and none about to be started (setStatusMessage, lines 439, 471, 483, 493).
StatusTruthful ==
    status \in {"starting", "running", "applying", "stopping"} => IsRunning \/ relaunch

\* What the user has set is what the next session begins with: loadSettings
\* never corrects what the setters stored; only a full library that is gone is
\* given up (lines 58-62, 76-93).
SettingsSurvive == [][Reopen => settings' = Available(settings, disk)]_vars

\* A setting changed under a running visualizer is applied to it, unless it
\* ends for good (scheduleRestartIfRunning, performRestart).
ChangesApplied ==
    (IsRunning /\ ~applied) ~> (applied \/ (~IsRunning /\ ~restartAfterStop /\ ~relaunch))

\* A process that was asked to end is gone in the end, although it need not
\* listen (requestProcessStop, m_forceKillTimer).
StopEnds == (IsRunning /\ signal # "none") ~> ~IsRunning
=============================================================================
