---------------------- MODULE VisualizerLauncherProofs ----------------------
(***************************************************************************)
(* What VisualizerLauncher guarantees whatever the panel asks for,         *)
(* whatever is found on the disk and however often the user acts, proved.  *)
(***************************************************************************)
EXTENDS VisualizerLauncher, TLAPS

\* The durations are where the loader would put them.
Fits(s) ==
    /\ s \in Settings
    /\ s.transition < s.duration
    /\ s.hardCut <= AtLeast(4, s.duration - 2)

\* A running process has not failed: that flag is raised when it ends.  This
\* is what lets Exited leave the message alone after a failure.
FailureIsOver == IsRunning => ~processFailed

Inv ==
    /\ TypeOK /\ KillTimerScoped /\ StatusTruthful /\ FailureIsOver
    /\ Fits(settings) /\ saved = settings

-----------------------------------------------------------------------------
(***************************************************************************)
(* The durations.                                                          *)
(***************************************************************************)

\* Whatever duration is asked for is brought into its range.
LEMMA DurationInRange ==
    ASSUME NEW x \in Int
    PROVE  ClampDuration(x) \in 6 .. 480
BY DEF ClampDuration, Clamp

LEMMA TransitionInRange ==
    ASSUME NEW d \in 6 .. 480, NEW x \in Int
    PROVE  ClampTransition(d, x) \in 1 .. 60 /\ ClampTransition(d, x) < d
BY DEF ClampTransition, Clamp, AtMost

LEMMA HardCutInRange ==
    ASSUME NEW d \in 6 .. 480, NEW x \in Int
    PROVE  ClampHardCut(d, x) \in 4 .. 480 /\ ClampHardCut(d, x) <= AtLeast(4, d - 2)
BY DEF ClampHardCut, Clamp, AtLeast

\* The loader leaves alone what is in range.
LEMMA LoaderKeeps ==
    ASSUME NEW d \in 6 .. 480, NEW t \in 1 .. 60, t < d,
           NEW h \in 4 .. 480, h <= AtLeast(4, d - 2)
    PROVE  ClampDuration(d) = d /\ ClampTransition(d, t) = t /\ ClampHardCut(d, h) = h
BY DEF ClampDuration, ClampTransition, ClampHardCut, Clamp, AtMost, AtLeast

-----------------------------------------------------------------------------
(***************************************************************************)
(* The settings.                                                           *)
(***************************************************************************)
Compose(d, t, h, l, f) ==
    [duration |-> d, transition |-> t, hardCut |-> h, look |-> l, source |-> f]

\* Settings fit when their parts do; and nothing else is in them.
LEMMA FitsParts ==
    ASSUME NEW s, Fits(s)
    PROVE  \E d \in 6 .. 480, t \in 1 .. 60, h \in 4 .. 480, l \in Looks,
             f \in {"CURATED", "ALL"} :
              s = Compose(d, t, h, l, f) /\ t < d /\ h <= AtLeast(4, d - 2)
<1>1. /\ s.duration \in 6 .. 480 /\ s.transition \in 1 .. 60
      /\ s.hardCut \in 4 .. 480 /\ s.look \in Looks
      /\ s.source \in {"CURATED", "ALL"}
      /\ s.transition < s.duration /\ s.hardCut <= AtLeast(4, s.duration - 2)
      /\ s = Compose(s.duration, s.transition, s.hardCut, s.look, s.source)
  BY DEF Fits, Settings, Compose
<1>2. QED
  BY <1>1

LEMMA PartsFit ==
    ASSUME NEW d \in 6 .. 480, NEW t \in 1 .. 60, t < d,
           NEW h \in 4 .. 480, h <= AtLeast(4, d - 2),
           NEW l \in Looks, NEW f \in {"CURATED", "ALL"}
    PROVE  Fits(Compose(d, t, h, l, f))
BY DEF Fits, Settings, Compose

LEMMA WithDurationFits ==
    ASSUME NEW s, Fits(s), NEW x \in Int
    PROVE  Fits(WithDuration(s, x))
<1>1. PICK d \in 6 .. 480, t \in 1 .. 60, h \in 4 .. 480, l \in Looks,
           f \in {"CURATED", "ALL"} :
              s = Compose(d, t, h, l, f) /\ t < d /\ h <= AtLeast(4, d - 2)
  BY FitsParts, Zenon
<1> DEFINE dd == ClampDuration(x)
           tt == Clamp(1, dd - 1, t)
           hh == AtMost(h, AtLeast(4, dd - 2))
<1>2. WithDuration(s, x) = Compose(dd, tt, hh, l, f)
  <2>1. s.transition = t /\ s.hardCut = h
    BY <1>1 DEF Compose
  <2>2. WithDuration(s, x) =
           [s EXCEPT !.duration = dd, !.transition = tt, !.hardCut = hh]
    BY <2>1 DEF WithDuration
  <2> HIDE DEF dd, tt, hh
  <2>3. QED
    BY <1>1, <2>2 DEF Compose
<1>3. dd \in 6 .. 480
  BY DurationInRange, Zenon
<1> HIDE DEF dd
<1>4. tt \in 1 .. 60 /\ tt < dd /\ hh \in 4 .. 480 /\ hh <= AtLeast(4, dd - 2)
  BY <1>3 DEF Clamp, AtMost, AtLeast
<1> HIDE DEF tt, hh
<1>5. Fits(Compose(dd, tt, hh, l, f))
  BY <1>3, <1>4, PartsFit, Zenon
<1>6. QED
  BY <1>2, <1>5

LEMMA TransitionFits ==
    ASSUME NEW s, Fits(s), NEW x \in Int
    PROVE  Fits([s EXCEPT !.transition = ClampTransition(s.duration, x)])
<1>1. PICK d \in 6 .. 480, t \in 1 .. 60, h \in 4 .. 480, l \in Looks,
           f \in {"CURATED", "ALL"} :
              s = Compose(d, t, h, l, f) /\ t < d /\ h <= AtLeast(4, d - 2)
  BY FitsParts, Zenon
<1> DEFINE tt == ClampTransition(d, x)
<1>2. [s EXCEPT !.transition = ClampTransition(s.duration, x)] = Compose(d, tt, h, l, f)
  BY <1>1 DEF Compose
<1>3. tt \in 1 .. 60 /\ tt < d
  BY TransitionInRange, Zenon
<1> HIDE DEF tt
<1>4. Fits(Compose(d, tt, h, l, f))
  BY <1>1, <1>3, PartsFit, Zenon
<1>5. QED
  BY <1>2, <1>4

LEMMA HardCutFits ==
    ASSUME NEW s, Fits(s), NEW x \in Int
    PROVE  Fits([s EXCEPT !.hardCut = ClampHardCut(s.duration, x)])
<1>1. PICK d \in 6 .. 480, t \in 1 .. 60, h \in 4 .. 480, l \in Looks,
           f \in {"CURATED", "ALL"} :
              s = Compose(d, t, h, l, f) /\ t < d /\ h <= AtLeast(4, d - 2)
  BY FitsParts, Zenon
<1> DEFINE hh == ClampHardCut(d, x)
<1>2. [s EXCEPT !.hardCut = ClampHardCut(s.duration, x)] = Compose(d, t, hh, l, f)
  BY <1>1 DEF Compose
<1>3. hh \in 4 .. 480 /\ hh <= AtLeast(4, d - 2)
  BY HardCutInRange, Zenon
<1> HIDE DEF hh
<1>4. Fits(Compose(d, t, hh, l, f))
  BY <1>1, <1>3, PartsFit, Zenon
<1>5. QED
  BY <1>2, <1>4

LEMMA LoadKeeps ==
    ASSUME NEW s, Fits(s)
    PROVE  LoadSettings(s) = s
<1>1. PICK d \in 6 .. 480, t \in 1 .. 60, h \in 4 .. 480, l \in Looks,
           f \in {"CURATED", "ALL"} :
              s = Compose(d, t, h, l, f) /\ t < d /\ h <= AtLeast(4, d - 2)
  BY FitsParts, Zenon
<1>2. s.duration = d /\ s.transition = t /\ s.hardCut = h
  BY <1>1 DEF Compose
<1>3. ClampDuration(d) = d /\ ClampTransition(d, t) = t /\ ClampHardCut(d, h) = h
  BY <1>1, LoaderKeeps, Zenon
<1>4. LoadSettings(s) = [s EXCEPT !.duration = d, !.transition = t, !.hardCut = h]
  BY <1>2, <1>3 DEF LoadSettings
<1>5. QED
  BY <1>1, <1>4 DEF Compose

\* Choosing a source leaves the durations alone.
LEMMA SourceFits ==
    ASSUME NEW s, Fits(s), NEW source \in {"CURATED", "ALL"}
    PROVE  Fits([s EXCEPT !.source = source])
BY DEF Fits, Settings

LEMMA AvailableFits ==
    ASSUME NEW s, Fits(s), NEW found
    PROVE  Fits(Available(s, found))
BY SourceFits DEF Available

-----------------------------------------------------------------------------
(***************************************************************************)
(* The operations keep the invariant.                                      *)
(***************************************************************************)
LEMMA InitInv == Init => Inv
<1> SUFFICES ASSUME Init PROVE Inv
  OBVIOUS
<1>1. Fits(settings) /\ saved = settings
  BY DEF Init, Fits, Settings, AtLeast
<1>2. TypeOK
  <2>1. settings \in Settings /\ saved \in Settings
    BY <1>1 DEF Fits
  <2>2. ops \in 0 .. MaxOps
    BY LauncherAssumption DEF Init
  <2>3. QED
    BY <2>1, <2>2 DEF Init, TypeOK, Status
<1>3. KillTimerScoped /\ StatusTruthful /\ FailureIsOver
  BY DEF Init, KillTimerScoped, StatusTruthful, FailureIsOver, IsRunning
<1>4. QED
  BY <1>1, <1>2, <1>3 DEF Inv

\* Starting a process, or failing to, from any state without one.
LEMMA StartInv ==
    ASSUME Inv, ~IsRunning, Start,
           restartTimer' \in BOOLEAN, restartAfterStop' \in BOOLEAN,
           relaunch' \in BOOLEAN, ops' \in 0 .. MaxOps, UNCHANGED killTimer
    PROVE  Inv'
<1>1. TypeOK'
  BY DEF Inv, Start, process, TypeOK, Status
<1>2. KillTimerScoped'
  BY DEF Inv, Start, KillTimerScoped
<1>3. StatusTruthful' /\ FailureIsOver'
  BY DEF Inv, Start, process, StatusTruthful, FailureIsOver, IsRunning
<1>4. Fits(settings)' /\ (saved = settings)'
  BY DEF Inv, Start, Fits
<1>5. QED
  BY <1>1, <1>2, <1>3, <1>4 DEF Inv

LEMMA TerminateInv ==
    ASSUME Inv, IsRunning, NEW restart \in BOOLEAN, Terminate(restart),
           restartTimer' \in BOOLEAN, ops' \in 0 .. MaxOps
    PROVE  Inv'
<1>1. TypeOK'
  BY DEF Inv, Terminate, TypeOK, Status
<1>2. KillTimerScoped' /\ StatusTruthful' /\ FailureIsOver'
  BY DEF Inv, Terminate, TypeOK, KillTimerScoped, StatusTruthful, FailureIsOver, IsRunning
<1>3. Fits(settings)' /\ (saved = settings)'
  BY DEF Inv, Terminate, Fits
<1>4. QED
  BY <1>1, <1>2, <1>3 DEF Inv

LEMMA ChangeInv ==
    ASSUME Inv, NEW s, Fits(s), Change(s), UNCHANGED status, ops' \in 0 .. MaxOps
    PROVE  Inv'
<1>1. TypeOK'
  BY DEF Inv, Change, Save, ScheduleRestart, IsRunning, Fits, TypeOK
<1>2. KillTimerScoped' /\ StatusTruthful' /\ FailureIsOver'
  BY DEF Inv, Change, KillTimerScoped, StatusTruthful, FailureIsOver, IsRunning
<1>3. Fits(settings)' /\ (saved = settings)'
  BY DEF Change, Save, Fits
<1>4. QED
  BY <1>1, <1>2, <1>3 DEF Inv

LEMMA ActCounts == Inv /\ Act => ops' \in 0 .. MaxOps
BY LauncherAssumption DEF Inv, TypeOK, Act

LEMMA ToggleInv == Inv /\ Toggle => Inv'
<1> SUFFICES ASSUME Inv, Toggle PROVE Inv'
  OBVIOUS
<1>1. ops' \in 0 .. MaxOps
  BY ActCounts DEF Toggle
<1>2. CASE IsRunning /\ Stop
  BY <1>1, <1>2, TerminateInv DEF Stop
<1>3. CASE ~IsRunning /\ Start /\ UNCHANGED stopping
  BY <1>1, <1>3, StartInv DEF stopping, Inv, TypeOK
<1>4. QED
  BY <1>2, <1>3 DEF Toggle

LEMMA ChangeSettingInv == Inv /\ ChangeSetting => Inv'
<1> SUFFICES ASSUME Inv, ChangeSetting PROVE Inv'
  OBVIOUS
<1>1. ops' \in 0 .. MaxOps /\ UNCHANGED status
  BY ActCounts DEF ChangeSetting
<1>2. Fits(settings)
  BY DEF Inv
<1>3. /\ Durations \subseteq Int /\ Transitions \subseteq Int /\ HardCuts \subseteq Int
  BY LauncherAssumption
<1>4. ASSUME NEW x \in Durations, Change(WithDuration(settings, x)) PROVE Inv'
  BY <1>1, <1>2, <1>3, <1>4, WithDurationFits, ChangeInv
<1>5. ASSUME NEW x \in Transitions,
             Change([settings EXCEPT !.transition = ClampTransition(settings.duration, x)])
      PROVE  Inv'
  BY <1>1, <1>2, <1>3, <1>5, TransitionFits, ChangeInv
<1>6. ASSUME NEW x \in HardCuts,
             Change([settings EXCEPT !.hardCut = ClampHardCut(settings.duration, x)])
      PROVE  Inv'
  BY <1>1, <1>2, <1>3, <1>6, HardCutFits, ChangeInv
<1>7. ASSUME NEW look \in Looks, Change([settings EXCEPT !.look = look]) PROVE Inv'
  <2>1. Fits([settings EXCEPT !.look = look])
    BY <1>2 DEF Fits, Settings
  <2>2. QED
    BY <1>1, <1>7, <2>1, ChangeInv
<1>8. QED
  BY <1>4, <1>5, <1>6, <1>7 DEF ChangeSetting

LEMMA SetPresetSourceInv == Inv /\ SetPresetSource => Inv'
<1> SUFFICES ASSUME Inv, SetPresetSource PROVE Inv'
  OBVIOUS
<1>1. ops' \in 0 .. MaxOps
  BY ActCounts DEF SetPresetSource
<1>2. CASE /\ status' = "install first"
           /\ UNCHANGED <<process, stopping, processFailed, settings, saved, disk>>
  <2>1. TypeOK'
    BY <1>1, <1>2 DEF Inv, TypeOK, process, stopping, Status
  <2>2. KillTimerScoped' /\ StatusTruthful' /\ FailureIsOver'
    BY <1>2 DEF Inv, process, stopping, KillTimerScoped, StatusTruthful,
                FailureIsOver, IsRunning
  <2>3. Fits(settings)' /\ (saved = settings)'
    BY <1>2 DEF Inv, Fits
  <2>4. QED
    BY <2>1, <2>2, <2>3 DEF Inv
<1>3. ASSUME NEW source \in {"CURATED", "ALL"},
             Change([settings EXCEPT !.source = source]), UNCHANGED status
      PROVE  Inv'
  <2>1. Fits([settings EXCEPT !.source = source])
    BY SourceFits DEF Inv
  <2>2. QED
    BY <1>1, <1>3, <2>1, ChangeInv
<1>4. QED
  BY <1>2, <1>3 DEF SetPresetSource

LEMMA ChangeDiskInv == Inv /\ ChangeDisk => Inv'
<1> SUFFICES ASSUME Inv, ChangeDisk PROVE Inv'
  OBVIOUS
<1>1. ops' \in 0 .. MaxOps
  BY ActCounts DEF ChangeDisk
<1>2. TypeOK'
  BY <1>1 DEF Inv, TypeOK, ChangeDisk, process, stopping
<1>3. KillTimerScoped' /\ StatusTruthful' /\ FailureIsOver'
  BY DEF Inv, ChangeDisk, process, stopping, KillTimerScoped, StatusTruthful,
         FailureIsOver, IsRunning
<1>4. Fits(settings)' /\ (saved = settings)'
  BY DEF Inv, ChangeDisk, Fits
<1>5. QED
  BY <1>2, <1>3, <1>4 DEF Inv

\* What is read back is what was set; see SettingsSurvive.
LEMMA ReopenKeeps == Inv /\ Reopen => settings' = Available(settings, disk)
<1> SUFFICES ASSUME Inv, Reopen PROVE settings' = Available(settings, disk)
  OBVIOUS
<1>1. LoadSettings(saved) = settings
  BY LoadKeeps DEF Inv
<1>2. QED
  BY <1>1 DEF Reopen

LEMMA ReopenInv == Inv /\ Reopen => Inv'
<1> SUFFICES ASSUME Inv, Reopen PROVE Inv'
  OBVIOUS
<1>1. ops' \in 0 .. MaxOps
  BY ActCounts DEF Reopen
<1>2. Fits(settings)'
  <2>1. Fits(Available(settings, disk))
    BY AvailableFits DEF Inv
  <2>2. QED
    BY <2>1, ReopenKeeps DEF Fits
<1>3. saved' = settings'
  <2>1. saved' = [settings EXCEPT !.source = settings'.source]
    BY DEF Inv, Reopen
  <2>2. settings' = settings \/ settings' = [settings EXCEPT !.source = "CURATED"]
    BY ReopenKeeps DEF Available
  <2>3. settings \in Settings
    BY DEF Inv, TypeOK
  <2>4. QED
    BY <2>1, <2>2, <2>3 DEF Settings
<1>4. TypeOK'
  BY <1>1, <1>2, <1>3 DEF Inv, Reopen, TypeOK, Fits, Status
<1>5. KillTimerScoped' /\ StatusTruthful' /\ FailureIsOver'
  BY DEF Reopen, KillTimerScoped, StatusTruthful, FailureIsOver, IsRunning
<1>6. QED
  BY <1>2, <1>3, <1>4, <1>5 DEF Inv

LEMMA RestartTimeoutInv == Inv /\ RestartTimeout => Inv'
<1> SUFFICES ASSUME Inv, RestartTimeout PROVE Inv'
  OBVIOUS
<1>1. restartTimer' \in BOOLEAN /\ ops' \in 0 .. MaxOps
  BY DEF Inv, TypeOK, RestartTimeout
<1>2. CASE IsRunning /\ Terminate(TRUE)
  BY <1>1, <1>2, TerminateInv
<1>3. CASE ~IsRunning /\ Start /\ UNCHANGED <<killTimer, restartAfterStop, relaunch>>
  BY <1>1, <1>3, StartInv DEF Inv, TypeOK
<1>4. QED
  BY <1>2, <1>3 DEF RestartTimeout

LEMMA KillTimeoutInv == Inv /\ KillTimeout => Inv'
<1> SUFFICES ASSUME Inv, KillTimeout PROVE Inv'
  OBVIOUS
<1>1. TypeOK'
  BY DEF Inv, TypeOK, KillTimeout
<1>2. KillTimerScoped' /\ StatusTruthful' /\ FailureIsOver'
  BY DEF Inv, KillTimeout, KillTimerScoped, StatusTruthful, FailureIsOver, IsRunning
<1>3. Fits(settings)' /\ (saved = settings)'
  BY DEF Inv, KillTimeout, Fits
<1>4. QED
  BY <1>1, <1>2, <1>3 DEF Inv

LEMMA RelaunchInv == Inv /\ Relaunch => Inv'
<1> SUFFICES ASSUME Inv, Relaunch PROVE Inv'
  OBVIOUS
<1>1. UNCHANGED <<restartTimer, killTimer, restartAfterStop, ops>> /\ relaunch' = FALSE
  BY DEF Relaunch
<1>2. CASE ~IsRunning /\ Start
  BY <1>1, <1>2, StartInv DEF Inv, TypeOK
<1>3. CASE /\ IsRunning
           /\ UNCHANGED <<process, processFailed, status, settings, saved, disk>>
  <2>1. TypeOK'
    BY <1>1, <1>3 DEF Inv, TypeOK, process
  <2>2. KillTimerScoped' /\ StatusTruthful' /\ FailureIsOver'
    BY <1>1, <1>3 DEF Inv, process, KillTimerScoped, StatusTruthful,
                      FailureIsOver, IsRunning
  <2>3. Fits(settings)' /\ (saved = settings)'
    BY <1>3 DEF Inv, Fits
  <2>4. QED
    BY <2>1, <2>2, <2>3 DEF Inv
<1>4. QED
  BY <1>2, <1>3 DEF Relaunch

LEMMA StartedInv == Inv /\ Started => Inv'
<1> SUFFICES ASSUME Inv, Started PROVE Inv'
  OBVIOUS
<1>1. TypeOK'
  BY DEF Inv, TypeOK, Started, stopping, Status
<1>2. KillTimerScoped' /\ StatusTruthful' /\ FailureIsOver'
  BY DEF Inv, Started, stopping, KillTimerScoped, StatusTruthful, FailureIsOver, IsRunning
<1>3. Fits(settings)' /\ (saved = settings)'
  BY DEF Inv, Started, Fits
<1>4. QED
  BY <1>1, <1>2, <1>3 DEF Inv

\* The end of the process leaves a truthful message if its caller does.
LEMMA EndedInv ==
    ASSUME Inv, Ended, processFailed' \in BOOLEAN, status' \in Status,
           status' \in {"starting", "running", "applying", "stopping"}
              => restartAfterStop
    PROVE  Inv'
<1>1. TypeOK'
  BY DEF Inv, TypeOK, Ended, StopKillTimer
<1>2. KillTimerScoped' /\ StatusTruthful' /\ FailureIsOver'
  BY DEF Inv, Ended, StopKillTimer, KillTimerScoped, StatusTruthful,
         FailureIsOver, IsRunning
<1>3. Fits(settings)' /\ (saved = settings)'
  BY DEF Inv, Ended, Fits
<1>4. QED
  BY <1>1, <1>2, <1>3 DEF Inv

LEMMA StartFailedInv == Inv /\ StartFailed => Inv'
BY EndedInv DEF StartFailed, Status

LEMMA ExitedInv == Inv /\ Exited => Inv'
<1> SUFFICES ASSUME Inv, Exited PROVE Inv'
  OBVIOUS
<1>1. ~processFailed /\ status \in Status
  BY DEF Inv, Exited, FailureIsOver, IsRunning, TypeOK
<1>2. PICK crashed \in BOOLEAN :
         LET excused == ~crashed \/ restartAfterStop \/ status = "stopping"
         IN  /\ processFailed' = (processFailed \/ ~excused)
             /\ Ended
             /\ status' = IF ~excused THEN "error"
                          ELSE IF restartAfterStop \/ processFailed' THEN status
                          ELSE "stopped"
  BY DEF Exited
<1>3. processFailed' \in BOOLEAN
  BY <1>2
<1>4. status' \in Status
  BY <1>1, <1>2 DEF Status
<1>5. status' \in {"starting", "running", "applying", "stopping"} => restartAfterStop
  BY <1>1, <1>2
<1>6. QED
  BY <1>2, <1>3, <1>4, <1>5, EndedInv

LEMMA NextInv == Inv /\ [Next]_vars => Inv'
<1> SUFFICES ASSUME Inv, [Next]_vars PROVE Inv'
  OBVIOUS
<1>1. CASE User
  BY <1>1, ToggleInv, ChangeSettingInv, SetPresetSourceInv, ChangeDiskInv, ReopenInv
     DEF User
<1>2. CASE RestartTimeout \/ KillTimeout \/ Relaunch
  BY <1>2, RestartTimeoutInv, KillTimeoutInv, RelaunchInv
<1>3. CASE Started \/ StartFailed \/ Exited
  BY <1>3, StartedInv, StartFailedInv, ExitedInv
<1>4. CASE UNCHANGED vars
  <2>1. TypeOK'
    BY <1>4 DEF Inv, vars, process, stopping, TypeOK
  <2>2. KillTimerScoped' /\ StatusTruthful' /\ FailureIsOver'
    BY <1>4 DEF Inv, vars, process, stopping, KillTimerScoped, StatusTruthful,
                FailureIsOver, IsRunning
  <2>3. Fits(settings)' /\ (saved = settings)'
    BY <1>4 DEF Inv, vars, Fits
  <2>4. QED
    BY <2>1, <2>2, <2>3 DEF Inv
<1>5. QED
  BY <1>1, <1>2, <1>3, <1>4 DEF Next

-----------------------------------------------------------------------------
(***************************************************************************)
(* The theorems.                                                           *)
(***************************************************************************)

\* The settings stay in their ranges, the kill timer runs only for the process
\* it was started for, and a message about a process is never left standing
\* without one.
THEOREM LauncherSafety == Spec => [](TypeOK /\ KillTimerScoped /\ StatusTruthful)
<1>1. Inv => TypeOK /\ KillTimerScoped /\ StatusTruthful
  BY DEF Inv
<1>2. QED
  BY InitInv, NextInv, <1>1, PTL DEF Spec

\* Whatever the user has set is what the next session begins with: loadSettings
\* never corrects what the setters have stored.
THEOREM SettingsKept == Spec => SettingsSurvive
<1>1. Inv /\ [Next]_vars => [Reopen => settings' = Available(settings, disk)]_vars
  BY ReopenKeeps
<1>2. QED
  BY InitInv, NextInv, <1>1, PTL DEF Spec, SettingsSurvive
=============================================================================
