----------------------------- MODULE FilterGraph -----------------------------
(***************************************************************************)
(* audio/AudioPlayer.cpp and AudioRouting.cpp: which filter graph and      *)
(* which output channels the core is given, for which mode, equalizer,     *)
(* speaker settings and source.                                            *)
(*                                                                         *)
(* The player learns the format of the source by reading two properties,   *)
(* one after the other, when a file is loaded and when a change is         *)
(* reported; the core decodes, changes tracks and ends files meanwhile.    *)
(* mpv_wait_event() hands out events first, and then the reports, of which *)
(* there is one at most and which carries nothing.  The core reports that  *)
(* a format has gone before it has the next one.                           *)
(*                                                                         *)
(* Abstractions: preamp and bands are one value; the five cutoffs of the   *)
(* surround profile are one; a graph is what its text is made from.  The   *)
(* transport is reduced to what it does here: it asks for a load or a      *)
(* stop, and fills and empties the queue.                                  *)
(*                                                                         *)
(* A definition marked as a fault is a plausible wrong version of the one  *)
(* after it, kept to show which property would notice; no action uses it.  *)
(***************************************************************************)
EXTENDS Integers, Sequences

CONSTANTS Formats,  \* what sources decode to: records of channels and layout
          Gains,    \* what the equalizer may do to the sound
          Flat,     \* the one that changes nothing
          Asked,    \* numbers the speaker panel may ask for
          MaxOps,   \* bound: how many times the user acts
          MaxFiles  \* bound: how many files and tracks are started

ASSUME FilterAssumption ==
    /\ \A f \in Formats : f.channels \in Nat \ {0}
    /\ Flat \in Gains
    /\ Asked \subseteq Int
    /\ MaxOps \in Nat /\ MaxFiles \in Nat

VARIABLES mode,            \* m_surroundMode
          eq,              \* m_preamp and m_eqBands as far as m_eqEnabled lets them through
          speakers,        \* the speaker settings in memory
          saved,           \* the speaker settings stored
          sourceChannels,  \* m_sourceChannels
          sourceLayout,    \* m_sourceChannelLayout
          queued,          \* m_queuedFiles is not empty
          appliedFilter,   \* m_appliedFilter
          appliedChannels, \* m_appliedChannels
          seen,            \* the number just read, when the layout is still to be read
          hasFile,         \* core: a file is open
          format,          \* core: what it decodes to
          published,       \* core: the format last reported
          fresh,           \* core: a report is waiting
          events,          \* core: events waiting
          asked,           \* core: a load or a stop is waiting
          coreFilter,      \* core: af
          coreChannels,    \* core: audio-channels
          refused,         \* history: the core refused a setting of the last application
          ops,             \* acts of the user so far
          files            \* files and tracks started so far

settings == <<mode, eq, speakers, saved>>
source == <<sourceChannels, sourceLayout>>
graph == <<appliedFilter, appliedChannels, coreFilter, coreChannels, refused>>
core == <<hasFile, format, published, fresh, events, asked, files>>
vars == <<settings, source, queued, graph, seen, core, ops>>

NoFormat == [channels |-> 0, layout |-> "none"]
NotReading == -1

-----------------------------------------------------------------------------
(***************************************************************************)
(* Speaker settings.                                                       *)
(***************************************************************************)
StereoProfile == {"highpass", "lowpass", "subGain"}
SurroundProfile == {"cutoff", "surroundLowpass", "surroundSubGain"}
Speakers == StereoProfile \cup SurroundProfile

Low(k) == CASE k \in {"highpass", "cutoff"} -> 0
            [] k \in {"lowpass", "surroundLowpass"} -> 40
            [] k \in {"subGain", "surroundSubGain"} -> -12
High(k) == IF k \in {"subGain", "surroundSubGain"} THEN 6 ELSE 200

Default(k) == CASE k \in {"highpass", "cutoff", "lowpass"} -> 80
                [] k = "surroundLowpass" -> 120
                [] k \in {"subGain", "surroundSubGain"} -> 0

\* Fault: what the panel asks for is taken as it is.
ClampNot(k, x) == x

\* std::clamp
Clamp(k, x) == IF x < Low(k) THEN Low(k) ELSE IF x > High(k) THEN High(k) ELSE x

-----------------------------------------------------------------------------
(***************************************************************************)
(* The graph a source needs.                                               *)
(***************************************************************************)
OutputChannels(m) == IF m = "STEREO" THEN "stereo" ELSE "auto-safe"

\* Which bass management, if any.
Bass(m, src) ==
    IF m = "SURROUND" /\ src.channels \in 1 .. 2 THEN "upmix"
    ELSE IF m = "SURROUND" /\ src.channels = 6 /\ src.layout \in {"5.1", "5.1(side)"}
         THEN src.layout
    ELSE IF m = "2.1" /\ src.channels \in 1 .. 2 THEN "2.1"
    ELSE "none"

ProfileOf(bass) == CASE bass = "none" -> {}
                     [] bass = "2.1" -> StereoProfile
                     [] OTHER -> SurroundProfile

Graph(m, e, sp, src) ==
    LET bass == Bass(m, src) IN
    [gains |-> e,
     bass |-> bass,
     speakers |-> [k \in ProfileOf(bass) |-> sp[k]]]

NoGraph == [gains |-> Flat, bass |-> "none", speakers |-> [k \in {} |-> 0]]

Init ==
    /\ mode = "AUTO" /\ eq = Flat
    /\ speakers = [k \in Speakers |-> Default(k)] /\ saved = speakers
    /\ sourceChannels = 0 /\ sourceLayout = "none"
    /\ queued = FALSE
    /\ appliedFilter = NoGraph /\ appliedChannels = "" /\ refused = FALSE
    /\ seen = NotReading
    /\ hasFile = FALSE /\ format = NoFormat /\ published = NoFormat /\ fresh = FALSE
    /\ events = <<>> /\ asked = FALSE
    /\ coreFilter = NoGraph /\ coreChannels = "auto-safe"
    /\ ops = 0 /\ files = 0

Source == [channels |-> sourceChannels, layout |-> sourceLayout]

\* Fault: as long as anything is queued the graph is left alone.
HandingOverQueued == queued

\* Between two files of the queue the source is unknown.
HandingOver == queued /\ sourceChannels = 0

\* Each of the two settings is sent when it differs from what the core has
\* taken, and the core may refuse it.
SendChannels(ok) ==
    LET c == OutputChannels(mode') IN
    \/ c = appliedChannels /\ ok /\ UNCHANGED <<appliedChannels, coreChannels>>
    \/ /\ c # appliedChannels
       /\ appliedChannels' = IF ok THEN c ELSE appliedChannels
       /\ coreChannels' = IF ok THEN c ELSE coreChannels

SendFilter(ok) ==
    LET g == Graph(mode', eq', speakers', Source') IN
    \/ (HandingOver' \/ g = appliedFilter) /\ ok /\ UNCHANGED <<appliedFilter, coreFilter>>
    \/ /\ ~HandingOver' /\ g # appliedFilter
       /\ appliedFilter' = IF ok THEN g ELSE appliedFilter
       /\ coreFilter' = IF ok THEN g ELSE coreFilter

\* applyAudioFilters()
Apply == \E c, f \in BOOLEAN : SendChannels(c) /\ SendFilter(f) /\ refused' = ~(c /\ f)

-----------------------------------------------------------------------------
(***************************************************************************)
(* The user.  The GUI thread runs one handler at a time.                   *)
(***************************************************************************)
Idle == seen = NotReading
Act == Idle /\ ops < MaxOps /\ ops' = ops + 1

\* setSurroundMode(), setEqEnabled(), setPreamp(), setEqBands()
SetSound ==
    /\ Act
    /\ \/ mode' \in {"AUTO", "STEREO", "SURROUND", "2.1"} \ {mode} /\ UNCHANGED eq
       \/ eq' \in Gains \ {eq} /\ UNCHANGED mode
    /\ UNCHANGED <<speakers, saved, source, queued, seen, core>>
    /\ Apply

\* Fault: the gain of the surround profile is not stored.
StoreOthers(s) == saved' = [s EXCEPT !["surroundSubGain"] = saved["surroundSubGain"]]

Store(s) == saved' = s

\* setSpeakerCutoff() ... setSurroundSubwooferGain(), resetSpeakerProfile()
SetSpeakers ==
    /\ Act
    /\ \/ \E k \in Speakers, x \in Asked : speakers' = [speakers EXCEPT ![k] = Clamp(k, x)]
       \/ \E profile \in {StereoProfile, SurroundProfile} :
             speakers' = [k \in Speakers |-> IF k \in profile THEN Default(k) ELSE speakers[k]]
    /\ Store(speakers')
    /\ UNCHANGED <<mode, eq, source, queued, seen, core>>
    /\ Apply

\* load() clears the old graph before it asks for the file; stop() does not.
LoadOrStop ==
    /\ Act
    /\ queued' = FALSE /\ sourceChannels' = 0 /\ asked' = TRUE
    /\ UNCHANGED <<settings, sourceLayout, seen, hasFile, format, published, fresh, events, files>>
    /\ Apply \/ UNCHANGED graph

\* syncNextTrack() and rememberNativeQueue()
ChangeQueue ==
    /\ Idle
    /\ queued' = ~queued
    /\ UNCHANGED <<settings, source, graph, seen, core, ops>>

\* The program ends and is started again.
Reopen ==
    /\ Act
    /\ mode' = "AUTO" /\ eq' = Flat
    /\ speakers' = [k \in Speakers |-> Clamp(k, saved[k])] /\ UNCHANGED saved
    /\ sourceChannels' = 0 /\ sourceLayout' = "none"
    /\ queued' = FALSE
    /\ appliedFilter' = NoGraph /\ appliedChannels' = "" /\ refused' = FALSE
    /\ UNCHANGED seen
    /\ hasFile' = FALSE /\ format' = NoFormat /\ published' = NoFormat /\ fresh' = FALSE
    /\ events' = <<>> /\ asked' = FALSE /\ UNCHANGED files
    /\ coreFilter' = NoGraph /\ coreChannels' = "auto-safe"

User == SetSound \/ SetSpeakers \/ LoadOrStop \/ ChangeQueue \/ Reopen

-----------------------------------------------------------------------------
(***************************************************************************)
(* processMpvEvents().                                                     *)
(***************************************************************************)

\* updateSourceAudioParams() reads the number of channels ...
ReadChannels ==
    /\ Idle
    /\ \/ /\ events # <<>> /\ Head(events) = "loaded"
          /\ events' = Tail(events) /\ UNCHANGED fresh
       \/ /\ events = <<>> /\ fresh
          /\ fresh' = FALSE /\ UNCHANGED events
    /\ seen' = format.channels
    /\ UNCHANGED <<settings, source, queued, graph, hasFile, format, published, asked, files, ops>>

\* Fault: the layout is only kept when the number of channels changes.
KeepLayoutOfOthers ==
    sourceLayout' = IF seen = sourceChannels THEN sourceLayout ELSE format.layout

KeepLayout == sourceLayout' = format.layout

\* ... then the layout, and the graph is brought up to date.
ReadLayout ==
    /\ ~Idle
    /\ sourceChannels' = seen
    /\ KeepLayout
    /\ seen' = NotReading
    /\ UNCHANGED <<settings, queued, core, ops>>
    /\ Apply

\* END_FILE, which a pending load or the queue may make the player ignore.
FileEnded ==
    /\ Idle
    /\ events # <<>> /\ Head(events) = "end"
    /\ events' = Tail(events)
    /\ \/ sourceChannels' = 0 /\ queued' = FALSE
       \/ UNCHANGED <<sourceChannels, queued>>
    /\ UNCHANGED <<settings, sourceLayout, graph, seen, hasFile, format, published, fresh, asked, files, ops>>

Gui == ReadChannels \/ ReadLayout \/ FileEnded

-----------------------------------------------------------------------------
(***************************************************************************)
(* The core.                                                               *)
(***************************************************************************)

\* The file ends, or is ended by a load or a stop that was asked for.
EndFile ==
    /\ \/ asked /\ asked' = FALSE
       \/ hasFile /\ UNCHANGED asked
    /\ hasFile' = FALSE /\ format' = NoFormat
    /\ events' = IF hasFile THEN Append(events, "end") ELSE events
    /\ UNCHANGED <<settings, source, queued, graph, seen, published, fresh, files, ops>>

OpenFile ==
    /\ ~hasFile /\ files < MaxFiles /\ files' = files + 1
    /\ hasFile' = TRUE
    /\ events' = Append(events, "loaded")
    /\ UNCHANGED <<settings, source, queued, graph, seen, format, published, fresh, asked, ops>>

\* The user selects another audio track (aid), which is reported by itself.
SwitchTrack ==
    /\ format # NoFormat /\ files < MaxFiles /\ files' = files + 1
    /\ format' = NoFormat /\ fresh' = TRUE
    /\ UNCHANGED <<settings, source, queued, graph, seen, hasFile, published, events, asked, ops>>

\* The first sound of a file or a track is decoded, if there is any.
Decode ==
    /\ hasFile /\ format = NoFormat /\ published = NoFormat
    /\ format' \in Formats
    /\ UNCHANGED <<settings, source, queued, graph, seen, hasFile, published, fresh, events, asked, files, ops>>

Publish ==
    /\ published # format
    /\ published' = format /\ fresh' = TRUE
    /\ UNCHANGED <<settings, source, queued, graph, seen, hasFile, format, events, asked, files, ops>>

Core == EndFile \/ OpenFile \/ SwitchTrack \/ Decode \/ Publish

Next == User \/ Gui \/ Core

Spec == Init /\ [][Next]_vars

\* The event timer keeps running, and the core reports what has changed.
FairSpec == Spec /\ WF_vars(Gui) /\ WF_vars(Publish) /\ WF_vars(asked /\ EndFile)

-----------------------------------------------------------------------------
(***************************************************************************)
(* Properties.                                                             *)
(***************************************************************************)
Layouts == {"none"} \cup {f.layout : f \in Formats}

SpeakersOK(s) ==
    /\ s \in [Speakers -> Int]
    /\ \A k \in Speakers : s[k] \in Low(k) .. High(k)

SettingsOK == /\ mode \in {"AUTO", "STEREO", "SURROUND", "2.1"} /\ eq \in Gains
              /\ SpeakersOK(speakers) /\ SpeakersOK(saved)
SourceOK == /\ sourceChannels \in Nat /\ seen \in Nat \cup {NotReading}
            /\ sourceLayout \in Layouts
            /\ queued \in BOOLEAN
GraphOK == /\ appliedChannels \in {"", "stereo", "auto-safe"}
           /\ coreChannels \in {"stereo", "auto-safe"}
           /\ refused \in BOOLEAN
CoreOK == /\ format \in Formats \cup {NoFormat} /\ published \in Formats \cup {NoFormat}
          /\ hasFile \in BOOLEAN /\ fresh \in BOOLEAN /\ asked \in BOOLEAN
          /\ events \in Seq({"end", "loaded"})
          /\ files \in 0 .. MaxFiles

\* The variables hold values of their types; speaker settings are in their
\* ranges, in memory and where they are stored (AudioPlayer.cpp:89-95, 533-604).
TypeOK == SettingsOK /\ SourceOK /\ GraphOK /\ CoreOK /\ ops \in 0 .. MaxOps

\* Nothing is left to be read or done.
Quiet == Idle /\ ~fresh /\ events = <<>> /\ ~asked /\ published = format

Right == /\ coreFilter = Graph(mode, eq, speakers, format)
         /\ coreChannels = OutputChannels(mode)

\* When all is quiet the core filters what plays as the present mode, equalizer
\* and speaker settings and the actual source demand, whatever was read in the
\* middle of a change; unless it refused the last attempt (applyAudioFilters,
\* lines 650-698, updateSourceAudioParams, lines 700-716).
FilterSettles == Quiet /\ format # NoFormat => Right \/ refused

\* A source that goes on playing is given its graph in the end, also after a
\* handoff during which the graph was left alone (lines 381-388, 660).
SourceServed ==
    \A f \in Formats : format = f ~> (format # f \/ Right \/ refused \/ asked)

\* The speaker settings of one session are those of the next (lines 89-95,
\* 533-604).
SpeakersSurvive == [][Reopen => speakers' = speakers]_vars
=============================================================================
