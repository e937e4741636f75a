-------------------------- MODULE FilterGraphProofs --------------------------
(***************************************************************************)
(* What FilterGraph guarantees for every source, setting and number of     *)
(* files, proved.                                                          *)
(***************************************************************************)
EXTENDS FilterGraph, SequenceTheorems, TLAPS

\* What the player knows is the source there is.
Known == sourceChannels = format.channels /\ sourceLayout = format.layout

\* What is recorded as applied is what the core has.
RecordsTrue == appliedFilter = coreFilter /\ appliedChannels \in {"", coreChannels}

\* While a file is open, its loading is the last event that can be waiting.
EventsOrdered ==
    /\ ~hasFile => format = NoFormat
    /\ hasFile /\ events # <<>> => events[Len(events)] = "loaded"

\* Halfway through a read, the number read is the present one, or a report is
\* on its way that makes the player read again.
ReadFresh ==
    ~Idle /\ ~fresh /\ published = format /\ format # NoFormat => seen = format.channels

\* FilterSettles, with what the player knows.
Settled == Quiet /\ format # NoFormat => Known /\ (Right \/ refused)

Inv == TypeOK /\ saved = speakers /\ RecordsTrue /\ EventsOrdered /\ ReadFresh /\ Settled

-----------------------------------------------------------------------------
(***************************************************************************)
(* Operators.                                                              *)
(***************************************************************************)

\* A clamped number is in its range, and one in its range is left alone.
LEMMA ClampInRange ==
    ASSUME NEW k \in Speakers, NEW x \in Int
    PROVE  /\ Clamp(k, x) \in Low(k) .. High(k)
           /\ x \in Low(k) .. High(k) => Clamp(k, x) = x
           /\ Clamp(k, x) \in Int
<1>1. Low(k) \in Int /\ High(k) \in Int /\ Low(k) <= High(k)
  BY DEF Speakers, StereoProfile, SurroundProfile, Low, High
<1>2. QED
  BY <1>1 DEF Clamp

LEMMA DefaultInRange ==
    ASSUME NEW k \in Speakers
    PROVE  Default(k) \in Int /\ Default(k) \in Low(k) .. High(k)
BY DEF Speakers, StereoProfile, SurroundProfile, Low, High, Default

\* A source that decodes to anything is not silence.
LEMMA FormatChannels ==
    ASSUME format \in Formats \cup {NoFormat}
    PROVE  /\ format.channels \in Nat
           /\ format # NoFormat => format.channels # 0
BY FilterAssumption DEF NoFormat

\* An application is recorded truly, and it leaves the core with what is
\* wanted for the source the player knows, unless the core refuses or a
\* handoff is under way.
LEMMA ApplyRight ==
    ASSUME RecordsTrue, Apply
    PROVE  /\ RecordsTrue'
           /\ \/ HandingOver'
              \/ refused'
              \/ /\ coreFilter' = Graph(mode', eq', speakers', Source')
                 /\ coreChannels' = OutputChannels(mode')
<1>1. PICK c \in BOOLEAN, f \in BOOLEAN :
          SendChannels(c) /\ SendFilter(f) /\ refused' = ~(c /\ f)
  BY DEF Apply
<1>2. /\ appliedChannels' \in {"", coreChannels'}
      /\ c => coreChannels' = OutputChannels(mode')
  BY <1>1 DEF SendChannels, RecordsTrue, OutputChannels
<1>3. /\ appliedFilter' = coreFilter'
      /\ f => HandingOver' \/ coreFilter' = Graph(mode', eq', speakers', Source')
  BY <1>1 DEF SendFilter, RecordsTrue
<1>4. QED
  BY <1>1, <1>2, <1>3 DEF RecordsTrue

\* The types of what an application changes.
LEMMA ApplyTyped ==
    ASSUME TypeOK, Apply
    PROVE  GraphOK'
BY DEF TypeOK, GraphOK, Apply, SendChannels, OutputChannels

\* The bound on the user's acts.
LEMMA ActTyped == ASSUME TypeOK, Act PROVE ops' \in 0 .. MaxOps
BY FilterAssumption DEF TypeOK, Act

\* The graph depends on the source's channels and layout only.
LEMMA KnownGraph ==
    ASSUME NEW m, NEW e, NEW s, Known
    PROVE  Graph(m, e, s, Source) = Graph(m, e, s, format)
BY DEF Known, Graph, Bass, Source

-----------------------------------------------------------------------------
(***************************************************************************)
(* The steps.                                                              *)
(***************************************************************************)
LEMMA InitInv == Init => Inv
<1> SUFFICES ASSUME Init
             PROVE  Inv
  OBVIOUS
<1>1. TypeOK
  <2>1. \A k \in Speakers : Default(k) \in Int /\ Default(k) \in Low(k) .. High(k)
    BY DefaultInRange
  <2>2. SpeakersOK(speakers) /\ SpeakersOK(saved)
    BY <2>1 DEF Init, SpeakersOK
  <2>3. SettingsOK
    BY <2>2, FilterAssumption DEF Init, SettingsOK
  <2>4. SourceOK /\ GraphOK
    BY DEF Init, SourceOK, GraphOK, Layouts
  <2>5. events \in Seq({"end", "loaded"})
    BY EmptySeq DEF Init
  <2>6. ops \in 0 .. MaxOps /\ files \in 0 .. MaxFiles
    <3>1. MaxOps \in Nat /\ MaxFiles \in Nat
      BY FilterAssumption
    <3>2. ops = 0 /\ files = 0
      BY DEF Init
    <3>3. QED
      BY <3>1, <3>2
  <2>7. CoreOK
    BY <2>5, <2>6 DEF Init, CoreOK
  <2>8. QED
    BY <2>3, <2>4, <2>6, <2>7 DEF TypeOK
<1>2. saved = speakers /\ RecordsTrue /\ EventsOrdered /\ ReadFresh /\ Settled
  BY DEF Init, RecordsTrue, EventsOrdered, ReadFresh, Idle, Settled
<1>3. QED
  BY <1>1, <1>2 DEF Inv

\* A setting changed while all is quiet is applied for the real source.
LEMMA SettingKeeps ==
    ASSUME Inv, Idle, Apply, UNCHANGED <<source, queued, seen, core>>,
           TypeOK', saved' = speakers'
    PROVE  Inv'
<1> USE DEF Inv
<1>1. RecordsTrue'
  BY ApplyRight
<1>2. EventsOrdered' /\ ReadFresh'
  BY DEF EventsOrdered, ReadFresh, core, Idle
<1>3. Settled'
  <2> SUFFICES ASSUME Quiet', format' # NoFormat
               PROVE  Known' /\ (Right' \/ refused')
    BY DEF Settled
  <2>1. Quiet /\ format # NoFormat /\ format' = format
    BY DEF Quiet, Idle, core
  <2>2. Known /\ Known'
    BY <2>1 DEF Settled, Known, source
  <2>3. ~HandingOver'
    BY <2>1, <2>2, FormatChannels DEF TypeOK, CoreOK, HandingOver, Known
  <2>4. refused' \/ (/\ coreFilter' = Graph(mode', eq', speakers', Source')
                     /\ coreChannels' = OutputChannels(mode'))
    BY <2>3, ApplyRight
  <2>5. Source' = Source
    BY DEF Source, source
  <2>6. Graph(mode', eq', speakers', Source) = Graph(mode', eq', speakers', format)
    BY <2>2, KnownGraph
  <2>7. QED
    BY <2>1, <2>2, <2>4, <2>5, <2>6 DEF Right
<1>4. QED
  BY <1>1, <1>2, <1>3

LEMMA SetSoundKeeps == ASSUME Inv, SetSound PROVE Inv'
<1>1. Idle /\ Apply /\ UNCHANGED <<source, queued, seen, core>>
  BY DEF SetSound, Act
<1>2. TypeOK'
  <2>1. TypeOK
    BY DEF Inv
  <2>2. QED
    BY <2>1, <1>1, ApplyTyped, ActTyped
       DEF SetSound, TypeOK, SettingsOK, SourceOK, CoreOK, source, core
<1>3. saved' = speakers'
  BY DEF Inv, SetSound
<1>4. QED
  BY <1>1, <1>2, <1>3, SettingKeeps

LEMMA SetSpeakersKeeps == ASSUME Inv, SetSpeakers PROVE Inv'
<1>1. Idle /\ Apply /\ UNCHANGED <<source, queued, seen, core>>
  BY DEF SetSpeakers, Act
<1>2. saved' = speakers'
  BY DEF SetSpeakers, Store
<1>3. SpeakersOK(speakers')
  <2> USE DEF SpeakersOK
  <2>1. ASSUME NEW k \in Speakers, NEW x \in Asked, speakers' = [speakers EXCEPT ![k] = Clamp(k, x)]
        PROVE  SpeakersOK(speakers')
    <3>1. Clamp(k, x) \in Int /\ Clamp(k, x) \in Low(k) .. High(k)
      BY ClampInRange, FilterAssumption
    <3>2. QED
      BY <2>1, <3>1 DEF Inv, TypeOK, SettingsOK
  <2>2. ASSUME NEW profile,
               speakers' = [k \in Speakers |-> IF k \in profile THEN Default(k) ELSE speakers[k]]
        PROVE  SpeakersOK(speakers')
    <3>1. \A k \in Speakers : Default(k) \in Int /\ Default(k) \in Low(k) .. High(k)
      BY DefaultInRange
    <3>2. QED
      BY <2>2, <3>1 DEF Inv, TypeOK, SettingsOK
  <2>3. QED
    BY <2>1, <2>2, Zenon DEF SetSpeakers
<1>4. TypeOK'
  <2>1. TypeOK
    BY DEF Inv
  <2>2. SpeakersOK(speakers') /\ SpeakersOK(saved')
    BY <1>2, <1>3
  <2>3. QED
    BY <2>1, <2>2, <1>1, ApplyTyped, ActTyped
       DEF SetSpeakers, TypeOK, SettingsOK, SourceOK, CoreOK, source, core
<1>5. QED
  BY <1>1, <1>2, <1>4, SettingKeeps

LEMMA LoadOrStopKeeps == ASSUME Inv, LoadOrStop PROVE Inv'
<1> USE DEF Inv
<1>1. TypeOK'
  <2>1. GraphOK'
    BY ApplyTyped DEF LoadOrStop, TypeOK, GraphOK, graph
  <2>2. QED
    BY <2>1, ActTyped DEF LoadOrStop, TypeOK, SettingsOK, SourceOK, CoreOK, settings
<1>2. RecordsTrue'
  BY ApplyRight DEF LoadOrStop, RecordsTrue, graph
<1>3. saved' = speakers' /\ EventsOrdered' /\ ReadFresh' /\ Settled'
  BY DEF LoadOrStop, EventsOrdered, ReadFresh, Settled, Quiet, Idle, settings
<1>4. QED
  BY <1>1, <1>2, <1>3

LEMMA ChangeQueueKeeps == ASSUME Inv, ChangeQueue PROVE Inv'
BY DEF Inv, ChangeQueue, TypeOK, SettingsOK, SourceOK, GraphOK, CoreOK, RecordsTrue, EventsOrdered, ReadFresh, Settled, Quiet, Idle,
       Known, Right, settings, source, graph, core

\* What is read back at the start is what was stored.
LEMMA ReopenKeepsSpeakers == ASSUME Inv, Reopen PROVE speakers' = speakers
<1>1. speakers \in [Speakers -> Int] /\ \A k \in Speakers : speakers[k] \in Low(k) .. High(k)
  BY DEF Inv, TypeOK, SettingsOK, SpeakersOK
<1>3. speakers' = [k \in Speakers |-> Clamp(k, speakers[k])]
  BY DEF Inv, Reopen
<1>4. \A k \in Speakers : Clamp(k, speakers[k]) = speakers[k]
  BY <1>1, ClampInRange
<1>5. speakers = [k \in Speakers |-> speakers[k]]
  BY <1>1
<1>6. QED
  BY <1>3, <1>4, <1>5

LEMMA ReopenKeeps == ASSUME Inv, Reopen PROVE Inv'
<1>1. speakers' = speakers /\ saved' = saved
  BY ReopenKeepsSpeakers DEF Reopen
<1>2. TypeOK'
  <2>1. TypeOK /\ Act
    BY DEF Inv, Reopen
  <2>2. SettingsOK' /\ SourceOK'
    BY <2>1, <1>1, FilterAssumption DEF Reopen, TypeOK, SettingsOK, SourceOK, Layouts
  <2>3. events' \in Seq({"end", "loaded"})
    BY EmptySeq DEF Reopen
  <2>4. GraphOK' /\ CoreOK'
    BY <2>1, <2>3 DEF Reopen, TypeOK, GraphOK, CoreOK
  <2>5. QED
    BY <2>1, <2>2, <2>4, ActTyped DEF TypeOK
<1>3. saved' = speakers' /\ RecordsTrue' /\ EventsOrdered' /\ ReadFresh' /\ Settled'
  BY <1>1 DEF Inv, Reopen, RecordsTrue, EventsOrdered, ReadFresh, Settled
<1>4. QED
  BY <1>2, <1>3 DEF Inv

LEMMA TailLast ==
    ASSUME NEW S, NEW s \in Seq(S), s # <<>>
    PROVE  /\ Tail(s) \in Seq(S)
           /\ Tail(s) # <<>> => Tail(s)[Len(Tail(s))] = s[Len(s)]
           /\ Tail(s) = <<>> => s[Len(s)] = Head(s)
<1>1. Len(s) \in Nat /\ Len(s) # 0
  BY EmptySeq
<1>2. /\ Tail(s) \in Seq(S)
      /\ \A i \in 1 .. Len(s) - 1 : Tail(s)[i] = s[i + 1]
  BY HeadTailProperties, <1>1
<1>3. Len(Tail(s)) = Len(s) - 1
  BY HeadTailProperties
<1>4. ASSUME Tail(s) # <<>> PROVE Tail(s)[Len(Tail(s))] = s[Len(s)]
  <2>1. Len(s) - 1 \in 1 .. Len(s) - 1
    BY <1>1, <1>2, <1>3, <1>4, EmptySeq
  <2>2. QED
    BY <1>1, <1>2, <1>3, <2>1
<1>5. ASSUME Tail(s) = <<>> PROVE s[Len(s)] = Head(s)
  <2>1. Len(<<>>) = 0
    BY EmptySeq
  <2>2. \A n \in Nat : n - 1 = 0 => n = 1
    OBVIOUS
  <2>3. Len(s) = 1
    BY <1>1, <1>3, <1>5, <2>1, <2>2, Zenon
  <2>4. QED
    BY <2>3
<1>6. QED
  BY <1>2, <1>4, <1>5

LEMMA ReadChannelsKeeps == ASSUME Inv, ReadChannels PROVE Inv'
<1> USE DEF Inv
<1>1. events' \in Seq({"end", "loaded"})
  BY TailLast DEF ReadChannels, TypeOK, CoreOK
<1>2. seen' \in Nat /\ seen' = format.channels
  BY FormatChannels DEF ReadChannels, TypeOK, CoreOK
<1>3. TypeOK'
  BY <1>1, <1>2 DEF ReadChannels, TypeOK, SettingsOK, SourceOK, GraphOK, CoreOK, settings, source, graph
<1>4. EventsOrdered'
  BY TailLast DEF ReadChannels, TypeOK, CoreOK, EventsOrdered
<1>5. ReadFresh' /\ Settled'
  BY <1>2 DEF ReadChannels, ReadFresh, Settled, Quiet, Idle, NotReading
<1>6. saved' = speakers' /\ RecordsTrue'
  BY DEF ReadChannels, RecordsTrue, settings, graph
<1>7. QED
  BY <1>3, <1>4, <1>5, <1>6

LEMMA ReadLayoutKeeps == ASSUME Inv, ReadLayout PROVE Inv'
<1> USE DEF Inv
<1>1. TypeOK'
  <2>1. format.layout \in Layouts /\ seen \in Nat
    BY DEF ReadLayout, Idle, TypeOK, SourceOK, CoreOK, Layouts, NoFormat
  <2>2. QED
    BY <2>1, ApplyTyped DEF ReadLayout, KeepLayout, TypeOK, SettingsOK, SourceOK, CoreOK, settings, core
<1>2. RecordsTrue'
  BY ApplyRight DEF ReadLayout
<1>3. saved' = speakers' /\ EventsOrdered' /\ ReadFresh'
  BY DEF ReadLayout, EventsOrdered, ReadFresh, Idle, settings, core
<1>4. Settled'
  <2> SUFFICES ASSUME Quiet', format' # NoFormat
               PROVE  Known' /\ (Right' \/ refused')
    BY DEF Settled
  <2>1. ~fresh /\ published = format /\ format # NoFormat /\ format' = format
    BY DEF Quiet, ReadLayout, core
  <2>2. seen = format.channels
    BY <2>1 DEF ReadFresh, ReadLayout
  <2>3. Known'
    BY <2>1, <2>2 DEF Known, ReadLayout, KeepLayout
  <2>4. ~HandingOver'
    BY <2>1, <2>2, FormatChannels DEF TypeOK, CoreOK, HandingOver, ReadLayout
  <2>5. refused' \/ (/\ coreFilter' = Graph(mode', eq', speakers', Source')
                     /\ coreChannels' = OutputChannels(mode'))
    BY <2>4, ApplyRight DEF ReadLayout
  <2>6. Graph(mode', eq', speakers', Source') = Graph(mode', eq', speakers', format')
    BY <2>3 DEF Known, Graph, Bass, Source
  <2>7. QED
    BY <2>3, <2>5, <2>6 DEF Right
<1>5. QED
  BY <1>1, <1>2, <1>3, <1>4

\* The end of a file is not the last word on one that plays.
LEMMA FileEndedKeeps == ASSUME Inv, FileEnded PROVE Inv'
<1> USE DEF Inv
<1>1. TypeOK'
  <2>1. events' \in Seq({"end", "loaded"})
    BY TailLast DEF FileEnded, TypeOK, CoreOK
  <2>2. SourceOK'
    <3>1. sourceChannels' \in Nat
      BY DEF FileEnded, TypeOK, SourceOK
    <3>2. queued' \in BOOLEAN /\ sourceLayout' = sourceLayout /\ seen' = seen
      BY Zenon DEF FileEnded, TypeOK, SourceOK
    <3>3. QED
      BY <3>1, <3>2 DEF TypeOK, SourceOK
  <2>3. QED
    BY <2>1, <2>2 DEF FileEnded, TypeOK, SettingsOK, GraphOK, CoreOK, settings, graph
<1>2. EventsOrdered'
  BY TailLast DEF FileEnded, TypeOK, CoreOK, EventsOrdered
<1>3. Settled'
  <2>1. events' = <<>> => format = NoFormat
    BY TailLast DEF FileEnded, TypeOK, CoreOK, EventsOrdered
  <2>2. QED
    BY <2>1 DEF FileEnded, Settled, Quiet
<1>4. saved' = speakers' /\ RecordsTrue' /\ ReadFresh'
  BY DEF FileEnded, RecordsTrue, ReadFresh, Idle, settings, graph
<1>5. QED
  BY <1>1, <1>2, <1>3, <1>4

LEMMA CoreKeeps == ASSUME Inv, Core PROVE Inv'
<1> USE DEF Inv
<1>1. TypeOK'
  <2>1. SettingsOK' /\ SourceOK' /\ GraphOK' /\ (ops \in 0 .. MaxOps)'
    BY DEF Core, EndFile, OpenFile, SwitchTrack, Decode, Publish, TypeOK, SettingsOK, SourceOK,
           GraphOK, settings, source, graph
  <2>2. events' \in Seq({"end", "loaded"}) /\ files' \in 0 .. MaxFiles
    BY FilterAssumption DEF Core, EndFile, OpenFile, SwitchTrack, Decode, Publish, TypeOK, CoreOK
  <2>3. CoreOK'
    BY <2>2 DEF Core, EndFile, OpenFile, SwitchTrack, Decode, Publish, TypeOK, CoreOK
  <2>4. QED
    BY <2>1, <2>3 DEF TypeOK
<1>2. saved' = speakers' /\ RecordsTrue'
  BY DEF Core, EndFile, OpenFile, SwitchTrack, Decode, Publish, RecordsTrue, settings, graph
<1>3. EventsOrdered'
  <2>1. CASE EndFile
    BY <2>1 DEF EndFile, EventsOrdered
  <2>2. CASE OpenFile
    <3>1. events' = Append(events, "loaded") /\ hasFile'
      BY <2>2 DEF OpenFile
    <3>2. events'[Len(events')] = "loaded"
      BY <3>1, AppendProperties DEF TypeOK, CoreOK
    <3>3. QED
      BY <3>1, <3>2 DEF EventsOrdered
  <2>3. CASE SwitchTrack
    BY <2>3 DEF SwitchTrack, EventsOrdered
  <2>4. CASE Decode \/ Publish
    BY <2>4 DEF Decode, Publish, EventsOrdered
  <2>5. QED
    BY <2>1, <2>2, <2>3, <2>4 DEF Core
<1>4. ReadFresh' /\ Settled'
  <2>1. \/ format' = NoFormat
        \/ published' # format'
        \/ fresh'
    BY DEF Core, EndFile, OpenFile, SwitchTrack, Decode, Publish, EventsOrdered
  <2>2. QED
    BY <2>1 DEF ReadFresh, Settled, Quiet
<1>5. QED
  BY <1>1, <1>2, <1>3, <1>4

LEMMA NextInv == Inv /\ [Next]_vars => Inv'
<1>1. ASSUME Inv, UNCHANGED vars PROVE Inv'
  <2>1. TypeOK'
    BY <1>1 DEF Inv, vars, TypeOK, SettingsOK, SourceOK, GraphOK, CoreOK,
                settings, source, graph, core
  <2>2. QED
    BY <1>1, <2>1 DEF Inv, vars, RecordsTrue, EventsOrdered, ReadFresh, Settled, Quiet, Idle,
                      Known, Right, settings, source, graph, core
<1>2. ASSUME Inv, User PROVE Inv'
  BY <1>2, SetSoundKeeps, SetSpeakersKeeps, LoadOrStopKeeps, ChangeQueueKeeps, ReopenKeeps
     DEF User
<1>3. ASSUME Inv, Gui PROVE Inv'
  BY <1>3, ReadChannelsKeeps, ReadLayoutKeeps, FileEndedKeeps DEF Gui
<1>4. QED
  BY <1>1, <1>2, <1>3, CoreKeeps DEF Next

LEMMA Invariance == Spec => []Inv
BY InitInv, NextInv, PTL DEF Spec

-----------------------------------------------------------------------------
\* For any formats, settings and number of files, and any interleaving of the
\* player's two reads with the core: when all is quiet the core has the graph
\* and the channels that the settings and the real source demand, unless it
\* refused them (AudioPlayer.cpp:650-716).
THEOREM GraphSettles == Spec => [](TypeOK /\ FilterSettles)
<1>1. Inv => TypeOK /\ FilterSettles
  BY DEF Inv, Settled, FilterSettles
<1>2. QED
  BY <1>1, Invariance, PTL

\* Whatever the panel asks for, the speaker settings are read back as they
\* were stored (AudioPlayer.cpp:89-95, 533-604).
THEOREM SpeakersKept == Spec => SpeakersSurvive
<1>1. Inv => [Reopen => speakers' = speakers]_vars
  BY ReopenKeepsSpeakers
<1>2. QED
  BY <1>1, Invariance, PTL DEF SpeakersSurvive
=============================================================================
