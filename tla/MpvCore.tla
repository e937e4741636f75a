------------------------------- MODULE MpvCore -------------------------------
(***************************************************************************)
(* The part of libmpv that AudioPlayer depends on (external code, modelled *)
(* from how audio/AudioPlayer.cpp drives it): a playback core running in a *)
(* thread of its own, with                                                 *)
(*   - its playlist, reduced to the entry being played and what follows;   *)
(*   - asynchronous requests, executed in order at some later time;        *)
(*   - synchronous commands, which act at once and may overtake them;      *)
(*   - events, read by the client in order, and the observed pause         *)
(*     property, reported after them and with its latest value only.       *)
(* An entry is `known` when its id is in AudioPlayer's m_nativeFiles: ids  *)
(* are used for nothing else, so the flag replaces them.                   *)
(***************************************************************************)
EXTENDS Integers, Sequences

CONSTANTS File, NoFile,
          Corrupt        \* files that exist but that the core cannot play

VARIABLES
    list,        \* the current entry and those after it
    stage,       \* what the core is doing
    playing,     \* the "path" property: file of the entry opened, or NoFile
    corePaused,  \* the "pause" property
    published,   \* the last value of "pause" prepared for the client
    fresh,       \* the client has not been given that value yet
    cmds,        \* asynchronous requests not yet executed
    events,      \* events not yet read
    present      \* the files that exist on disk

vars == <<list, stage, playing, corePaused, published, fresh, cmds, events>>
player == <<list, stage, playing>>
pauseVars == <<corePaused, published, fresh>>

Entry == [file : File, known : BOOLEAN]

\* "pending": an entry is current and not opened yet; "opening": START_FILE
\* sent; "loaded": FILE_LOADED sent; "replacing", "stopping": the open entry is
\* being closed because of loadfile replace, of stop.
Stage == {"idle", "pending", "opening", "loaded", "replacing", "stopping"}

Request == [op : {"pause"}, value : BOOLEAN] \cup [op : {"load"}, file : File]
              \cup [op : {"stop"}]

Event == [kind : {"start"}, entry : Entry] \cup [kind : {"loaded"}]
            \cup [kind : {"end"}, reason : {"EOF", "STOP", "ERROR"}]

Init ==
    /\ list = <<>> /\ stage = "idle" /\ playing = NoFile
    /\ corePaused = FALSE /\ published = FALSE /\ fresh = TRUE
    /\ cmds = <<>> /\ events = <<>>

-----------------------------------------------------------------------------
(* Requests and commands of the client.                                      *)

SetPause(value) == [op |-> "pause", value |-> value]
LoadFile(file) == [op |-> "load", file |-> file]
StopPlayback == [op |-> "stop"]

\* playlist-clear keeps the current entry; without one it empties the list.
HasCurrent == stage \notin {"idle", "stopping"}

ClearList == list' = IF HasCurrent THEN <<Head(list)>> ELSE <<>>

\* loadfile append: adds an entry, starts nothing.
AppendEntry(file) == list' = Append(list, [file |-> file, known |-> FALSE])

Known(entries) == [i \in DOMAIN entries |-> [entries[i] EXCEPT !.known = TRUE]]
Unknown(entries) == [i \in DOMAIN entries |-> [entries[i] EXCEPT !.known = FALSE]]

\* The position of the unread START_FILE of the entry being played, if any.
UnreadStarts ==
    {i \in DOMAIN events :
        /\ events[i].kind = "start"
        /\ \A j \in i + 1 .. Len(events) : events[j].kind # "start"
        /\ stage \in {"opening", "loaded"}}

\* The ids of all entries of the playlist enter m_nativeFiles.
RememberEntries ==
    /\ list' = Known(list)
    /\ events' = [i \in DOMAIN events |->
                     IF i \in UnreadStarts
                     THEN [events[i] EXCEPT !.entry.known = TRUE] ELSE events[i]]

\* m_nativeFiles is emptied.
ForgetEntries ==
    /\ list' = Unknown(list)
    /\ events' = [i \in DOMAIN events |->
                     IF events[i].kind = "start"
                     THEN [events[i] EXCEPT !.entry.known = FALSE] ELSE events[i]]

-----------------------------------------------------------------------------
(* Steps of the core.                                                        *)

Emit(e) == events' = Append(events, e)

ExecPause ==
    /\ cmds # <<>> /\ Head(cmds).op = "pause"
    /\ corePaused' = Head(cmds).value
    /\ cmds' = Tail(cmds)
    /\ UNCHANGED <<player, published, fresh, events, present>>

ExecLoad ==
    /\ cmds # <<>> /\ Head(cmds).op = "load"
    /\ list' = <<[file |-> Head(cmds).file, known |-> FALSE]>>
    /\ stage' = IF stage \in {"idle", "pending"} THEN "pending" ELSE "replacing"
    /\ cmds' = Tail(cmds)
    /\ UNCHANGED <<playing, pauseVars, events, present>>

ExecStop ==
    /\ cmds # <<>> /\ Head(cmds).op = "stop"
    /\ list' = <<>>
    /\ stage' = IF stage \in {"idle", "pending"} THEN "idle" ELSE "stopping"
    /\ cmds' = Tail(cmds)
    /\ UNCHANGED <<playing, pauseVars, events, present>>

\* The open entry is closed; its path is readable until then.
Unwind ==
    /\ stage \in {"replacing", "stopping"}
    /\ stage' = IF stage = "replacing" THEN "pending" ELSE "idle"
    /\ playing' = NoFile
    /\ Emit([kind |-> "end", reason |-> "STOP"])
    /\ UNCHANGED <<list, pauseVars, cmds, present>>

Start ==
    /\ stage = "pending"
    /\ stage' = "opening"
    /\ playing' = list[1].file
    /\ Emit([kind |-> "start", entry |-> list[1]])
    /\ UNCHANGED <<list, pauseVars, cmds, present>>

Opens(file) == file \in present \ Corrupt

Loaded ==
    /\ stage = "opening" /\ Opens(playing)
    /\ stage' = "loaded"
    /\ Emit([kind |-> "loaded"])
    /\ UNCHANGED <<list, playing, pauseVars, cmds, present>>

\* The entry is over: the core goes on to the next one by itself.
NextEntry ==
    /\ list' = Tail(list)
    /\ stage' = IF Len(list) = 1 THEN "idle" ELSE "pending"
    /\ playing' = NoFile
    /\ UNCHANGED <<pauseVars, cmds, present>>

Fail ==
    /\ stage = "opening" /\ ~Opens(playing)
    /\ Emit([kind |-> "end", reason |-> "ERROR"])
    /\ NextEntry

Eof ==
    /\ stage = "loaded" /\ ~corePaused
    /\ Emit([kind |-> "end", reason |-> "EOF"])
    /\ NextEntry

\* The core notices that an observed property has changed.
Publish ==
    /\ published # corePaused
    /\ published' = corePaused
    /\ fresh' = TRUE
    /\ UNCHANGED <<player, corePaused, cmds, events, present>>

Exec == ExecPause \/ ExecLoad \/ ExecStop
Advance == Unwind \/ Start \/ Loaded \/ Fail \/ Eof
=============================================================================
