----------------------------- MODULE ChannelSpec -----------------------------
(***************************************************************************)
(* What docs/cb_runtime.md promises of PlaySound, SetSound, StopSound,      *)
(* SoundPlaying and DeleteSound: every call of PlaySound starts a playback  *)
(* of its own, a SoundChannel names that playback for ever, and commands on *)
(* a playback that is over do nothing.                                      *)
(***************************************************************************)
EXTENDS Naturals, Sequences

CONSTANTS
    Sounds,    \* the samples a program may load
    File,      \* a streamed file, the other source of a playback
    MaxPlays   \* bound on the playbacks of a run

VARIABLES
    source,    \* source[p] is what playback p plays
    playing,   \* the playbacks that can be heard
    looping,   \* those of them that start again at their end
    asked,     \* the playback the last SetSound or StopSound named
    exiting    \* the program is over

channels == <<source, playing, looping, asked, exiting>>
-----------------------------------------------------------------------------
Init == source = <<>> /\ playing = {} /\ looping = {} /\ asked = 0 /\ exiting = FALSE

Playback == 1..Len(source)

Play(s) ==
    /\ ~exiting /\ Len(source) < MaxPlays
    /\ source' = Append(source, s)
    /\ playing' = playing \cup {Len(source) + 1}
    /\ UNCHANGED <<looping, asked, exiting>>

SetSound(p, loop) ==
    /\ ~exiting /\ asked' = p
    /\ looping' = IF loop /\ p \in playing THEN looping \cup {p} ELSE looping \ {p}
    /\ UNCHANGED <<source, playing, exiting>>

\* These playbacks are over.
Over(P) ==
    /\ playing' = playing \ P
    /\ looping' = looping \ P
    /\ UNCHANGED <<source, exiting>>

StopSound(p)   == ~exiting /\ asked' = p /\ Over({p})
DeleteSound(s) == ~exiting /\ Over({p \in Playback : source[p] = s}) /\ UNCHANGED asked
Finish(p)      == p \in playing \ looping /\ Over({p}) /\ UNCHANGED asked

Exit   == exiting' = TRUE /\ UNCHANGED <<source, playing, looping, asked>>
\* Nothing but the end of the program cuts a playback off.
Cut(p) == exiting /\ Over({p}) /\ UNCHANGED asked

Next ==
    \/ \E s \in Sounds \cup {File} : Play(s)
    \/ \E p \in Playback : StopSound(p) \/ Finish(p) \/ Cut(p)
    \/ \E p \in Playback, loop \in BOOLEAN : SetSound(p, loop)
    \/ \E s \in Sounds : DeleteSound(s)
    \/ Exit

Spec == Init /\ [][Next]_channels
=============================================================================
