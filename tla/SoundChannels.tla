---------------------------- MODULE SoundChannels ----------------------------
(***************************************************************************)
(* The sound runtime: runtime/cb_sound.cpp over the generation pool of      *)
(* runtime/cb_sound.h.  A SoundChannel is an index and a generation packed  *)
(* into a pointer; the frame hook of DrawScreen frees the channels that     *)
(* stopped playing, and whatever handles the program kept must then miss.   *)
(*                                                                         *)
(* Allegro's mixer runs in a thread of its own and may end a voice between  *)
(* any two steps, also while the reaper is scanning.  A voice (a sample     *)
(* instance or an audio stream) is named by the number of the PlaySound     *)
(* that made it, a loaded sample by a member of Sounds.  Gain, pan and      *)
(* speed are left out.  Use after DeleteSound is undefined ("UB, like every *)
(* other raw-pointer handle"), so programs here do not do it.               *)
(***************************************************************************)
EXTENDS Naturals, Sequences

CONSTANTS
    Sounds,         \* the samples a program may load
    File,           \* the source of a stream
    NoVoice,        \* the payload of a free slot
    GenerationMod,  \* generations_ is uint32_t
    MaxPlays        \* bound on successful calls of PlaySound

ASSUME FileAssumption == File \notin Sounds
ASSUME PlaysAssumption == MaxPlays \in Nat /\ GenerationMod \in Nat /\ MaxPlays < GenerationMod
ASSUME NoVoiceAssumption == NoVoice \notin Nat

VARIABLES
    pool,       \* the slots of GenPool: voice, occupied, generation
    free_list,  \* free indices, the last is reused first
    issued,     \* the handle each PlaySound returned
    live,       \* the voices Allegro has allocated
    playing,    \* the voices Allegro is playing
    looping,    \* the voices in ALLEGRO_PLAYMODE_LOOP
    source,     \* what each voice plays
    asked,      \* history: the PlaySound whose handle was last used
    loaded,     \* the samples in memory
    audio,      \* g_audio_tried and g_audio_ok
    display,    \* g_display, opened by Screen
    teardown,   \* allegro_teardown is registered
    pc,         \* who runs: "program", "reap", "flush", nobody: "exited"
    cursor      \* the index reap or flush_all is at

channels == <<source, playing, looping, asked>>
slots == <<pool, free_list, issued, live>>
devices == <<audio, display, teardown>>
vars == <<pool, free_list, issued, live, playing, looping, source, asked,
          loaded, audio, display, teardown, pc, cursor>>
-----------------------------------------------------------------------------
Handle == [index : Nat, generation : Nat]
Slot   == [voice : Nat \cup {NoVoice}, occupied : BOOLEAN, generation : Nat]
plays  == Len(issued)
Index  == 1..Len(pool)

\* GenPool::get
Found(h) ==
    /\ h.index \in Index
    /\ pool[h.index].occupied
    /\ pool[h.index].generation = h.generation

\* (A slip: the slot is reused under its old generation.)
FreedSameGeneration(i) == [pool EXCEPT ![i].occupied = FALSE, ![i].voice = NoVoice]
\* GenPool::free: the slot is emptied and its generation bumped.
Freed(i) ==
    [pool EXCEPT ![i] = [voice |-> NoVoice, occupied |-> FALSE,
                         generation |-> (@.generation + 1) % GenerationMod]]

\* GenPool::alloc
Alloc(v) ==
    IF free_list # <<>>
      THEN LET i == free_list[Len(free_list)]
           IN /\ pool' = [pool EXCEPT ![i] = [voice |-> v, occupied |-> TRUE,
                                              generation |-> @.generation]]
              /\ free_list' = SubSeq(free_list, 1, Len(free_list) - 1)
              /\ issued' = Append(issued, [index |-> i, generation |-> pool[i].generation])
      ELSE /\ pool' = Append(pool, [voice |-> v, occupied |-> TRUE, generation |-> 0])
           /\ issued' = Append(issued, [index |-> Len(pool) + 1, generation |-> 0])
           /\ UNCHANGED free_list
-----------------------------------------------------------------------------
\* ensure_audio_init: tried once.
EnsureAudio == audio' \in IF audio = "untried" THEN {"ok", "failed"} ELSE {audio}

Running == pc = "program"

\* Every end of the program fires about_to_exit, which runs the registered
\* teardown: flush_all, then al_uninstall_system.
AboutToExit ==
    /\ pc' = IF teardown THEN "flush" ELSE "exited"
    /\ cursor' = 1

Stay == UNCHANGED <<pc, cursor>>

LoadSound(s) ==
    /\ Running /\ s \notin loaded
    /\ EnsureAudio
    /\ loaded' \in IF audio' = "ok" THEN {loaded, loaded \cup {s}} ELSE {loaded}
    /\ UNCHANGED <<slots, channels, display, teardown>> /\ Stay

\* al_destroy_sample stops the instances of the sample.
DeleteSound(s) ==
    /\ Running /\ s \in loaded
    /\ loaded' = loaded \ {s}
    /\ LET voices == {v \in live : source[v] = s}
       IN playing' = playing \ voices
    /\ UNCHANGED <<slots, looping, source, asked, devices>> /\ Stay

\* A Null Sound ends the program with an error, unless there is no audio.
NullSound ==
    /\ Running /\ EnsureAudio
    /\ IF audio' = "ok" THEN AboutToExit ELSE Stay
    /\ UNCHANGED <<slots, channels, loaded, display, teardown>>

\* The voice is created, attached and started, then put into the pool.  If
\* one of these fails what was created is destroyed, and Null is returned.
PlaySound(s) ==
    /\ Running /\ plays < MaxPlays
    /\ s \in loaded \cup {File}
    /\ EnsureAudio
    /\ LET v == plays + 1
       IN \/ /\ audio' = "ok"
             /\ Alloc(v)
             /\ live' = live \cup {v} /\ playing' = playing \cup {v}
             /\ source' = Append(source, s)
          \/ UNCHANGED <<slots, playing, source>>
    /\ UNCHANGED <<looping, asked, loaded, display, teardown>> /\ Stay

\* (A slip: the handle's generation is not compared.)
SetSoundAny(p, loop) ==
    /\ Running /\ p \in 1..plays
    /\ asked' = p
    /\ LET s == pool[issued[p].index]
       IN looping' = IF ~s.occupied THEN looping
                     ELSE IF loop THEN looping \cup {s.voice} ELSE looping \ {s.voice}
    /\ UNCHANGED <<slots, playing, source, loaded, devices>> /\ Stay

SetSound(p, loop) ==
    /\ Running /\ p \in 1..plays
    /\ asked' = p
    /\ LET v == pool[issued[p].index].voice
       IN looping' = IF ~Found(issued[p]) THEN looping
                     ELSE IF loop THEN looping \cup {v} ELSE looping \ {v}
    /\ UNCHANGED <<slots, playing, source, loaded, devices>> /\ Stay

StopSound(p) ==
    /\ Running /\ p \in 1..plays
    /\ asked' = p
    /\ playing' = IF Found(issued[p]) THEN playing \ {pool[issued[p].index].voice} ELSE playing
    /\ UNCHANGED <<slots, looping, source, loaded, devices>> /\ Stay

\* The mixer thread reaches the end of a voice.
Finish(v) ==
    /\ pc # "exited" /\ v \in playing \ looping
    /\ playing' = playing \ {v}
    /\ UNCHANGED <<slots, looping, source, asked, loaded, devices>> /\ Stay
-----------------------------------------------------------------------------
\* Screen opens the display; ensure_init has registered the teardown.  An
\* image or a font does the latter alone.
Screen ==
    /\ Running
    /\ teardown' = TRUE
    /\ display' \in {display, TRUE}
    /\ UNCHANGED <<slots, channels, loaded, audio>> /\ Stay

\* DrawScreen updates and draws, then reaps.
DrawScreen ==
    /\ Running /\ display
    /\ pc' = "reap" /\ cursor' = 1
    /\ UNCHANGED <<slots, channels, loaded, devices>>

\* (A slip: the slot is freed and its voice is not destroyed.)
DestroyedNot(i) ==
    /\ pool' = Freed(i)
    /\ free_list' = Append(free_list, i)
    /\ UNCHANGED <<issued, live, channels>>

\* destroy_channel, then GenPool::free.
Destroyed(i) ==
    /\ live' = live \ {pool[i].voice}
    /\ playing' = playing \ {pool[i].voice}
    /\ pool' = Freed(i)
    /\ free_list' = Append(free_list, i)
    /\ UNCHANGED <<issued, looping, source, asked>>

\* (A slip: a looping voice is taken for one that never ends.)
ReapOnce ==
    /\ pc = "reap" /\ cursor \in Index
    /\ IF pool[cursor].occupied /\ pool[cursor].voice \notin playing \cup looping
         THEN Destroyed(cursor)
         ELSE UNCHANGED <<slots, channels>>
    /\ cursor' = cursor + 1
    /\ UNCHANGED <<loaded, devices, pc>>

\* reap: one slot.
Reap ==
    /\ pc = "reap" /\ cursor \in Index
    /\ IF pool[cursor].occupied /\ pool[cursor].voice \notin playing
         THEN Destroyed(cursor)
         ELSE UNCHANGED <<slots, channels>>
    /\ cursor' = cursor + 1
    /\ UNCHANGED <<loaded, devices, pc>>

\* The rest of DrawScreen: flip, and perhaps the window was closed.
EndFrame ==
    /\ pc = "reap" /\ cursor \notin Index
    /\ \/ pc' = "program" /\ UNCHANGED <<cursor, display>>
       \/ AboutToExit /\ display' = FALSE
    /\ UNCHANGED <<slots, channels, loaded, audio, teardown>>

\* End, or the end of the program.
End ==
    /\ Running /\ AboutToExit
    /\ UNCHANGED <<slots, channels, loaded, devices>>

\* (A slip: at exit, too, only what has stopped playing is destroyed.)
FlushStopped ==
    /\ pc = "flush" /\ cursor \in Index
    /\ IF pool[cursor].occupied /\ pool[cursor].voice \notin playing
         THEN Destroyed(cursor)
         ELSE UNCHANGED <<slots, channels>>
    /\ cursor' = cursor + 1
    /\ UNCHANGED <<loaded, devices, pc>>

\* flush_all: one slot.
Flush ==
    /\ pc = "flush" /\ cursor \in Index
    /\ IF pool[cursor].occupied THEN Destroyed(cursor) ELSE UNCHANGED <<slots, channels>>
    /\ cursor' = cursor + 1
    /\ UNCHANGED <<loaded, devices, pc>>

Exit ==
    /\ pc = "flush" /\ cursor \notin Index
    /\ pc' = "exited"
    /\ UNCHANGED <<slots, channels, loaded, devices, cursor>>
-----------------------------------------------------------------------------
Init ==
    /\ pool = <<>> /\ free_list = <<>> /\ issued = <<>> /\ live = {}
    /\ playing = {} /\ looping = {} /\ source = <<>> /\ loaded = {}
    /\ asked = 0
    /\ audio = "untried" /\ display = FALSE /\ teardown = FALSE
    /\ pc = "program" /\ cursor = 1

Hook == Reap \/ EndFrame \/ Flush \/ Exit

Next ==
    \/ \E s \in Sounds : LoadSound(s) \/ DeleteSound(s)
    \/ \E s \in Sounds \cup {File} : PlaySound(s)
    \/ NullSound
    \/ \E p \in 1..plays : StopSound(p) \/ Finish(p)
    \/ \E p \in 1..plays, loop \in BOOLEAN : SetSound(p, loop)
    \/ Screen \/ DrawScreen \/ End
    \/ Hook

\* The runtime finishes what it began, and a game draws frame after frame.
Fairness == WF_vars(Hook) /\ WF_vars(DrawScreen)

Spec == Init /\ [][Next]_vars
FairSpec == Spec /\ Fairness
-----------------------------------------------------------------------------
TypeOK ==
    /\ pool \in Seq(Slot) /\ free_list \in Seq(Nat) /\ issued \in Seq(Handle)
    /\ plays \in 0..MaxPlays /\ source \in Seq(Sounds \cup {File}) /\ Len(source) = plays
    /\ live \subseteq 1..plays /\ playing \subseteq live /\ looping \subseteq 1..plays
    /\ loaded \subseteq Sounds /\ asked \in 0..plays
    /\ audio \in {"untried", "ok", "failed"}
    /\ display \in BOOLEAN /\ teardown \in BOOLEAN /\ (display => teardown)
    /\ pc \in {"program", "reap", "flush", "exited"} /\ cursor \in 1..(Len(pool) + 1)

(* A SoundChannel reaches the voice of its own PlaySound or none at all: no
   reuse of a slot lets an old handle set or stop another playback ("never a
   use-after-free of a recycled slot", cb_sound.cpp:23).                    *)
HandleReachesOwn ==
    \A p \in 1..plays : Found(issued[p]) => pool[issued[p].index].voice = p

(* Every voice Allegro has allocated is in exactly one slot, where the reaper
   finds it, and every occupied slot holds a voice that still exists: none is
   leaked and none is destroyed twice.                                      *)
VoicesHeld ==
    /\ \A v \in live : \E i \in Index : pool[i].occupied /\ pool[i].voice = v
    /\ \A i \in Index : pool[i].occupied => pool[i].voice \in live
    /\ \A i, j \in Index : pool[i].occupied /\ pool[j].occupied
                              /\ pool[i].voice = pool[j].voice => i = j

(* When the program has gone through the graphics teardown no voice is left
   for al_uninstall_system to find (cb_sound.cpp:165).                      *)
NothingLeftAtExit == (pc = "exited" /\ teardown) => live = {}

(* Whatever the mixer does, a voice that stopped is destroyed in the end if
   the game goes on drawing frames, or when it exits.                       *)
StoppedIsReaped ==
    \A v \in 1..MaxPlays :
        (display /\ v \in live \ playing) ~> (v \notin live)

\* To a program a playback loops only while it plays.
Channels == INSTANCE ChannelSpec
    WITH looping <- looping \cap playing, exiting <- pc \in {"flush", "exited"}

(* The sound commands do what docs/cb_runtime.md says: a channel addresses
   its own playback and nothing else, for ever.                             *)
Refines == Channels!Spec
=============================================================================
