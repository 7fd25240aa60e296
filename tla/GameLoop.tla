------------------------------ MODULE GameLoop ------------------------------
(***************************************************************************)
(* The built-in game loop around the objects: DrawScreen updates and draws *)
(* the frame unless UpdateGame or DrawGame already did (cb_gfx.cpp), and   *)
(* steps the camera towards the object it follows (cb_camera.cpp).         *)
(***************************************************************************)
EXTENDS ObjectRegistry

CONSTANT MaxCalls     \* bound: explicit UpdateGame or DrawGame calls a frame

VARIABLES display,        \* has Screen opened a display?
          game_updated,
          game_drawn,
          is_following,
          follow_target,
          frame,          \* auxiliary: calls and passes since the last flip
          flipped         \* auxiliary: frame as it was when it was flipped

gvars == <<display, game_updated, game_drawn, is_following, follow_target,
           frame, flipped>>
allvars == <<vars, gvars>>

\* asked and shown count UpdateGame and DrawGame, ticks and draws the passes.
NoFrame == [asked |-> 0, shown |-> 0, ticks |-> 0, draws |-> 0]

LoopInit ==
  /\ Init
  /\ display = FALSE
  /\ game_updated = FALSE /\ game_drawn = FALSE
  /\ is_following = FALSE /\ follow_target = Null
  /\ frame = NoFrame /\ flipped = NoFrame

-----------------------------------------------------------------------------
Screen ==
  /\ ~display /\ display' = TRUE
  /\ UNCHANGED <<vars, game_updated, game_drawn, is_following, follow_target, frame, flipped>>

\* obj may be Null; nothing else is checked or remembered of it.
CameraFollow(obj) ==
  /\ obj \in Allocated \cup {Null}
  /\ is_following' = TRUE /\ follow_target' = obj
  /\ UNCHANGED <<vars, display, game_updated, game_drawn, frame, flipped>>

CloneCameraPosition(obj) ==
  /\ obj \in Allocated
  /\ is_following' = FALSE
  /\ UNCHANGED <<vars, display, game_updated, game_drawn, follow_target, frame, flipped>>

UpdateGame ==
  /\ frame.asked + frame.shown < MaxCalls
  /\ UpdateAll
  /\ game_updated' = TRUE
  /\ frame' = [frame EXCEPT !.asked = @ + 1, !.ticks = @ + 1]
  /\ UNCHANGED <<display, game_drawn, is_following, follow_target, flipped>>

\* Update the objects unless this frame did already.
UpdateOnce == IF game_updated THEN UNCHANGED vars ELSE UpdateAll
Tick == IF game_updated THEN 0 ELSE 1

\* (A slip: DrawGame marks the frame drawn, not updated.)
DrawGameUnmarked ==
  /\ display /\ frame.asked + frame.shown < MaxCalls
  /\ UpdateOnce
  /\ game_drawn' = TRUE
  /\ frame' = [frame EXCEPT !.shown = @ + 1, !.ticks = @ + Tick, !.draws = @ + 1]
  /\ UNCHANGED <<display, game_updated, is_following, follow_target, flipped>>

DrawGame ==
  /\ display /\ frame.asked + frame.shown < MaxCalls
  /\ UpdateOnce
  /\ game_drawn' = TRUE /\ game_updated' = TRUE
  /\ frame' = [frame EXCEPT !.shown = @ + 1, !.ticks = @ + Tick, !.draws = @ + 1]
  /\ UNCHANGED <<display, is_following, follow_target, flipped>>

DrawScreen ==
  /\ display
  /\ UpdateOnce
  /\ game_updated' = FALSE /\ game_drawn' = FALSE
  /\ flipped' = [frame EXCEPT !.ticks = @ + Tick,
                              !.draws = @ + IF game_drawn THEN 0 ELSE 1]
  /\ frame' = NoFrame
  /\ UNCHANGED <<display, is_following, follow_target>>

LoopNext ==
  \/ Command /\ UNCHANGED gvars
  \/ Screen \/ UpdateGame \/ DrawGame \/ DrawScreen
  \/ \E obj \in Objects \cup {Null} : /\ "follow" \in Commands
                                      /\ CameraFollow(obj) \/ CloneCameraPosition(obj)

\* A game opens its window and calls DrawScreen in its main loop for ever.
LoopSpec ==
  LoopInit /\ [][LoopNext]_allvars /\ WF_allvars(Screen) /\ WF_allvars(DrawScreen)

-----------------------------------------------------------------------------
(***************************************************************************)
(* Properties.                                                             *)
(***************************************************************************)
\* However a program mixes UpdateGame, DrawGame and DrawScreen, every frame it
\* flips was updated and drawn, and only a frame that asked for more got more
\* than one of each.
FrameComplete ==
  flipped # NoFrame =>
    /\ flipped.ticks >= 1 /\ flipped.draws >= 1
    /\ flipped.asked = 0 => flipped.ticks = 1
    /\ flipped.shown = 0 => flipped.draws = 1 /\ flipped.ticks <= 1 + flipped.asked
    /\ (flipped.shown = 0 /\ flipped.asked > 0) => flipped.ticks = flipped.asked

\* A deleted emitter is freed once its particles are gone, also in a game that
\* only ever ticks through DrawScreen, or through UpdateGame.
RoguesDrain == \A o \in Objects : Contains(w.rogue, o) ~> w.obj[o] = Gone

\* docs/cb_runtime.md: CameraFollow "Follows an object", and ObjectLife
\* "auto-deletes at 0".  The object the camera is stepped towards exists.
FollowsExisting ==
  is_following /\ follow_target # Null => follow_target \in Allocated
=============================================================================
