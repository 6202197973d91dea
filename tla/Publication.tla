---------------------------- MODULE Publication ----------------------------
(***************************************************************************)
(* What the video pipeline promises an instructor and the learners of a    *)
(* lesson: the player is only ever served files made from uploads that are *)
(* fit for it, and a lesson that has something to play always will.        *)
(* Nothing is promised of what an upload holds one of whose files was      *)
(* written over: such an upload counts as fit.                             *)
(***************************************************************************)
CONSTANT Assets   \* uploads

VARIABLES
  playable,  \* uploads of which every part arrived and was put together, or
             \*   one of whose files was written over
  playing    \* uploads the files a player is served were made from

vars == <<playable, playing>>

(* Only such uploads are played. *)
TypeOK ==
  /\ playable \in SUBSET Assets
  /\ playing \in SUBSET playable

Init == playable = {} /\ playing = {}

Assemble(a) ==
  /\ playable' = playable \union {a}
  /\ UNCHANGED playing

Play(files) ==
  /\ files # {}
  /\ files \subseteq playable
  /\ playing' = files
  /\ UNCHANGED playable

Next ==
  \/ \E a \in Assets : Assemble(a)
  \/ \E files \in SUBSET Assets : Play(files)

Spec == Init /\ [][Next]_vars
=============================================================================
