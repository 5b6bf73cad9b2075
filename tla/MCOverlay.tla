----------------------------- MODULE MCOverlay -----------------------------
(***************************************************************************)
(* Instances of the overlay with its service.  With three characters per    *)
(* key, a text of seven takes three presses, the last of them short, and a  *)
(* text of two takes one: progress can run past the end of the other text.  *)
(* The manifest's copy of kernel is shorter than the one at home, and its   *)
(* copy of ruby longer.                                                     *)
(***************************************************************************)
EXTENDS Overlay

CONSTANTS kernel, ruby, home, plugin, left

OneSource   == <<kernel>>
TwoSources  == <<kernel, ruby>>
Initial     == kernel
NoIds       == {}
OneDir      == {home}
TwoDirs     == {home, plugin}
Home        == home
OneScreen   == {left}
Lengths     == [path \in Paths |->
                  CASE path = <<home, kernel>> -> 7
                    [] path = <<home, ruby>> -> 2
                    [] path = <<plugin, kernel>> -> 2
                    [] OTHER -> 4]

TypingKeys == {"Escape", "Backspace", "Other"}
EveryKey   == {"Escape", "Alt", "CapsLock", "Modifier", "Backspace", "Other"}
=============================================================================
