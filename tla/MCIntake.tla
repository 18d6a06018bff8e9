------------------------------ MODULE MCIntake ------------------------------
(* A small instance of Intake for TLC: a burst of two photos, a photo with a *)
(* voice note, or a photo with an event the server refuses.                  *)
EXTENDS IntakeProperties

CONSTANTS first, second

Bursts == {[m \in Message |-> IF m = first THEN "image" ELSE other] :
             other \in {"image", "voice", "unreadable"}}
Stamps == [m \in Message |-> IF m = first THEN 1 ELSE 2]
=============================================================================
