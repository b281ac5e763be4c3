--------------------------- MODULE MCInteractions ---------------------------
(* A recipient with one card: its settings are opened, alerts are muted by a *)
(* double click, which is two callbacks, and unmuted again.                  *)
EXTENDS Interactions, TLC

CONSTANTS ann, card, open, mute, again, unmute

MCOwner == card :> ann
MCCardOf == [c \in Clicks |-> card]
MCActionOf == (open :> "open_settings") @@ (mute :> "mute_all") @@ (again :> "mute_all")
              @@ (unmute :> "unmute_all")
=============================================================================
