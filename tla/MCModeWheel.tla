---------------------------- MODULE MCModeWheel -----------------------------
(* An account without auto mode, one with every mode, and the order assumed. *)
EXTENDS ModeWheel, TLC

CONSTANTS plain, full, manual, edits, auto

MCWheel == plain :> <<manual, edits>> @@ full :> <<manual, edits, auto>>
MCModeWheel == <<manual, edits, auto>>
=============================================================================
