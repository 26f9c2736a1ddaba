--------------------------- MODULE ProfileRegister --------------------------
(***************************************************************************)
(* What settings.json promises its users: a register holding the profile   *)
(* last chosen, which nothing but a choice changes.  A crash or a failed   *)
(* write voids the promise until the next choice is carried out.           *)
(***************************************************************************)
CONSTANTS Profile, Edited, None

VARIABLES
  profile,  \* the profile in force
  asked,    \* a choice being carried out, or None
  intact    \* FALSE: damaged since the last choice

Init == profile \in Profile \union {Edited} /\ asked = None /\ intact = TRUE

Ask(p) ==
  /\ asked = None
  /\ asked' = p
  /\ UNCHANGED <<profile, intact>>

Commit ==
  /\ asked # None
  /\ profile' = asked
  /\ asked' = None
  /\ intact' = TRUE

Damage == intact' = FALSE

Next == (\E p \in Profile : Ask(p)) \/ Commit \/ Damage

Spec == Init /\ [][Next]_<<profile, asked, intact>>
=============================================================================
