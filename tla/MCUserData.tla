----------------------------- MODULE MCUserData -----------------------------
(* Two commands, where the code has one, so that their order shows.         *)
EXTENDS UserData

TwoCmds == <<"  - first", "  - second">>
=============================================================================
