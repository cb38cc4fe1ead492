------------------------------ MODULE MCConfig ------------------------------
(***************************************************************************)
(* An interface and two protocols with a session each; irc keeps rosters.  *)
(***************************************************************************)
EXTENDS Config

MCPluginOrder == <<"ncurses", "gg", "irc">>
MCOwner == ("gg:1" :> "gg") @@ ("irc:a" :> "irc")
=============================================================================
