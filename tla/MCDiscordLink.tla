---------------------------- MODULE MCDiscordLink ----------------------------
(***************************************************************************)
(* DiscordLink for TLC: one profile and one channel, so that every pairing *)
(* competes for both.                                                      *)
(***************************************************************************)
EXTENDS DiscordLink

ASSUME ConstantsOK
=============================================================================
