---------------------------- MODULE MCTextMixer ----------------------------
(***************************************************************************)
(* TextMixer for TLC.  One participant writes sentences that may never     *)
(* end, one messages, and a player words.                                  *)
(***************************************************************************)
EXTENDS TextMixer

MCTyping == {<<2, "stop">>, <<2, "space">>, <<3, "newline">>, <<4, "other">>}

=============================================================================
