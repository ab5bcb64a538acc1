-------------------------- MODULE MCMediaSession ---------------------------
(***************************************************************************)
(* MediaSession for TLC.  One endpoint has audio and video, the other only *)
(* video.                                                                  *)
(***************************************************************************)
EXTENDS MediaSession

CONSTANTS e1, e2, p1, r1

MCStreams == {<<e1, "audio">>, <<e1, "video">>, <<e2, "video">>,
              <<p1, "audio">>, <<r1, "video">>}
MCCreated == Id \ Transcoder

=============================================================================
