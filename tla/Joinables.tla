----------------------------- MODULE Joinables -----------------------------
(***************************************************************************)
(* Who listens to whom in a media session of the JSR 309 server            *)
(* (jsr309/): sources multiplex packets to listeners, and a listener keeps *)
(* a pointer to the source it has joined.  The graph is a record and the   *)
(* methods are operators on it.                                            *)
(*                                                                         *)
(* An object is a pair: the id of an endpoint, player, recorder, port or   *)
(* transcoder, and the media.  A port of a mixer or a transcoder is an     *)
(* encoder, that others listen to, and a decoder, that listens.            *)
(*                                                                         *)
(* A loop over objects is an operator on the set of them: what an object   *)
(* leaves behind does not depend on which went before it.                  *)
(***************************************************************************)
CONSTANTS
    Endpoint, Player, Recorder, AudioPort, VideoPort, Transcoder,
    Streams,        \* the media of each endpoint, player and recorder
    None

Media == {"audio", "video"}

StreamsOf(ids) == {s \in Streams : s[1] \in ids}

Video    == (VideoPort \cup Transcoder) \X {"video"}
Coder    == Video \cup (AudioPort \X {"audio"})
Source   == StreamsOf(Endpoint \cup Player) \cup Coder
Listener == StreamsOf(Endpoint \cup Recorder) \cup Coder

\* An id stands for an object of one kind: each kind has a map of its own.
ASSUME JoinablesAssumption ==
    /\ Streams \subseteq (Endpoint \cup Player \cup Recorder) \X Media
    /\ None \notin Streams \cup Coder
    /\ Endpoint \cap Player = {}
    /\ (Endpoint \cup Player) \cap Recorder = {}
    /\ AudioPort \cap VideoPort = {}
    /\ (AudioPort \cup VideoPort) \cap Transcoder = {}
    /\ (Endpoint \cup Player \cup Recorder) \cap (AudioPort \cup VideoPort \cup Transcoder) = {}

\* joined is the pointer of a listener to its source, listeners the pointers of a
\* source; encoding and decoding are the coders whose threads run, codec the
\* encoders that have been given one; packets the decoders with a packet in their
\* queue, frames the encoders with one in the queue of the smoother.  A queue that
\* has been cancelled stays so.
NoJoins == [joined    |-> [l \in Listener |-> None],
            listeners |-> [s \in Source |-> {}],
            encoding |-> {}, codec |-> {}, decoding |-> {},
            packets |-> {}, frames |-> {},
            cancelledPackets |-> {}, cancelledFrames |-> {}]

-----------------------------------------------------------------------------
(* The threads of a coder                                                  *)

\* Stop of the decoders
StopDecoding(g, ds) == [g EXCEPT !.decoding         = @ \ ds,
                                 !.cancelledPackets = @ \cup (ds \cap g.decoding)]

\* Stop of the encoders and, for video, of their smoothers
StopEncoding(g, es) == [g EXCEPT !.encoding        = @ \ es,
                                 !.cancelledFrames = @ \cup (es \cap g.encoding \cap Video)]

StartDecoding(g, d) == [StopDecoding(g, {d}) EXCEPT !.decoding = @ \cup {d}]
StartEncoding(g, e) == [StopEncoding(g, {e}) EXCEPT !.encoding = @ \cup {e}]

\* The audio encoder goes on with the codec it has
SetCodec(g, e) ==
    LET set == [g EXCEPT !.codec = @ \cup {e}]
    IN  IF g.listeners[e] # {} /\ (e \in Video \/ e \notin g.encoding)
        THEN StartEncoding(set, e) ELSE set

-----------------------------------------------------------------------------
(* RTPMultiplexer                                                          *)

\* onResetStream
Reset(g, l) == [g EXCEPT !.packets = @ \ {l}]

AddListener(g, s, l) ==
    LET starts == s \in Coder \ g.encoding /\ (s \in Video \/ s \in g.codec)
        ready  == IF starts THEN StartEncoding(g, s) ELSE g
    IN  [Reset(ready, l) EXCEPT !.listeners[s] = @ \cup {l}]

\* The listeners of each source when those of ls have left what they had joined
Without(g, ls) == [s \in Source |-> {l \in g.listeners[s] : ~(l \in ls /\ g.joined[l] = s)}]

\* The encoders that a listener of ls leaves, and nobody listens to any more
Unheard(g, ls) == {s \in Coder : /\ \E l \in ls : g.joined[l] = s
                                 /\ Without(g, ls)[s] = {}}

\* Mutant: the encoder goes on though nobody listens
RemoveListenersOnly(g, ls) == [g EXCEPT !.listeners = Without(g, ls)]

\* RemoveListener, for each of them
RemoveListeners(g, ls) ==
    [StopEncoding(g, Unheard(g, ls)) EXCEPT !.listeners = Without(g, ls)]

Told(ls) == {l \in ls : l[1] \notin Recorder}

ForgetSource(g, ls) == [g EXCEPT !.joined = [l \in Listener |-> IF l \in ls THEN None ELSE @[l]]]

\* onEndStream of each listener: a recorder does nothing
EndStream(g, ls) == ForgetSource(StopDecoding(g, Told(ls)), Told(ls))

\* The destructor of the sources
Destroy(g, ss) ==
    [EndStream(g, UNION {g.listeners[s] : s \in ss})
        EXCEPT !.listeners = [s \in Source |-> IF s \in ss THEN {} ELSE @[s]]]

Multiplex(g, s) == [g EXCEPT !.packets = @ \cup (g.listeners[s] \cap Coder)]

-----------------------------------------------------------------------------
(* Endpoints, recorders and decoders join and leave sources                *)

\* Those that have joined a source
Joiners(g, ls) == {l \in ls : g.joined[l] # None}

Dettach(g, ls) ==
    ForgetSource(RemoveListeners(StopDecoding(g, Joiners(g, ls)), Joiners(g, ls)), ls)

\* Mutant: the source joined so far is not left
AttachOnly(g, l, s) ==
    LET started == IF l \in Coder THEN StartDecoding(g, l) ELSE g
    IN  IF s = None THEN g ELSE AddListener([started EXCEPT !.joined[l] = s], s, l)

Attach(g, l, s) ==
    LET left    == Dettach(g, {l})
        started == IF l \in Coder THEN StartDecoding(left, l) ELSE left
    IN  IF s = None THEN left ELSE AddListener([started EXCEPT !.joined[l] = s], s, l)

\* Endpoint::GetJoinable: without audio, the video
GetJoinable(e, media) ==
    IF <<e, media>> \in Streams THEN <<e, media>>
    ELSE IF media = "audio" /\ <<e, "video">> \in Streams THEN <<e, "video">>
    ELSE None

-----------------------------------------------------------------------------
(* What becomes of the graph when objects are deleted                      *)

\* Endpoint::End, then the destructor of each stream
DeleteEndpoint(g, e) == Destroy(Dettach(g, StreamsOf({e})), StreamsOf({e}))

\* Ports or transcoders: the encoder ends, then the decoder, and both are deleted
DeleteCoders(g, cs) ==
    [Destroy(Dettach(StopEncoding(g, cs), cs), cs)
        EXCEPT !.codec = @ \ cs, !.packets = @ \ cs, !.frames = @ \ cs]

\* MediaSession::End: recorders, the joins of the endpoints, players, transcoders
\* and endpoints.  The mixers are left.
EndSession(g, alive) ==
    LET ended   == Dettach(g, StreamsOf(alive \cap Endpoint))
        players == Destroy(ended, StreamsOf(alive \cap Player))
        coders  == DeleteCoders(players, (alive \cap Transcoder) \X {"video"})
    IN  Destroy(coders, StreamsOf(alive \cap Endpoint))

=============================================================================
