---------------------------- MODULE MediaSession ----------------------------
(***************************************************************************)
(* A media session of the JSR 309 server (jsr309/MediaSession.cpp): it     *)
(* creates and deletes endpoints, players, recorders, transcoders, an      *)
(* audio and a video mixer and their ports, and joins them, while threads  *)
(* receive, encode, smooth and decode.                                     *)
(*                                                                         *)
(* A method is one step.  Ids are not used again.  An endpoint or a player *)
(* may have a packet for its listeners at any time, and an encoder that    *)
(* runs a frame.                                                           *)
(***************************************************************************)
EXTENDS Naturals, Joinables

CONSTANTS
    AudioMixer, VideoMixer,
    Created,    \* the ids that have been created at first
    MaxMethods  \* how many methods are called then

Port == AudioPort \cup VideoPort
Mixer == {AudioMixer, VideoMixer}
Id == Endpoint \cup Player \cup Recorder \cup Port \cup Transcoder \cup Mixer

ASSUME SessionAssumption ==
    /\ Created \subseteq Id
    /\ Mixer \cap (Endpoint \cup Player \cup Recorder \cup Port \cup Transcoder) = {}

VARIABLES
    graph,      \* the joins and the coders
    alive,      \* the ids in the maps of the session
    gone,       \* the ids that have been deleted
    methods     \* how many methods have been called

sessionVars == <<graph, alive, gone, methods>>

Call == methods < MaxMethods /\ methods' = methods + 1

SessionInit ==
    /\ graph = NoJoins
    /\ alive = Created
    /\ gone = {}
    /\ methods = 0

MixerOf(p) == IF p \in AudioPort THEN AudioMixer ELSE VideoMixer
AsCoder(c) == CHOOSE s \in Coder : s[1] = c

-----------------------------------------------------------------------------
(* Creation and deletion                                                   *)

\* PlayerCreate, RecorderCreate, EndpointCreate, VideoTranscoderCreate,
\* AudioMixerCreate, VideoMixerCreate and the creation of ports
Create(id) ==
    /\ Call /\ id \notin alive \cup gone
    /\ id \in Port => MixerOf(id) \in alive
    /\ alive' = alive \cup {id}
    /\ UNCHANGED <<graph, gone>>

\* The objects of the map are erased and the graph is left as given
Erase(ids, left) ==
    /\ Call /\ ids \subseteq alive
    /\ alive' = alive \ ids
    /\ gone' = gone \cup ids
    /\ graph' = left

EndpointDelete(e) == Erase({e}, DeleteEndpoint(graph, e))

PlayerDelete(p) == Erase({p}, Destroy(graph, StreamsOf({p})))

\* Its sources are not told
RecorderDelete(r) == Erase({r}, ForgetSource(graph, StreamsOf({r})))

VideoTranscoderDelete(t) == Erase({t}, DeleteCoders(graph, {AsCoder(t)}))

PortDelete(p) == Erase({p}, DeleteCoders(graph, {AsCoder(p)}))

MixerDelete(m) ==
    LET ports == {p \in Port \cap alive : MixerOf(p) = m}
    IN  Erase({m} \cup ports, DeleteCoders(graph, {AsCoder(p) : p \in ports}))

\* End: the mixers and their ports are not in it
End ==
    LET ids == alive \ (Port \cup Mixer)
    IN  ids # {} /\ Erase(ids, EndSession(graph, alive))

-----------------------------------------------------------------------------
(* Joins.  A port that is not there is a null source: the join is undone.  *)

Join(l, s) ==
    /\ Call /\ l \in Listener /\ l[1] \in alive
    /\ graph' = Attach(graph, l, s)
    /\ UNCHANGED <<alive, gone>>

PortSource(p) == IF p \in alive THEN AsCoder(p) ELSE None

EndpointAttachToPlayer(e, p, m) == p \in alive /\ <<p, m>> \in Streams /\ Join(<<e, m>>, <<p, m>>)
EndpointAttachToEndpoint(e, s, m) == s \in alive /\ Join(<<e, m>>, GetJoinable(s, m))
EndpointAttachToPort(e, p) ==
    MixerOf(p) \in alive /\ Join(<<e, AsCoder(p)[2]>>, PortSource(p))
EndpointAttachToVideoTranscoder(e, t) == t \in alive /\ Join(<<e, "video">>, AsCoder(t))

PortAttachToEndpoint(p, e) == e \in alive /\ Join(AsCoder(p), GetJoinable(e, AsCoder(p)[2]))
PortAttachToPlayer(p, q) ==
    LET s == <<q, AsCoder(p)[2]>>
    IN  q \in alive /\ s \in Streams /\ Join(AsCoder(p), s)
VideoTranscoderAttachToEndpoint(t, e) == e \in alive /\ Join(AsCoder(t), GetJoinable(e, "video"))

\* What a recorder has joined is still there (otherwise it is used after it is deleted)
RecorderFollows(r, m) ==
    LET s == graph.joined[<<r, m>>] IN <<r, m>> \in Streams /\ (s # None => s[1] \in alive)

RecorderAttachToEndpoint(r, e, m) ==
    RecorderFollows(r, m) /\ e \in alive /\ Join(<<r, m>>, GetJoinable(e, m))
RecorderAttachToPort(r, p) ==
    /\ RecorderFollows(r, AsCoder(p)[2])
    /\ MixerOf(p) \in alive /\ Join(<<r, AsCoder(p)[2]>>, PortSource(p))
RecorderDettach(r, m) == RecorderFollows(r, m) /\ Join(<<r, m>>, None)

\* EndpointDettach, the Dettach of a port and VideoTranscoderDettach
DettachFrom(l) == l[1] \notin Recorder /\ graph.joined[l] # None /\ Join(l, None)

\* The SetCodec of a port and VideoTranscoderSetCodec
CoderSetCodec(c) ==
    /\ Call /\ c[1] \in alive
    /\ graph' = SetCodec(graph, c)
    /\ UNCHANGED <<alive, gone>>

-----------------------------------------------------------------------------
(* The threads                                                             *)

\* An endpoint or a player
Receive(s) ==
    /\ s \in StreamsOf(alive \ Recorder)
    /\ graph' = Multiplex(graph, s)
    /\ UNCHANGED <<alive, gone, methods>>

\* The thread of a video encoder that finds no codec has ended
Encode(e) ==
    /\ e \in graph.encoding \cap graph.codec
    /\ graph' = IF e \in Video THEN [graph EXCEPT !.frames = @ \cup {e}] ELSE Multiplex(graph, e)
    /\ UNCHANGED <<alive, gone, methods>>

Smooth(e) ==
    /\ e \in (graph.encoding \cap graph.frames) \ graph.cancelledFrames
    /\ graph' = [Multiplex(graph, e) EXCEPT !.frames = @ \ {e}]
    /\ UNCHANGED <<alive, gone, methods>>

Decode(d) ==
    /\ d \in (graph.decoding \cap graph.packets) \ graph.cancelledPackets
    /\ graph' = [graph EXCEPT !.packets = @ \ {d}]
    /\ UNCHANGED <<alive, gone, methods>>

SessionNext ==
    \/ \E id \in Id : Create(id)
    \/ \E e \in Endpoint : EndpointDelete(e)
    \/ \E p \in Player : PlayerDelete(p)
    \/ \E r \in Recorder : RecorderDelete(r)
    \/ \E t \in Transcoder : VideoTranscoderDelete(t)
    \/ \E p \in Port : PortDelete(p)
    \/ \E m \in Mixer : MixerDelete(m)
    \/ End
    \/ \E e \in Endpoint, p \in Player, m \in Media : EndpointAttachToPlayer(e, p, m)
    \/ \E e, s \in Endpoint, m \in Media : EndpointAttachToEndpoint(e, s, m)
    \/ \E e \in Endpoint, p \in Port : EndpointAttachToPort(e, p) \/ PortAttachToEndpoint(p, e)
    \/ \E e \in Endpoint, t \in Transcoder :
          EndpointAttachToVideoTranscoder(e, t) \/ VideoTranscoderAttachToEndpoint(t, e)
    \/ \E p \in Port, q \in Player : PortAttachToPlayer(p, q)
    \/ \E r \in Recorder, e \in Endpoint, m \in Media : RecorderAttachToEndpoint(r, e, m)
    \/ \E r \in Recorder, p \in Port : RecorderAttachToPort(r, p)
    \/ \E r \in Recorder, m \in Media : RecorderDettach(r, m)
    \/ \E l \in Listener : DettachFrom(l)
    \/ \E s \in Source : Receive(s)
    \/ \E c \in Coder : CoderSetCodec(c) \/ Encode(c) \/ Smooth(c) \/ Decode(c)

SessionSpec == SessionInit /\ [][SessionNext]_sessionVars

FairSessionSpec == SessionSpec /\ \A c \in Coder : WF_sessionVars(Smooth(c)) /\ WF_sessionVars(Decode(c))

-----------------------------------------------------------------------------

SessionTypeOK ==
    /\ graph.joined \in [Listener -> Source \cup {None}]
    /\ graph.listeners \in [Source -> SUBSET Listener]
    /\ graph.encoding \cup graph.codec \subseteq {c \in Coder : c[1] \in alive}

Follower == {l \in Listener : l[1] \notin Recorder}

\* RTPMultiplexer.cpp and the Attach and Dettach of endpoints and decoders: however
\* objects are joined, joined again and deleted, the session ended with it, a source
\* has as listeners exactly those that have joined it, and both are there: neither
\* pointer is left to an object that has been deleted.  (Recorders are the exception.)
JoinsAreMutual ==
    /\ \A l \in Follower, s \in Source : l \in graph.listeners[s] <=> graph.joined[l] = s
    /\ \A l \in Follower : graph.joined[l] # None => {l[1], graph.joined[l][1]} \subseteq alive

\* RTPMultiplexer.cpp: the joins of a session are sound.
JoinsAreSound == SessionTypeOK /\ JoinsAreMutual

\* AudioDecoderWorker.cpp, VideoDecoderWorker.cpp: the thread of a decoder, that asks
\* its source for an update, runs as long as it has one.
DecodesWhileJoined == \A d \in Coder : d \in graph.decoding <=> graph.joined[d] # None

\* AudioEncoderWorker.cpp, VideoEncoderWorkerMultiplexer.cpp: an encoder runs when
\* somebody listens to it and it has a codec, in whatever order they came, and stops
\* when the last one leaves.
EncodesWhileHeard ==
    \A e \in Coder : /\ e \in graph.encoding => graph.listeners[e] # {}
                     /\ graph.listeners[e] # {} /\ e \in graph.codec => e \in graph.encoding

\* The threads of decoders and encoders run exactly while the joins ask for them.
CodersFollowJoins == DecodesWhileJoined /\ EncodesWhileHeard

\* AudioDecoderWorker.cpp Start, "Check if need to restart": a decoder that has a
\* source again decodes what it gets.
PacketsAreDecoded ==
    \A d \in Coder : LET stuck == d \in graph.decoding \cap graph.packets IN stuck ~> ~stuck

=============================================================================
