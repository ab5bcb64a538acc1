CONSTANTS
    e1 = e1
    e2 = e2
    p1 = p1
    r1 = r1
    Endpoint = {e1, e2}
    Player = {p1}
    Recorder = {r1}
    AudioPort = {a1}
    VideoPort = {v1}
    Transcoder = {t1}
    AudioMixer = audioMixer
    VideoMixer = videoMixer
    None = None
    Streams <- MCStreams
    Created <- MCCreated
    MaxMethods = 5
SPECIFICATION SessionSpec
INVARIANTS JoinsAreSound CodersFollowJoins
CHECK_DEADLOCK FALSE
