\* Two connections, the second by USB; two servers; a stream of two
\* configurations and at most two packets kept, two being decoded; minutes and
\* hours of two.
SPECIFICATION ScrcpySpec
CONSTANTS
    MaxConnections = 2
    MaxServers = 2
    MaxConfigs = 2
    MaxBuffer = 2
    MaxDecoding = 2
    MaxHours = 1
    Sixty = 2
    Letters = {"A"}
    Modifiers = {"ShiftLeft"}
    Displays = {0, 1}
    Encoders <- MCEncoders
    Codecs = {"c1", "c2"}
    Aspects = {"sessions", "streams", "sound", "input", "settings"}
INVARIANTS
    ScrcpyTypeOK
    SessionSound
    RecordingDecodable
CHECK_DEADLOCK FALSE
