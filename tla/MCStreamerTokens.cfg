SPECIFICATION Spec
CONSTANTS
    None = None
    Bot = Bot
    Other = Other
    c1 = c1
    c2 = c2
    g1 = g1
    g2 = g2
    Channels <- MCChannels
    GuildOf <- MCGuildOf
    MaxJoins = 3
    MaxLeaves = 1
    MaxNoise = 2
INVARIANT
    TokensForOurGuild
CHECK_DEADLOCK FALSE
