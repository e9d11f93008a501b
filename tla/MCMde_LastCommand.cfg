SPECIFICATION FairSpec
CONSTANTS
    InitFrames = 30
    Torques = {0}
    MaxCmds = 3
PROPERTY LastCommandObeyed
