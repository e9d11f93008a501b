SPECIFICATION FairSpec
CONSTANTS
    InitFrames = 30
    Torques <- MCTorques
    MaxCmds = 3
INVARIANTS
    TypeOK
    DriveOnlyReady
    LineMatchesState
PROPERTIES
    UpObeyed
    DownObeyed
    DeliveredStays
    TorquesArrive
    ImplementsSwitch
