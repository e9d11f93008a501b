SPECIFICATION FairSpec
CONSTANTS
    ApiConns = {a1, a2}
    HttpConns = {h1, h2}
    Pool = 2
    MboxSize = 4
    Abrt = Abrt
PROPERTY
    QuitCloses
