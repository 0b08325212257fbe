SPECIFICATION FairSpec
CONSTANTS
    r1 = r1
    r2 = r2
    a = a
    c = c
    NoRun = NoRun
    Runs = {r1, r2}
    Ids = {a, c}
    Setups <- MCSetups
INVARIANTS
    TypeOK
    SlotsConserved
    LiveProcessesBounded
    RunsReapTheirProcess
    RegistryTracksSupervised
    CancellableWhileAlive
PROPERTIES
    RunEnds
    StoppedStreamEnds
    EarlyCancelEndsRun
