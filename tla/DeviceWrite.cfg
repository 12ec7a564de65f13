SPECIFICATION FairSpec
CONSTANTS
    w1 = w1
    w2 = w2
    f1 = f1
    f2 = f2
    Writer <- MCWriters
    Field <- MCFields
    Asked <- MCAsked
INVARIANTS
    WritesAreSerialized
    NoStrandedWriter
    SnapshotConverges
PROPERTY
    EveryCommandAnswered
