SPECIFICATION FairSpec
CONSTANTS
    Clones = {a, b}
    Firsts <- MCFirsts
    BumpArgs <- MCBumpArgs
    MaxBumps = 1
    MaxCommits = 3
    MaxStops = 1
INVARIANTS
    TagsFollowHistory
    MetadataKeepsUp
PROPERTIES
    PublishedIsFinal
    RerunFinishes
