\* Labels and test prints between edits, configurations and restarts.
SPECIFICATION Spec
CONSTANTS
    Name <- TwoNames
    Address <- TwoAddresses
    Nowhere = Nowhere
    Secret <- TwoSecrets
    k1 = k1
    k2 = k2
    NoSecret = NoSecret
    NoName = NoName
    Defaults <- OneDefault
    Named <- Names
    Entered <- Entries
    ConfigLists <- Lists
    MaxVersion = 2
    MaxRestarts = 1
SYMMETRY SecretSymmetry
INVARIANTS
    TypeOK
    ListedIsFound
PROPERTIES
    RefusedForCause
    ImplementsDirectory
