\* Two processes migrate up and down a table of three rows over two addresses.
SPECIFICATION Spec
CONSTANTS
    m1 = m1
    m2 = m2
    u1 = u1
    u2 = u2
    u3 = u3
    a = a
    b = b
    Null = Null
    Migrators <- MCMigrators
    Ids <- MCIds
    Names <- MCNames
SYMMETRY Symmetry
INVARIANTS
    TypeOK
    SchemaIsRevision
    LiveAddressesAreUnique
PROPERTIES
    UsersAreKept
    FailsForCause
    GuardFlagsWhatBites
