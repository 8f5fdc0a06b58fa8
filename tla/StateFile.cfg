\* Three processes, kills, failures and losses of power without bound.
SPECIFICATION Spec
CONSTANTS
    t1 = t1
    t2 = t2
    recordT1 = recordT1
    recordT2 = recordT2
    purgeT1 = purgeT1
    Processes = {daemon, action, action2}
    Tables <- MCTables
    NoEntries = {}
    Mutations <- MCMutations
    Mutate <- MCMutate
    NoFile = NoFile
    Unreadable = Unreadable
    Nothing = Nothing
INVARIANTS
    NoLeftovers
PROPERTIES
    AtomicUpdates
    ReplacedOnlyToChange
    CallsReturn
