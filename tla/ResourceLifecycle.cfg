SPECIFICATION Spec
CONSTANTS
    Kinds <- MCKinds
    Clients <- ProviderClients
    Resources <- ProviderResources
    Arranges <- MCArranges
    Unreturned <- MCUnreturned
    Sticky <- MCSticky
    PartialUpdates <- MCPartialUpdates
    TrustsErrors <- MCTrustsErrors
    ReadsBack <- MCReadsBack
    Brittle <- MCBrittle
    BlindToAbsence <- MCBlindToAbsence
    Mains = {m1, m2}
    Given = Given
    Unset = Unset
    None = None
    MaxId = 3
    MaxEdits = 2
    MaxFailures = 1
    MaxChanges = 1
INVARIANTS
    CrashesOnlyKnown
    StateIsExact
    LayoutKept
PROPERTIES
    NeverLost
    StoresPlan
    Converges
CHECK_DEADLOCK FALSE
