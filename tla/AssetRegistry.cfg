SPECIFICATION RegistrySpec
CONSTANTS
    Assets = {handbook}
    Surfaces = {web, agent}
    Contents = {text}
    Inputs <- AllSnapshots
    MaxVersions = 4
SYMMETRY Symmetry
INVARIANTS
    PublishedIsApproved
    WithdrawnIsUnpublished
PROPERTIES
    PublicationNeverReturns
    OnlyUpdatesWidenAccess
\* an asset at the bound accepts no further command
CHECK_DEADLOCK FALSE
