SPECIFICATION FairSpec
CONSTANTS
    Specs <- SpecSample
    Instances = {i1, i2}
    Sites = {z1, z2}
    None = None
CHECK_DEADLOCK FALSE
INVARIANT ProviderIdNamesInstance
INVARIANT SpecKeepsPlace
PROPERTY OnlyRepointingForgets
PROPERTY DeletionPassesWebhook
PROPERTY ZoneFollowsInstance
