SPECIFICATION FairSpec
CONSTANTS
    Fds = {0, 1}
INVARIANTS
    DescriptorOwned
    NoForeignFrame
    HealthyIsShown
PROPERTIES
    ImplementsBusLink
    LinkFollowsInterface
