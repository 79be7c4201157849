CONSTANT Drivers <- MCShellOnly
SPECIFICATION FairSpec
PROPERTY FailedLaunchCleanupBounded
