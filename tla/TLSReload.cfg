SPECIFICATION FairSpec
CONSTANT MaxVersion = 2
PROPERTY HotReloaded
CHECK_DEADLOCK FALSE
