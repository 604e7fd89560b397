SPECIFICATION FairSpec
CONSTANT QueueLength = 5
INVARIANTS TypeOK Exclusion
PROPERTIES Delivers BothEnd
