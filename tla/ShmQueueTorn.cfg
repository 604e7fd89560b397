SPECIFICATION Spec
CONSTANT QueueLength = 5
INVARIANT TextIsWhole
