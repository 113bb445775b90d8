SPECIFICATION TextSpec
CONSTANT MaxKeys = 5
INVARIANTS ArgumentsAreKept HashesAsTheServer
CHECK_DEADLOCK FALSE
