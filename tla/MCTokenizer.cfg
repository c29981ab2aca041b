SPECIFICATION PipelineSpec
CONSTANT Files <- FilesAll
INVARIANTS LinesCounted TokensOfLogical RejectsLastBackslash AdjacentLiteralsJoined
CHECK_DEADLOCK FALSE
