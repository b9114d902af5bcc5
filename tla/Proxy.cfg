CONSTANT
    Conns = {c1, c2}
SPECIFICATION LiveSpec
INVARIANTS TypeOK RequestsSurviveShutdown
PROPERTIES StartIsRetried StopEnds
