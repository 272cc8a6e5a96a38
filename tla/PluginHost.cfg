SPECIFICATION Spec
CONSTANTS
    hello = hello
    jni = jni
    openssl = openssl
    Lib <- MCLib
    Mask <- MCMask
    Watches <- MCWatches
    EmitsNote <- MCEmitsNote
    Sink = sink
    MaxPlugins = 3
    MaxObservers = 3
    MaxWatches = 3
    MaxRecords = 3
INVARIANTS
    WholeLifecycle
    StoppedIsUnregistered
CHECK_DEADLOCK FALSE
