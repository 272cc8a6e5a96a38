CONSTANTS
    Jar = {"j1", "j2"}
    Lib = {"win", "linux"}
    Key <- MCKey
    Natives <- MCNatives
    JarLibs <- MCJarLibs
    HostLib = {"linux"}
    LiveStem <- MCLiveStem
    FlatStem <- MCFlatStem
    Stem <- MCKey
    ClassOf <- MCClassOf
    Commands <- MCCommands
    Hosts <- MCHosts
    MaxCommands = 3
    MaxKills = 1
    MaxChanges = 1
    None = "none"
    TornFile = "torn"
SPECIFICATION Spec
INVARIANT DynamicWins
CHECK_DEADLOCK FALSE
