SPECIFICATION Spec
CONSTANTS
    f1 = f1
    f2 = f2
    f3 = f3
    Files <- ThreeFiles
    MaxClients = 1
    LongMax = 127
PROPERTY RefusedOnlyWhenFull
