SPECIFICATION FairSpec
CONSTANTS
 NStructs = 3
 NEngines = 5
 MaxTrouble = 1
INVARIANTS TypeOK StructHeld UnloadQuiet EndDelivered
PROPERTIES BeginDelivered StopReturns
