SPECIFICATION Spec
CONSTANTS
 NStructs = 3
 NEngines = 5
 MaxTrouble = 1
INVARIANT CallbacksFinished
