SPECIFICATION FairSpec
CONSTANTS
  Uses <- MCUses
  Ext = {"F3", "F5", "F2", "F4", "DEL", "INS"}
  HookOps = {"25"}
  Breaks = {FALSE, TRUE}
  SigActs = {"none", "handler"}
  ConSize = 4
  Size0A = 3
  ReadSizes = {1, 9}
  TabStop = 4
  MaxCol = 2
INVARIANTS  StacksApart 
PROPERTY WaitEnds
CHECK_DEADLOCK FALSE
