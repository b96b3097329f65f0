CONSTANTS
  Task = {i, a, b, c}
  NoTask = NoTask
  Init1 = i
  WaitCalls <- MCWaitCalls
  MaxKills = 1
  MaxGroups = 1
SPECIFICATION Spec
SYMMETRY Slots
INVARIANTS FamilyExact WaiterIsTold
PROPERTIES OrphansWoken
