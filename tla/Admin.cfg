SPECIFICATION Spec
CONSTANTS
  t1 = t1
  t2 = t2
  k1 = k1
  k2 = k2
  Instances = {t1, t2}
  Keys = {k1, k2}
  Ifaces <- MCIfaces
  Dialogs <- MCDialogs
  MaxCommands = 3
  None = None
  Torn = Torn
SYMMETRY AdminSymmetry
INVARIANTS ConfigsLoad SecretsUsable DeletedIsStopped InterfacesDistinct EditApplies
CHECK_DEADLOCK FALSE
