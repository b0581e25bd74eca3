CONSTANTS
  t1 = t1
  t2 = t2
  t3 = t3
  Tabs = {t1, t2, t3}
  OldClients = {t3}
  RevSpace = 3
  Initial <- AnyStart
  MaxPuts = 4
SPECIFICATION StoreSpec
INVARIANT RevIdentifiesDoc
PROPERTY NoSilentOverwrite
SYMMETRY Symmetric
