\* Two contexts on one loop or two, a chain they share, re-initialisations.
CONSTANTS
  t1 = t1
  t2 = t2
  l1 = l1
  l2 = l2
  ch1 = ch1
  s1 = s1
  s2 = s2
  c1 = c1
  c2 = c2
  None = None
  Tasks <- TheTasks
  Loops <- TheLoops
  Chains <- TheChains
  Settings <- TheSettings
  Addresses <- TheAddresses
  MaxClients = 2
SPECIFICATION Spec
SYMMETRY CacheSymmetry
INVARIANTS
  CacheTypeOK
  ClientFits
  SettingsAreKept
\* Nothing has to happen.
CHECK_DEADLOCK FALSE
