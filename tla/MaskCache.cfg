\* Two threads over colliding states, with evictions and shared payloads.
SPECIFICATION Spec
CONSTANTS
  k1 = k1  k2 = k2  k3 = k3  k4 = k4
  Threads = {t1, t2}
  Keys = {k1, k2, k3, k4}
  Hash <- MCHash
  Exact <- MCExact
  Baseline <- MCBaseline
  WordCount = 3
  MaxEntries = 2
  MaxRecent = 2
  SmallSparse = 0
  MaskHash <- MCMaskHash
  Payloads = {p1, p2, p3, p4, p5}
SYMMETRY Symmetry
INVARIANTS HitExact IndexCoherent SharedOnce
PROPERTY RepeatUpgrades
