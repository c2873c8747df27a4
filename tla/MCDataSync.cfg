SPECIFICATION Spec
CONSTANTS
  raw = raw
  stats = stats
  Syncs = {t1, t2}
  RawKeys <- OneRaw
  StatsKeys <- OneStats
  Nullable <- OneStats
  MaxVersion <- FewRows
INVARIANTS TypeOK Delivered
PROPERTIES NeverBack Fresh
