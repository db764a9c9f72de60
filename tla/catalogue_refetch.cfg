\* A title is swept between INSERT and SELECT of get_or_create, in the instance of catalogue.cfg.
SPECIFICATION Spec
CONSTANTS
  Names = {n1, n2, n3}
  Close = {{n1, n2}, {n1, n3}}
  Superset = {{n1, n3}}
  Years = {y1, y2}
  NoYear = noyear
  MaxTitles = 3
  Uids = {f1, f2, f3}
  Indexers = {x1, x2}
  Reparser = rp
  MaxCatFaults = 1
  Shows = {1, 2, 3}
  SearchFiles = {1, 2, 3}
  Phrases = {p1, p2}
  Resolutions = {r1, r2}
  Tongues = {l1}
  Any = any
  MaxEpisode = 2
  Users = {u1, u2}
  Asks = {a1, a2}
  PageSize = 1
  VariantsPerPage = 1
  MaxModifiers = 2
  MaxShelfOps = 1
SYMMETRY YearSymmetry
CHECK_DEADLOCK FALSE
PROPERTIES ConflictImpliesRow
