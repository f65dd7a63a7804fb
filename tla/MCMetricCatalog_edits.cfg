\* Two administrators; a metric that is published and one that is not, each without a row
\* or with one from before there were snapshots, at any version.
SPECIFICATION Spec
CONSTANTS
  Codes = {bound, new}
  Builtin = {bound}
  Bound = {bound}
  Editors = {e1, e2}
  Limit = 2
  MaxVersion = 3
INVARIANTS HistoryIsWhole
PROPERTIES EditsAreNotLost
SYMMETRY Symmetry
