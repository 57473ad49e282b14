SPECIFICATION FormatSpec
CONSTANTS
  Addrs = {1, 2, 3}
  Keys = {"k"}
  Leaves = {"x"}
  FirstSize = 1
  MaxItems = 2
  Failing = {0, 1, 99}
  Threads = {t1, t2, t3}
  Seeds = {0, 2}
INVARIANTS
  ValidatesAlike
CHECK_DEADLOCK FALSE
