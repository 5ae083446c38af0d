SPECIFICATION RegistrySpec
CONSTANTS
  Forecaster = {f1, f2}
  ForecastMarket = {m}
  Probability = {2500, 10000, 10001}
  MaxBps = 10000
  Salt = {s1}
  Zero = zero
  Timestamp = {1, 2, 3}
  MaxCommits = 4
INVARIANT RevealProvesForesight
CHECK_DEADLOCK FALSE
