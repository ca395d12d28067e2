\* Four statements of comments that fail, to be checked one at a time.
CONSTANTS
  Interval = 3
  IntRange = 64
  LongRange = 4096
  BtcShare = 63
  LtcShare = 7
  Divisor = 3
  Reports <- MCReports
  MaxSamples = 8
SPECIFICATION RateSpec
PROPERTY SpansAlways
\* PROPERTY BtcRateIsDocumented
\* PROPERTY HistoryIsKept
\* PROPERTY LtcHistoryIsKept
