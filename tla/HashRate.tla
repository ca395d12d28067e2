------------------------------ MODULE HashRate ------------------------------
(***************************************************************************)
(* The hash rate of a cell. Each reply to getstat brings the number of     *)
(* nonces sent so far, for BTC and for LTC. CalculateBTCRealKHash and      *)
(* CalculateLTCRealKHash keep the last ones in a ring, from which the      *)
(* rate is computed and which PackCellBaseUpdateRealKHash writes to the    *)
(* row of the cell; a restart reads it back with                           *)
(* InitCalculateBTCRealKHash. All of a reply is handled under CommRemLock. *)
(***************************************************************************)
EXTENDS Integers, Sequences

CONSTANTS Interval,     \* INTERVAL_30_SECOND, the samples of a window
          IntRange,     \* values of an int, 2^32
          LongRange,    \* values of a long long, 2^64
          BtcShare,     \* BTC_SHARE, unsigned: all bits of an int
          LtcShare,     \* LTC_SHARE, an int
          Divisor,      \* INTERVAL_30_SECOND * VALUES_1000
          Reports,      \* what a cell may report: [Algos -> Nat]
          MaxSamples    \* bound: the replies of a run

Algos == {"BTC", "LTC"}

ASSUME IntervalAssumption == Interval \in Nat /\ Interval > 1
ASSUME RangesAssumption == IntRange \in Nat \ {0} /\ LongRange \in Nat /\ IntRange <= LongRange
ASSUME ShareAssumption == LtcShare \in Nat \ {0} /\ Divisor \in Nat \ {0}
ASSUME ReportsAssumption == Reports \subseteq [Algos -> Nat]

VARIABLES
  ring,   \* llBTCNcsend, llLTCNcsend
  idx,    \* iBTCNcIndex, iLTCNcIndex
  rate,   \* llBTCRealKHash, llLTCRealKHash
  row,    \* szBTC30MNcsend, szLTC30MNcsend of the row: index and values
  num,    \* history: the number of the sample that each slot holds
  total,  \* history: samples so far
  since   \* history: samples since the last start

rateVars == <<ring, idx, rate, row, num, total, since>>

RingSlots == 0 .. Interval + 1
NoText == [idx |-> 0, vals |-> <<>>]

RateInit ==
    /\ ring = [a \in Algos |-> [i \in RingSlots |-> 0]]
    /\ idx = [a \in Algos |-> 0]
    /\ rate = [a \in Algos |-> 0]
    /\ row = [a \in Algos |-> NoText]
    /\ num = [a \in Algos |-> [i \in RingSlots |-> 0]]
    /\ total = 0
    /\ since = 0

-----------------------------------------------------------------------------
(* The arithmetic of the rate *)

\* A type of m values holds x as a number from -m/2 to m/2 - 1.
Signed(x, m) == LET y == x % m IN IF 2 * y >= m THEN y - m ELSE y

\* llDifference, counted down from HASH_MAX_RANGE when it is negative
Difference(x) ==
    LET d == Signed(x, LongRange)
    IN  IF d < 0 THEN Signed(LongRange - 1 + d, LongRange) ELSE d

\* Mutant: the difference keeps its sign.
AbsNone(d) == Signed(d, IntRange)

\* abs takes an int.
Abs(d) == LET i == Signed(d, IntRange) IN IF i < 0 THEN Signed(-i, IntRange) ELSE i

Quotient(x) == IF x < 0 THEN -((-x) \div Divisor) ELSE x \div Divisor

\* int times unsigned is unsigned; int times int wraps.
Rate(a, d) ==
    IF a = "BTC" THEN ((Abs(d) * BtcShare) % IntRange) \div Divisor
    ELSE Quotient(Signed(Abs(d) * LtcShare, IntRange)) % LongRange

-----------------------------------------------------------------------------
(* A reply to getstat *)

\* Mutant: slot 0 is left out when the ring wraps.
WrapToOne(i) == IF i < Interval THEN i + 1 ELSE 1

NextIdx(i) == IF i < Interval THEN i + 1 ELSE 0

Slot(i) == IF i < Interval THEN i ELSE 0

\* The slot that the new value is compared with: the next one, the oldest,
\* when it was ever filled; the one before when the ring has just wrapped.
Base(r, i) ==
    IF i = Interval THEN Interval - 1
    ELSE IF r[i + 1] # 0 /\ i # Interval - 1 THEN i + 1 ELSE 0

Compared(r, i) ==
    IF i # Interval /\ Base(r, i) = i + 1
    THEN r[i + 1] - r[i]
    ELSE r[Slot(i)] - r[Base(r, i)]

Text(r, i) ==
    LET loop == IF i < Interval /\ (r[i + 1] = 0 \/ i = Interval - 1) THEN i ELSE Interval
    IN  [idx |-> i, vals |-> [k \in 1 .. loop |-> r[k - 1]]]

\* The query may fail, or the table may be missing: nothing tells.
Sample(v) ==
    /\ total < MaxSamples
    /\ ring' = [a \in Algos |-> [ring[a] EXCEPT ![Slot(idx[a])] = v[a]]]
    /\ num' = [a \in Algos |-> [num[a] EXCEPT ![Slot(idx[a])] = total + 1]]
    /\ idx' = [a \in Algos |-> NextIdx(idx[a])]
    /\ rate' = [a \in Algos |-> Rate(a, Difference(Compared(ring'[a], idx[a])))]
    /\ row' \in {row, [a \in Algos |-> Text(ring'[a], idx'[a])]}
    /\ total' = total + 1
    /\ since' = since + 1

-----------------------------------------------------------------------------
(* A restart *)

\* The text begins with the index: the first value goes to slot 1.
Loaded(t) == [i \in RingSlots |-> IF i \in DOMAIN t.vals THEN t.vals[i] ELSE 0]

LoadedBase(r, i) ==
    IF i = 0 /\ r[Interval - 1] # 0 THEN Interval - 1
    ELSE IF i = 0 THEN 0 ELSE i - 1

LoadedRate(r, i) ==
    LET k == LoadedBase(r, i)
    IN  IF r[k] # 0 /\ k # Interval - 1 THEN r[k] - r[k + 1] ELSE r[k] - r[0]

\* InitDbToCell. The LTC ring is parsed from the text of the BTC ring, in
\* which Parse has put an end after the index: it stays empty.
Restart ==
    /\ ring' = [ring EXCEPT !["BTC"] = Loaded(row["BTC"]), !["LTC"] = Loaded(NoText)]
    /\ idx' = [idx EXCEPT !["BTC"] = IF row["BTC"].vals = <<>> THEN 0 ELSE row["BTC"].idx,
                          !["LTC"] = 0]
    /\ rate' = [rate EXCEPT !["LTC"] = 0,
                            !["BTC"] = IF row["BTC"].vals = <<>> THEN 0
                                       ELSE Rate("BTC", LoadedRate(ring'["BTC"], idx'["BTC"]))]
    /\ since' = 0
    /\ UNCHANGED <<row, num, total>>

RateNext == Restart \/ \E v \in Reports : Sample(v)

RateSpec == RateInit /\ [][RateNext]_rateVars

-----------------------------------------------------------------------------
RateTypeOK ==
    /\ ring \in [Algos -> [RingSlots -> Nat]]
    /\ idx \in [Algos -> 0 .. Interval]
    /\ rate \in [Algos -> Nat]
    /\ \A a \in Algos : row[a].idx \in 0 .. Interval /\ Len(row[a].vals) <= Interval
    /\ num \in [Algos -> [RingSlots -> 0 .. total]]
    /\ total \in Nat /\ since \in 0 .. total

IsSample == total' = total + 1

\* How many samples ago the value that the new one is compared with came.
Span(a) == total' - num[a][Base(ring'[a], idx[a])]

Filled(a) == \A i \in 1 .. Interval - 1 : ring[a][i] # 0

\* Once a full round of counts came in after a start, and as long as none of
\* them was 0, a rate spans the whole interval, at the seam of the ring one
\* less, and nothing of the time before the start is compared with
\* (CalculateBTCRealKHash). Only the sample that wraps is compared with the
\* one before it.
SpansInterval ==
    [][\A a \in Algos :
         IsSample /\ since > Interval /\ Filled(a) /\ idx[a] # Interval =>
             Span(a) = IF idx[a] = Interval - 1 THEN Interval - 1 ELSE Interval]_rateVars

Distance(x, y) == IF x > y THEN x - y ELSE y - x

\* The counts that the code compares
Gap(a) == Distance(ring'[a][Slot(idx[a])],
                   IF Base(ring'[a], idx[a]) = Slot(idx[a])
                   THEN ring'[a][Slot(idx[a])]
                   ELSE ring[a][Base(ring'[a], idx[a])])

\* As long as the product fits into an int, the rate of LTC is the one of the
\* counts compared or of one nonce more, however the counter of the cell moved:
\* the detour over HASH_MAX_RANGE and abs costs no more than that.
LtcRateIsNear ==
    [][IsSample /\ 2 * (Gap("LTC") + 1) * LtcShare < IntRange =>
         rate'["LTC"] \in {(g * LtcShare) \div Divisor : g \in {Gap("LTC"), Gap("LTC") + 1}}]_rateVars

\* Refuted. The rate is "|lBTCNcsend[Crr] - lBTCNcsend[30M before]|" times the
\* share (api_command.c:357): every sample is compared with one that old.
SpansAlways ==
    [][IsSample /\ since > Interval /\ Filled("BTC") => Span("BTC") >= Interval - 1]_rateVars

\* Refuted. "(|lBTCNcsend[Crr] - lBTCNcsend[30M before]| * BTC_SHARE) /
\* (INTERVAL_30_SECOND * VALUES_1000)" (api_command.c:357), with the counts that
\* the code compares and an error of one nonce.
BtcRateIsDocumented ==
    [][IsSample => rate'["BTC"] \in {(g * BtcShare) \div Divisor : g \in {Gap("BTC"), Gap("BTC") + 1}}]_rateVars

\* The ring was written to the row by the last sample.
Written(a) == row[a] = Text(ring[a], idx[a]) /\ row[a].vals # <<>>

\* Refuted. A start parses "the BTCNcsend of 30 minutes" (db_mysql.c:539) out of
\* the row that they were written to.
HistoryIsKept ==
    [][(since' = 0 /\ Written("BTC")) =>
         \A i \in 0 .. Interval - 1 : ring'["BTC"][i] = ring["BTC"][i]]_rateVars

\* Refuted. It parses "the LTCNcsend of 30 minutes" (db_mysql.c:622) as well.
LtcHistoryIsKept ==
    [][(since' = 0 /\ Written("LTC") /\ Filled("LTC")) => \E i \in RingSlots : ring'["LTC"][i] # 0]_rateVars
=============================================================================
