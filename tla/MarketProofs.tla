---------------------------- MODULE MarketProofs ----------------------------
(***************************************************************************)
(* Proofs about what lies between the outside world and a decision: the     *)
(* candle cache (CandleCache), the decision rules (Replay), the streams and *)
(* the headlines, and the instance that puts them beside each other          *)
(* (MCMarketData), for every value of the constants.  VenueOrdersProofs has  *)
(* the part of the venue's orders.                                          *)
(***************************************************************************)
EXTENDS MCMarketData, VenueOrdersProofs, FiniteSetTheorems, SequenceTheorems, TLAPS

----------------------------------------------------------------------------
\* The candle cache.

\* What a thread asked for is a range; a refresh asks for the newest Limit bars there
\* are, or all of them.
AskedRange(w) ==
  \E lo, hi \in Nat :
    /\ lo <= hi /\ asked[w] = lo..hi
    /\ job[w] = "refresh" => lo = IF hi < Limit THEN 0 ELSE hi - Limit + 1

NoGap(w) ==
  \A b, c \in series[w] : c <= Newest(asked[w]) => b..c \subseteq series[w]

\* How far the operation of w has come: until a prune falls into it, what it asked for
\* is stored or in hand, and stored once it has inserted.
Progress(w) ==
  /\ fetchPc[w] # "idle" => AskedRange(w)
  /\ fetchPc[w] = "fetched" => DOMAIN got[w] = asked[w]
  /\ fetchPc[w] = "selected" /\ w \notin pruned =>
       asked[w] \subseteq DOMAIN candles \cup DOMAIN got[w]
  /\ fetchPc[w] = "stored" /\ w \notin pruned => asked[w] \subseteq DOMAIN candles
  /\ fetchPc[w] \in {"read", "acting"} /\ w \notin pruned => NoGap(w)

ThreadTyped(w) ==
  /\ asked[w] \subseteq 0..feed /\ DOMAIN got[w] \subseteq asked[w]
  /\ \A b \in DOMAIN got[w] : got[w][b] \in 0..moves[b]
  /\ series[w] \subseteq 0..feed
  /\ fetchPc[w] = "acting" => w = Ticker

TableTyped ==
  /\ barNow \in Bars /\ feed \in 0..barNow
  /\ moves \in [0..feed -> 0..MaxMoves]
  /\ DOMAIN candles \subseteq 0..feed
  /\ \A b \in DOMAIN candles : candles[b] \in 0..moves[b]

PhasesTyped ==
  /\ fetchPc \in [Fetchers -> FetchPhases]
  /\ job \in [Fetchers -> Jobs] /\ job[Ticker] = "refresh"
  /\ DOMAIN asked = Fetchers /\ DOMAIN got = Fetchers /\ DOMAIN series = Fetchers
  /\ pruned \subseteq Fetchers

CacheInv ==
  /\ TableTyped /\ PhasesTyped
  /\ \A w \in Fetchers : ThreadTyped(w) /\ Progress(w)

LEMMA NewestOfRange ==
  ASSUME NEW lo \in Nat, NEW hi \in Nat, lo <= hi
  PROVE  Newest(lo..hi) = hi
<1>1. \E b \in lo..hi : \A c \in lo..hi : c <= b
  <2>1. hi \in lo..hi /\ \A c \in lo..hi : c <= hi
    BY SMT
  <2> QED
    BY <2>1
<1>2. Newest(lo..hi) \in lo..hi /\ \A c \in lo..hi : c <= Newest(lo..hi)
  BY <1>1 DEF Newest
<1>3. hi <= Newest(lo..hi) /\ Newest(lo..hi) <= hi /\ Newest(lo..hi) \in Int
  BY <1>2, SMT
<1> QED
  BY <1>3, SMT

\* Every call asks for a range of published bars.
LEMMA AskedIsRange ==
  ASSUME NEW kind \in Jobs, NEW S \in Asked(kind), feed \in Nat
  PROVE  /\ S \subseteq 0..feed
         /\ \E lo, hi \in Nat :
              /\ lo <= hi /\ S = lo..hi
              /\ kind = "refresh" => lo = IF hi < Limit THEN 0 ELSE hi - Limit + 1
<1> USE CacheBoundsAssumption
<1>1. CASE kind = "refresh"
  <2> DEFINE first == IF feed < Limit THEN 0 ELSE feed - Limit + 1
  <2>1. S = {b \in 0..feed : b > feed - Limit}
    BY <1>1 DEF Asked
  <2>2. first \in Nat /\ first <= feed
    BY SMT
  <2>3. S = first..feed
    BY <2>1, SMT
  <2> QED
    BY <2>1, <2>2, <2>3
<1>2. CASE kind # "refresh"
  <2>1. PICK lo, hi \in 0..feed : S = lo..hi /\ S # {}
    BY <1>2 DEF Asked
  <2>2. lo \in Nat /\ hi \in Nat /\ lo <= hi /\ S \subseteq 0..feed
    BY <2>1, SMT
  <2> QED
    BY <1>2, <2>1, <2>2
<1> QED
  BY <1>1, <1>2

\* The newest rows of a table that holds the last Limit bars up to hi, or every bar
\* up to hi, have no hole below hi, whatever older and newer rows there are.
LEMMA NewestHaveNoGap ==
  ASSUME NEW D, NEW n \in Nat, D \subseteq 0..n, NEW lo \in Nat, NEW hi \in Nat, lo <= hi,
         lo = (IF hi < Limit THEN 0 ELSE hi - Limit + 1), lo..hi \subseteq D,
         NEW b \in NewestOf(D, Limit), NEW c \in NewestOf(D, Limit), c <= hi
  PROVE  b..c \subseteq NewestOf(D, Limit)
<1> USE CacheBoundsAssumption
<1> DEFINE Above(x) == {y \in D : y > x}
<1>0. \A y \in D : y \in Int
  <2>1. \A y \in 0..n : y \in Int
    BY SMT
  <2> QED
    BY <2>1
<1>1. b \in D /\ c \in D /\ b \in Int /\ c \in Int
  BY <1>0 DEF NewestOf
<1> HIDE DEF Above
<1>5. Cardinality(Above(b)) < Limit
  BY DEF NewestOf, Above
<1>2. \A x : IsFiniteSet(Above(x)) /\ Cardinality(Above(x)) \in Nat
  <2>1. IsFiniteSet(0..n)
    BY FS_Interval, SMT
  <2>2. IsFiniteSet(D)
    BY <2>1, FS_Subset
  <2>3. \A x : Above(x) \in SUBSET D
    BY DEF Above
  <2>4. \A x : IsFiniteSet(Above(x))
    BY <2>2, <2>3, FS_Subset
  <2> QED
    BY <2>4, FS_CardinalityType
<1>3. b >= lo
  <2> SUFFICES ASSUME b < lo PROVE FALSE
    BY <1>1, SMT
  <2>1. lo..hi \subseteq Above(b) /\ Cardinality(lo..hi) = Limit
    <3>1. lo..hi \subseteq Above(b)
      <4>1. ASSUME NEW y \in lo..hi PROVE y \in D /\ y > b
        <5>1. y \in D
          OBVIOUS
        <5>2. y >= lo /\ y \in Int
          BY SMT
        <5>3. y > b
          BY <1>1, <5>2, SMT
        <5> QED
          BY <5>1, <5>3
      <4> QED
        BY <4>1 DEF Above
    <3>2. Cardinality(lo..hi) = hi - lo + 1 /\ lo = hi - Limit + 1
      BY <1>1, FS_Interval, SMT
    <3> QED
      BY <3>1, <3>2, SMT
  <2>2. Cardinality(lo..hi) <= Cardinality(Above(b))
    <3>1. lo..hi \in SUBSET Above(b) /\ IsFiniteSet(Above(b))
      BY <1>2, <2>1
    <3> QED
      BY <3>1, FS_Subset
  <2> QED
    BY <1>2, <1>5, <2>1, <2>2, SMT
<1>4. ASSUME NEW d \in b..c PROVE d \in NewestOf(D, Limit)
  <2>1. d \in D /\ d \in Int /\ b <= d
    BY <1>1, <1>3, <1>4, SMT
  <2>2. Above(d) \subseteq Above(b)
    <3>1. ASSUME NEW y \in D, y > d PROVE y > b
      <4>1. y \in Int
        BY <1>0
      <4> QED
        BY <1>1, <2>1, <3>1, <4>1, SMT
    <3> QED
      BY <3>1 DEF Above
  <2>3. Cardinality(Above(d)) <= Cardinality(Above(b))
    <3>1. Above(d) \in SUBSET Above(b) /\ IsFiniteSet(Above(b))
      BY <1>2, <2>2
    <3> QED
      BY <3>1, FS_Subset
  <2>4. Cardinality(Above(d)) < Limit
    BY <1>2, <1>5, <2>3, SMT
  <2> QED
    BY <2>1, <2>4 DEF NewestOf, Above
<1> QED
  BY <1>4

LEMMA CacheInvImplies == CacheInv => CacheTypeOK /\ ReadsHaveNoGap
<1> SUFFICES ASSUME CacheInv PROVE CacheTypeOK /\ ReadsHaveNoGap
  OBVIOUS
<1>1. CacheTypeOK
  BY DEF CacheInv, CacheTypeOK, TableTyped, PhasesTyped, ThreadTyped
<1>2. ReadsHaveNoGap
  BY DEF CacheInv, ReadsHaveNoGap, Progress, NoGap
<1> QED
  BY <1>1, <1>2

LEMMA CacheInitInv == CacheInit => CacheInv
<1> SUFFICES ASSUME CacheInit PROVE CacheInv
  OBVIOUS
<1> USE CacheBoundsAssumption DEF CacheInit
<1>1. TableTyped
  <2>1. 0..0 = {0} /\ 0 \in Bars /\ 0 \in 0..0 /\ 0 \in 0..MaxMoves
    BY SMT DEF Bars
  <2>2. DOMAIN candles = {}
    BY DEF NoBars
  <2>3. moves \in [0..feed -> 0..MaxMoves]
    BY <2>1
  <2> QED
    BY <2>1, <2>2, <2>3 DEF TableTyped
<1>2. PhasesTyped
  BY DEF PhasesTyped, FetchPhases, Jobs, Fetchers
<1>3. ASSUME NEW w \in Fetchers PROVE ThreadTyped(w) /\ Progress(w)
  <2>1. fetchPc[w] = "idle" /\ asked[w] = {} /\ DOMAIN got[w] = {} /\ series[w] = {}
    BY DEF NoBars
  <2> QED
    BY <2>1 DEF ThreadTyped, Progress
<1> QED
  BY <1>1, <1>2, <1>3 DEF CacheInv

\* The exchange moves on: nothing a thread holds is invalidated.
LEMMA ExchangeFrame ==
  ASSUME CacheInv, UNCHANGED <<candles, thread, pruned>>,
         barNow' \in Bars, feed' \in 0..barNow', feed <= feed',
         moves' \in [0..feed' -> 0..MaxMoves],
         \A b \in 0..feed : moves[b] <= moves'[b]
  PROVE  CacheInv'
<1> USE DEF CacheInv
<1>1. 0..feed \subseteq 0..feed' /\ \A b \in 0..feed : 0..moves[b] \subseteq 0..moves'[b]
  <2>1. barNow \in Nat /\ feed \in Nat /\ barNow' \in Nat /\ feed' \in Nat
    BY CacheBoundsAssumption, SMT DEF TableTyped, Bars
  <2>2. 0..feed \subseteq 0..feed'
    BY <2>1, SMT
  <2>3. ASSUME NEW b \in 0..feed PROVE 0..moves[b] \subseteq 0..moves'[b]
    <3>1. moves[b] \in Int /\ moves'[b] \in Int /\ moves[b] <= moves'[b]
      BY <2>2, CacheBoundsAssumption, SMT DEF TableTyped
    <3> QED
      BY <3>1, SMT
  <2> QED
    BY <2>2, <2>3
<1>2. TableTyped'
  BY <1>1 DEF TableTyped
<1>3. PhasesTyped'
  BY DEF PhasesTyped, thread
<1>4. ASSUME NEW w \in Fetchers PROVE ThreadTyped(w)' /\ Progress(w)'
  <2>1. ThreadTyped(w)'
    BY <1>1 DEF ThreadTyped, thread
  <2>2. Progress(w)'
    BY DEF Progress, AskedRange, NoGap, thread
  <2> QED
    BY <2>1, <2>2
<1> QED
  BY <1>2, <1>3, <1>4

\* A thread that does not move keeps what it has, as long as no row it needs goes.
LEMMA ThreadFrame ==
  ASSUME NEW w, ThreadTyped(w), Progress(w), UNCHANGED market,
         fetchPc'[w] = fetchPc[w], job'[w] = job[w], asked'[w] = asked[w],
         got'[w] = got[w], series'[w] = series[w],
         fetchPc[w] # "idle" /\ w \notin pruned' =>
           w \notin pruned /\ DOMAIN candles \subseteq DOMAIN candles'
  PROVE  ThreadTyped(w)' /\ Progress(w)'
<1>1. ThreadTyped(w)'
  BY DEF ThreadTyped, market
<1>2. AskedRange(w) => AskedRange(w)'
  BY DEF AskedRange
<1>3. NoGap(w) => NoGap(w)'
  BY DEF NoGap
<1>4. Progress(w)'
  BY <1>2, <1>3 DEF Progress
<1> QED
  BY <1>1, <1>4

LEMMA EndFetchInv ==
  ASSUME CacheInv, NEW w \in Fetchers, EndFetch(w), UNCHANGED <<market, candles>>
  PROVE  CacheInv'
<1> USE DEF CacheInv
<1>1. TableTyped'
  BY DEF TableTyped, market
<1>2. PhasesTyped'
  BY DEF PhasesTyped, EndFetch, FetchPhases, Jobs
<1>3. ASSUME NEW v \in Fetchers PROVE ThreadTyped(v)' /\ Progress(v)'
  <2>1. CASE v = w
    <3>1. fetchPc'[v] = "idle" /\ asked'[v] = {} /\ DOMAIN got'[v] = {} /\ series'[v] = {}
      BY <2>1 DEF EndFetch, PhasesTyped, NoBars
    <3> QED
      BY <3>1 DEF ThreadTyped, Progress
  <2>2. CASE v # w
    <3>1. /\ fetchPc'[v] = fetchPc[v] /\ job'[v] = job[v] /\ asked'[v] = asked[v]
          /\ got'[v] = got[v] /\ series'[v] = series[v]
          /\ v \notin pruned' => v \notin pruned
      BY <2>2 DEF EndFetch, PhasesTyped
    <3> QED
      BY <3>1, ThreadFrame
  <2> QED
    BY <2>1, <2>2
<1> QED
  BY <1>1, <1>2, <1>3
\* One thread moves and the table does not shrink.
LEMMA OneThreadMoves ==
  ASSUME CacheInv, NEW w \in Fetchers, UNCHANGED <<market, pruned>>,
         DOMAIN candles \subseteq DOMAIN candles', TableTyped', PhasesTyped',
         \A v \in Fetchers \ {w} :
           /\ fetchPc'[v] = fetchPc[v] /\ job'[v] = job[v] /\ asked'[v] = asked[v]
           /\ got'[v] = got[v] /\ series'[v] = series[v],
         ThreadTyped(w)', Progress(w)'
  PROVE  CacheInv'
<1>1. ASSUME NEW v \in Fetchers \ {w} PROVE ThreadTyped(v)' /\ Progress(v)'
  BY <1>1, ThreadFrame DEF CacheInv
<1> QED
  BY <1>1 DEF CacheInv

LEMMA FetchBarsInv ==
  ASSUME CacheInv, NEW w \in Fetchers, NEW kind \in Jobs, NEW S \in Asked(kind),
         FetchBars(w, kind, S)
  PROVE  CacheInv'
<1> USE DEF FetchBars
<1>1. TableTyped'
  BY DEF CacheInv, TableTyped, market
<1>2. PhasesTyped'
  BY DEF CacheInv, PhasesTyped, FetchPhases
<1>3. ThreadTyped(w)' /\ Progress(w)'
  <2>1. feed \in Nat
    BY CacheBoundsAssumption, SMT DEF CacheInv, TableTyped, Bars
  <2>2. PICK lo, hi \in Nat :
          /\ lo <= hi /\ S = lo..hi /\ S \subseteq 0..feed
          /\ kind = "refresh" => lo = IF hi < Limit THEN 0 ELSE hi - Limit + 1
    BY <2>1, AskedIsRange
  <2>3. /\ fetchPc'[w] = "fetched" /\ job'[w] = kind /\ asked'[w] = S
        /\ got'[w] = [b \in S |-> moves[b]] /\ series'[w] = series[w]
    BY DEF CacheInv, PhasesTyped
  <2>4. AskedRange(w)'
    BY <2>2, <2>3 DEF AskedRange
  <2>5. Progress(w)'
    BY <2>3, <2>4 DEF Progress
  <2>6. \A b \in S : moves[b] \in 0..moves[b]
    <3>1. ASSUME NEW b \in S PROVE moves[b] \in 0..moves[b]
      <4>1. moves[b] \in 0..MaxMoves /\ MaxMoves \in Nat
        BY <2>2, CacheBoundsAssumption DEF CacheInv, TableTyped
      <4> QED
        BY <4>1, SMT
    <3> QED
      BY <3>1
  <2>7. ThreadTyped(w)'
    BY <2>2, <2>3, <2>6 DEF CacheInv, ThreadTyped, market
  <2> QED
    BY <2>5, <2>7
<1>4. ASSUME NEW v \in Fetchers \ {w}
      PROVE  /\ fetchPc'[v] = fetchPc[v] /\ job'[v] = job[v] /\ asked'[v] = asked[v]
             /\ got'[v] = got[v] /\ series'[v] = series[v]
  BY DEF CacheInv, PhasesTyped
<1> QED
  BY <1>1, <1>2, <1>3, <1>4, OneThreadMoves

LEMMA SelectExistingInv ==
  ASSUME CacheInv, NEW w \in Fetchers, SelectExisting(w)
  PROVE  CacheInv'
<1> USE DEF SelectExisting
<1>1. TableTyped'
  BY DEF CacheInv, TableTyped, market
<1>2. PhasesTyped'
  BY DEF CacheInv, PhasesTyped, FetchPhases
<1>3. ThreadTyped(w)' /\ Progress(w)'
  <2>1. /\ fetchPc'[w] = "selected" /\ job'[w] = job[w] /\ asked'[w] = asked[w]
        /\ got'[w] = [b \in asked[w] \ DOMAIN candles |-> got[w][b]]
        /\ series'[w] = series[w]
    BY DEF CacheInv, PhasesTyped
  <2>2. AskedRange(w) /\ DOMAIN got[w] = asked[w]
    BY DEF CacheInv, Progress
  <2>3. AskedRange(w)'
    BY <2>1, <2>2 DEF AskedRange
  <2>4. Progress(w)'
    BY <2>1, <2>2, <2>3 DEF Progress
  <2>5. ThreadTyped(w)'
    BY <2>1, <2>2 DEF CacheInv, ThreadTyped, market
  <2> QED
    BY <2>4, <2>5
<1>4. ASSUME NEW v \in Fetchers \ {w}
      PROVE  /\ fetchPc'[v] = fetchPc[v] /\ job'[v] = job[v] /\ asked'[v] = asked[v]
             /\ got'[v] = got[v] /\ series'[v] = series[v]
  BY DEF CacheInv, PhasesTyped
<1> QED
  BY <1>1, <1>2, <1>3, <1>4, OneThreadMoves

LEMMA InsertNewInv ==
  ASSUME CacheInv, NEW w \in Fetchers, InsertNew(w)
  PROVE  CacheInv'
<1> USE DEF InsertNew
<1>1. TableTyped'
  <2>1. DOMAIN got[w] \subseteq 0..feed
    BY DEF CacheInv, ThreadTyped
  <2>2. \A b \in DOMAIN got[w] : got[w][b] \in 0..moves[b]
    BY DEF CacheInv, ThreadTyped
  <2>3. DOMAIN candles' = DOMAIN candles \cup DOMAIN got[w]
    OBVIOUS
  <2>4. \A b \in DOMAIN candles' : candles'[b] \in 0..moves[b]
    BY <2>2 DEF CacheInv, TableTyped
  <2> QED
    BY <2>1, <2>3, <2>4 DEF CacheInv, TableTyped, market
<1>2. PhasesTyped'
  BY DEF CacheInv, PhasesTyped, FetchPhases
<1>3. ThreadTyped(w)' /\ Progress(w)'
  <2>1. /\ fetchPc'[w] = "stored" /\ job'[w] = job[w] /\ asked'[w] = asked[w]
        /\ DOMAIN got'[w] = {} /\ series'[w] = series[w]
    BY DEF CacheInv, PhasesTyped, NoBars
  <2>2. AskedRange(w)
    BY DEF CacheInv, Progress
  <2>3. AskedRange(w)'
    BY <2>1, <2>2 DEF AskedRange
  <2>4. Progress(w)'
    BY <2>1, <2>3 DEF CacheInv, Progress
  <2>5. ThreadTyped(w)'
    BY <2>1 DEF CacheInv, ThreadTyped, market
  <2> QED
    BY <2>4, <2>5
<1>4. ASSUME NEW v \in Fetchers \ {w}
      PROVE  /\ fetchPc'[v] = fetchPc[v] /\ job'[v] = job[v] /\ asked'[v] = asked[v]
             /\ got'[v] = got[v] /\ series'[v] = series[v]
  BY DEF CacheInv, PhasesTyped
<1>5. DOMAIN candles \subseteq DOMAIN candles'
  OBVIOUS
<1> QED
  BY <1>1, <1>2, <1>3, <1>4, <1>5, OneThreadMoves

LEMMA ReadBackInv ==
  ASSUME CacheInv, NEW w \in Fetchers, ReadBack(w)
  PROVE  CacheInv'
<1> USE DEF ReadBack
<1>1. TableTyped'
  BY DEF CacheInv, TableTyped, market
<1>2. PhasesTyped'
  BY DEF CacheInv, PhasesTyped, FetchPhases
<1>3. ThreadTyped(w)' /\ Progress(w)'
  <2>1. /\ fetchPc'[w] = "read" /\ job'[w] = job[w] /\ asked'[w] = asked[w]
        /\ got'[w] = got[w]
        /\ series'[w] = IF job[w] = "refresh" THEN NewestOf(DOMAIN candles, Limit)
                                              ELSE DOMAIN candles \cap asked[w]
    BY DEF CacheInv, PhasesTyped
  <2>2. AskedRange(w)
    BY DEF CacheInv, Progress
  <2>3. AskedRange(w)'
    BY <2>1, <2>2 DEF AskedRange
  <2>4. ASSUME w \notin pruned PROVE NoGap(w)'
    <3>1. asked[w] \subseteq DOMAIN candles
      BY <2>4 DEF CacheInv, Progress
    <3>2. PICK lo, hi \in Nat :
            /\ lo <= hi /\ asked[w] = lo..hi
            /\ job[w] = "refresh" => lo = IF hi < Limit THEN 0 ELSE hi - Limit + 1
      BY <2>2 DEF AskedRange
    <3>3. Newest(asked'[w]) = hi
      BY <2>1, <3>2, NewestOfRange
    <3>4. feed \in Nat /\ DOMAIN candles \subseteq 0..feed
      BY CacheBoundsAssumption, SMT DEF CacheInv, TableTyped, Bars
    <3>5. CASE job[w] = "refresh"
      <4>1. series'[w] = NewestOf(DOMAIN candles, Limit)
        BY <2>1, <3>5
      <4>2. ASSUME NEW b \in series'[w], NEW c \in series'[w], c <= hi
            PROVE  b..c \subseteq series'[w]
        <5>1. b \in NewestOf(DOMAIN candles, Limit) /\ c \in NewestOf(DOMAIN candles, Limit)
          BY <4>1
        <5>2. lo..hi \subseteq DOMAIN candles
          BY <3>1, <3>2
        <5>3. lo = (IF hi < Limit THEN 0 ELSE hi - Limit + 1)
          BY <3>2, <3>5
        <5> HIDE DEF ReadBack
        <5> QED
          BY <3>2, <3>4, <4>1, <4>2, <5>1, <5>2, <5>3, NewestHaveNoGap
      <4> QED
        BY <3>3, <4>2 DEF NoGap
    <3>6. CASE job[w] # "refresh"
      <4>1. series'[w] = lo..hi
        BY <2>1, <3>1, <3>2, <3>6
      <4>2. ASSUME NEW b \in lo..hi, NEW c \in lo..hi PROVE b..c \subseteq lo..hi
        BY <3>2, SMT
      <4> QED
        BY <4>1, <4>2 DEF NoGap
    <3> QED
      BY <3>5, <3>6
  <2>5. Progress(w)'
    BY <2>1, <2>3, <2>4 DEF Progress
  <2>6. series'[w] \subseteq 0..feed
    <3>1. NewestOf(DOMAIN candles, Limit) \subseteq DOMAIN candles
      BY DEF NewestOf
    <3>2. DOMAIN candles \subseteq 0..feed
      BY DEF CacheInv, TableTyped
    <3>3. series'[w] \subseteq DOMAIN candles
      BY <2>1, <3>1
    <3> QED
      BY <3>2, <3>3
  <2>7. ThreadTyped(w)'
    BY <2>1, <2>6 DEF CacheInv, ThreadTyped, market
  <2> QED
    BY <2>5, <2>7
<1>4. ASSUME NEW v \in Fetchers \ {w}
      PROVE  /\ fetchPc'[v] = fetchPc[v] /\ job'[v] = job[v] /\ asked'[v] = asked[v]
             /\ got'[v] = got[v] /\ series'[v] = series[v]
  BY DEF CacheInv, PhasesTyped
<1> QED
  BY <1>1, <1>2, <1>3, <1>4, OneThreadMoves
LEMMA PruneCandlesInv ==
  ASSUME CacheInv, PruneCandles
  PROVE  CacheInv'
<1> USE DEF PruneCandles
<1>1. TableTyped'
  BY DEF CacheInv, TableTyped, market
<1>2. PhasesTyped'
  BY DEF CacheInv, PhasesTyped, thread
<1>3. ASSUME NEW w \in Fetchers PROVE ThreadTyped(w)' /\ Progress(w)'
  <2>1. fetchPc[w] # "idle" => w \in pruned'
    OBVIOUS
  <2>2. ThreadTyped(w) /\ Progress(w)
    BY DEF CacheInv
  <2> QED
    BY <2>1, <2>2, ThreadFrame DEF thread
<1> QED
  BY <1>1, <1>2, <1>3 DEF CacheInv

LEMMA ActOnPriceInv ==
  ASSUME CacheInv, ActOnPrice
  PROVE  CacheInv'
<1> USE DEF ActOnPrice
<1>1. Ticker \in Fetchers
  BY DEF Fetchers
<1>2. TableTyped'
  BY DEF CacheInv, TableTyped, market
<1>3. PhasesTyped'
  BY <1>1 DEF CacheInv, PhasesTyped, FetchPhases
<1>4. fetchPc'[Ticker] = "acting"
  BY <1>1 DEF CacheInv, PhasesTyped
<1>5. ThreadTyped(Ticker)' /\ Progress(Ticker)'
  <2>1. ThreadTyped(Ticker) /\ Progress(Ticker)
    BY <1>1 DEF CacheInv
  <2>2. ThreadTyped(Ticker)'
    BY <1>4, <2>1 DEF ThreadTyped, market
  <2>3. Progress(Ticker)'
    BY <1>4, <2>1 DEF Progress, AskedRange, NoGap
  <2> QED
    BY <2>2, <2>3
<1>6. ASSUME NEW v \in Fetchers \ {Ticker}
      PROVE  /\ fetchPc'[v] = fetchPc[v] /\ job'[v] = job[v] /\ asked'[v] = asked[v]
             /\ got'[v] = got[v] /\ series'[v] = series[v]
  BY DEF CacheInv, PhasesTyped
<1> QED
  BY <1>1, <1>2, <1>3, <1>5, <1>6, OneThreadMoves

LEMMA ExchangeInv ==
  ASSUME CacheInv, PriceMove \/ BarCloses \/ FeedAdvances
  PROVE  CacheInv'
<1> USE CacheBoundsAssumption
<1>1. /\ barNow \in Nat /\ barNow <= MaxBar /\ feed \in Nat /\ feed <= barNow
      /\ moves \in [0..feed -> 0..MaxMoves]
  BY SMT DEF CacheInv, TableTyped, Bars
<1>2. CASE PriceMove
  <2>1. feed \in 0..feed /\ moves[feed] + 1 \in 0..MaxMoves /\ moves[feed] \in Nat
    <3>1. feed \in 0..feed
      BY <1>1, SMT
    <3>2. moves[feed] \in 0..MaxMoves /\ moves[feed] < MaxMoves
      BY <1>1, <1>2, <3>1 DEF PriceMove
    <3> QED
      BY <3>1, <3>2, SMT
  <2>2. moves' \in [0..feed -> 0..MaxMoves]
    BY <1>1, <1>2, <2>1 DEF PriceMove
  <2>3. ASSUME NEW b \in 0..feed PROVE moves[b] <= moves'[b]
    <3>1. moves'[b] = IF b = feed THEN moves[b] + 1 ELSE moves[b]
      BY <1>1, <1>2 DEF PriceMove
    <3>2. moves[b] \in 0..MaxMoves
      BY <1>1
    <3> QED
      BY <3>1, <3>2, SMT
  <2>4. barNow' \in Bars /\ feed' \in 0..barNow' /\ feed <= feed' /\ feed' = feed
    BY <1>1, <1>2, SMT DEF PriceMove, Bars
  <2> QED
    BY <1>2, <2>2, <2>3, <2>4, ExchangeFrame DEF PriceMove
<1>3. CASE BarCloses
  <2>1. barNow' \in Bars /\ feed' \in 0..barNow' /\ feed <= feed' /\ feed' = feed
    BY <1>1, <1>3, SMT DEF BarCloses, Bars
  <2>2. ASSUME NEW b \in 0..feed PROVE moves[b] <= moves'[b]
    <3>1. moves[b] \in 0..MaxMoves /\ moves'[b] = moves[b]
      BY <1>1, <1>3 DEF BarCloses
    <3> QED
      BY <3>1, SMT
  <2> QED
    BY <1>1, <1>3, <2>1, <2>2, ExchangeFrame DEF BarCloses
<1>4. CASE FeedAdvances
  <2>1. barNow' \in Bars /\ feed' \in 0..barNow' /\ feed <= feed' /\ feed' = barNow
    BY <1>1, <1>4, SMT DEF FeedAdvances, Bars
  <2>2. moves' \in [0..feed' -> 0..MaxMoves]
    <3>1. ASSUME NEW b \in 0..barNow
          PROVE  (IF b <= feed THEN moves[b] ELSE 0) \in 0..MaxMoves
      <4>1. b <= feed => b \in 0..feed
        BY <1>1, SMT
      <4>2. 0 \in 0..MaxMoves
        BY SMT
      <4> QED
        BY <1>1, <4>1, <4>2
    <3> QED
      BY <1>4, <2>1, <3>1 DEF FeedAdvances
  <2>3. ASSUME NEW b \in 0..feed PROVE moves[b] <= moves'[b]
    <3>1. b <= feed /\ b \in 0..barNow
      BY <1>1, SMT
    <3>2. moves'[b] = moves[b] /\ moves[b] \in 0..MaxMoves
      BY <1>1, <1>4, <3>1 DEF FeedAdvances
    <3> QED
      BY <3>2, SMT
  <2> QED
    BY <1>4, <2>1, <2>2, <2>3, ExchangeFrame DEF FeedAdvances
<1> QED
  BY <1>2, <1>3, <1>4

LEMMA CacheInvStep ==
  ASSUME CacheInv, [CacheNext]_cacheVars
  PROVE  CacheInv'
<1>1. CASE UNCHANGED cacheVars
  BY <1>1 DEF CacheInv, TableTyped, PhasesTyped, ThreadTyped, Progress, AskedRange, NoGap,
              cacheVars, market, thread
<1>2. ASSUME NEW w \in Fetchers, FetchStep(w) PROVE CacheInv'
  <2>1. ASSUME NEW kind \in Jobs, NEW S \in Asked(kind), FetchBars(w, kind, S)
        PROVE  CacheInv'
    BY <2>1, FetchBarsInv
  <2>2. CASE FetchFails(w) \/ InsertConflict(w) \/ LeaveSeries(w)
    BY <2>2, EndFetchInv DEF FetchFails, InsertConflict, LeaveSeries
  <2>3. CASE SelectExisting(w)
    BY <2>3, SelectExistingInv
  <2>4. CASE InsertNew(w)
    BY <2>4, InsertNewInv
  <2>5. CASE ReadBack(w)
    BY <2>5, ReadBackInv
  <2> QED
    BY <1>2, <2>1, <2>2, <2>3, <2>4, <2>5 DEF FetchStep
<1> QED
  BY <1>1, <1>2, ExchangeInv, ActOnPriceInv, PruneCandlesInv DEF CacheNext

\* The candle cache keeps its types: rows are of published bars and never ahead of the
\* exchange, and only the scheduler's thread acts on a price.
THEOREM CacheTypesHold == CacheSpec => []CacheTypeOK
<1>1. CacheInit => CacheInv
  BY CacheInitInv
<1>2. CacheInv /\ [CacheNext]_cacheVars => CacheInv'
  BY CacheInvStep
<1>3. CacheInv => CacheTypeOK
  BY CacheInvImplies
<1> QED
  BY <1>1, <1>2, <1>3, PTL DEF CacheSpec

\* However many charts, backtests and ticks refresh the table at once, and whichever of
\* them fail, are refused by the unique key or store only part of what is missing, the
\* rows one of them reads back have no hole up to the newest bar it asked for, unless
\* the retention job deleted rows in the meantime.
THEOREM NoGapEver == CacheSpec => []ReadsHaveNoGap
<1>1. CacheInit => CacheInv
  BY CacheInitInv
<1>2. CacheInv /\ [CacheNext]_cacheVars => CacheInv'
  BY CacheInvStep
<1>3. CacheInv => ReadsHaveNoGap
  BY CacheInvImplies
<1> QED
  BY <1>1, <1>2, <1>3, PTL DEF CacheSpec

----------------------------------------------------------------------------
\* The decision rules.

\* A tick that is carried out brings the engine to where the bars it sees put an
\* engine that missed none; before that, it is one tick behind.  Where those bars decide
\* as all do, that is where the backtest stands.
ReplayInv ==
  /\ ReplayTypeOK
  /\ closes # <<>> => windowed = PositionAfter(Seen(closes), windowed)
  /\ inStep /\ ~evaluated => closes # <<>> /\ windowed = PositionAfter(Seen(closes), held)
  /\ evaluated /\ inStep => held = windowed
  /\ SeesEnough => windowed = replayed

LEMMA PositionFacts ==
  ASSUME NEW cs, NEW long \in BOOLEAN
  PROVE  /\ PositionAfter(cs, long) \in BOOLEAN
         /\ PositionAfter(cs, PositionAfter(cs, long)) = PositionAfter(cs, long)
         /\ Decisive(cs) =>
              \A other \in BOOLEAN : PositionAfter(cs, other) = PositionAfter(cs, long)
BY DEF PositionAfter, Decisive

\* The newest n of the newest m bars are the newest n.
LEMMA LastOfLast ==
  ASSUME NEW S, NEW cs \in Seq(S), NEW m \in Nat \ {0}, NEW n \in Nat, n <= m, m <= Len(cs)
  PROVE  /\ Len(LastBars(cs, m)) = m
         /\ LastBars(LastBars(cs, m), n) = LastBars(cs, n)
         /\ Last(LastBars(cs, m)) = Last(cs)
<1> DEFINE l == Len(cs)  first == l - m + 1
<1>1. l \in Nat /\ first \in 1..l + 1 /\ first <= l
  BY LenProperties, SMT
<1>2. \A i \in first..l : cs[i] \in S
  <2>1. \A i \in first..l : i \in 1..l
    BY <1>1, SMT
  <2> QED
    BY <2>1, ElementOfSeq
<1>3. /\ Len(LastBars(cs, m)) = m
      /\ \A i \in 1..m : LastBars(cs, m)[i] = cs[first + i - 1]
  <2>1. first \in Int /\ l \in Int /\ l - first + 1 = m
    BY <1>1, SMT
  <2> HIDE DEF first, l
  <2>2. Len(SubSeq(cs, first, l)) = l - first + 1
        /\ \A i \in 1..l - first + 1 : SubSeq(cs, first, l)[i] = cs[first + i - 1]
    BY <1>1, <1>2, <2>1, SubSeqProperties
  <2> QED
    BY <2>1, <2>2 DEF LastBars, first, l
<1>4. LastBars(LastBars(cs, m), n) = LastBars(cs, n)
  <2>1. LastBars(LastBars(cs, m), n) = SubSeq(SubSeq(cs, first, l), m - n + 1, m)
    BY <1>3 DEF LastBars
  <2>2. /\ first \in 1..l + 1 /\ l \in first - 1..l /\ m - n + 1 \in 1..m + 1
        /\ m \in m - n..l - first + 1
    BY <1>1, SMT
  <2>3. first + (m - n + 1) - 1 = l - n + 1 /\ first + m - 1 = l
    BY <1>1, SMT
  <2> HIDE DEF first, l
  <2>4. SubSeq(SubSeq(cs, first, l), m - n + 1, m)
          = SubSeq(cs, first + (m - n + 1) - 1, first + m - 1)
    BY <1>1, <2>2, SubSeqOfSubSeq DEF l
  <2> QED
    BY <2>1, <2>3, <2>4 DEF LastBars, l
<1>5. Last(LastBars(cs, m)) = Last(cs)
  <2>1. first + m - 1 = l /\ m \in 1..m
    BY <1>1, SMT
  <2> QED
    BY <1>3, <2>1 DEF Last
<1> QED
  BY <1>3, <1>4, <1>5

\* What a tick sees leads to the position that the whole series leads to.
LEMMA SeenIsEnough ==
  ASSUME NEW cs \in Seq(Closes), strategy \in {"ma", "bollinger"} \/ Len(cs) <= Window
  PROVE  \A long : PositionAfter(Seen(cs), long) = PositionAfter(cs, long)
<1> USE PeriodsAssumption, SeriesAssumption, WindowAssumption
<1>1. Len(cs) \in Nat
  BY LenProperties
<1>2. CASE Len(cs) <= Window
  BY <1>2 DEF Seen
<1>3. CASE ~(Len(cs) <= Window)
  <2>1. Window <= Len(cs) /\ Seen(cs) = LastBars(cs, Window)
    BY <1>1, <1>3, SMT DEF Seen
  <2>2. \A n \in Nat : n <= Window => LastBars(Seen(cs), n) = LastBars(cs, n)
    BY <2>1, LastOfLast
  <2>3. Len(Seen(cs)) = Window /\ Last(Seen(cs)) = Last(cs)
    <3>1. Window \in Nat /\ Window <= Window
      BY SMT
    <3> QED
      BY <2>1, <3>1, LastOfLast
  <2>4. Fast \in Nat /\ Fast <= Window /\ Period \in Nat /\ Slow \in Nat
    BY SMT
  <2>5. CASE strategy = "ma"
    <3>1. SmaTimes(Seen(cs), Fast) = SmaTimes(cs, Fast) /\ SmaTimes(Seen(cs), Slow) = SmaTimes(cs, Slow)
      BY <2>2, <2>4 DEF SmaTimes
    <3>2. WantsLong(strategy, Seen(cs)) = WantsLong(strategy, cs)
      BY <2>5, <3>1 DEF WantsLong
    <3>3. WantsFlat(strategy, Seen(cs)) = WantsFlat(strategy, cs)
      BY <2>5, <3>2 DEF WantsFlat
    <3>4. Enough(Seen(cs)) /\ Enough(cs)
      BY <1>1, <2>1, <2>3, <2>4, <2>5, SMT DEF Enough, Needs
    <3> QED
      BY <3>2, <3>3, <3>4 DEF PositionAfter
  <2>6. CASE strategy = "bollinger"
    <3>1. /\ SmaTimes(Seen(cs), Period) = SmaTimes(cs, Period)
          /\ AboveMiddle(Seen(cs)) = AboveMiddle(cs)
      BY <2>2, <2>3, <2>4 DEF SmaTimes, AboveMiddle
    <3>2. VarianceTimes(Seen(cs)) = VarianceTimes(cs)
      BY <2>2, <2>4 DEF VarianceTimes
    <3>3. WantsLong(strategy, Seen(cs)) = WantsLong(strategy, cs)
      BY <2>6, <3>1, <3>2 DEF WantsLong, AboveUpper
    <3>4. WantsFlat(strategy, Seen(cs)) = WantsFlat(strategy, cs)
      BY <2>6, <3>1 DEF WantsFlat
    <3>5. Enough(Seen(cs)) /\ Enough(cs)
      BY <1>1, <2>1, <2>3, <2>4, <2>6, SMT DEF Enough, Needs
    <3> QED
      BY <3>3, <3>4, <3>5 DEF PositionAfter
  <2> QED
    BY <1>3, <2>5, <2>6
<1> QED
  BY <1>2, <1>3

LEMMA ReplayTypes ==
  ASSUME ReplayTypeOK, [ReplayNext]_replayVars
  PROVE  ReplayTypeOK'
<1> USE DEF ReplayTypeOK
<1>1. CASE UNCHANGED replayVars
  BY <1>1 DEF replayVars
<1>2. ASSUME NEW c \in Closes, BarArrives(c) PROVE ReplayTypeOK'
  <2>1. closes' = Append(closes, c) /\ Len(closes) < MaxBars /\ Len(closes) \in Nat
    BY <1>2, LenProperties DEF BarArrives
  <2>2. closes' \in Seq(Closes) /\ Len(closes') = Len(closes) + 1
    BY <2>1, AppendProperties
  <2>3. Len(closes') <= MaxBars
    BY <2>1, <2>2, SeriesAssumption, SMT
  <2>4. replayed' \in BOOLEAN /\ windowed' \in BOOLEAN /\ inStep' \in BOOLEAN
    BY <1>2, PositionFacts DEF BarArrives
  <2> QED
    BY <1>2, <2>2, <2>3, <2>4 DEF BarArrives
<1>3. CASE TickCarriedOut
  <2>1. held' \in BOOLEAN /\ inStep' \in BOOLEAN
    BY <1>3, PositionFacts DEF TickCarriedOut, Decisive
  <2> QED
    BY <1>3, <2>1 DEF TickCarriedOut
<1>4. CASE FlattenByHand
  BY <1>4 DEF FlattenByHand
<1> QED
  BY <1>1, <1>2, <1>3, <1>4 DEF ReplayNext

LEMMA ReplayStep == ReplayInv /\ [ReplayNext]_replayVars => ReplayInv'
<1> SUFFICES ASSUME ReplayInv, [ReplayNext]_replayVars PROVE ReplayInv'
  OBVIOUS
<1> USE DEF ReplayInv
<1>0. ReplayTypeOK /\ ReplayTypeOK'
  BY ReplayTypes
<1>1. CASE UNCHANGED replayVars
  BY <1>0, <1>1 DEF replayVars, PositionAfter, Enough, SeesEnough
<1>2. ASSUME NEW c \in Closes, BarArrives(c) PROVE ReplayInv'
  <2>1. /\ closes' = Append(closes, c) /\ strategy' = strategy /\ held' = held
        /\ replayed' = PositionAfter(closes', replayed)
        /\ windowed' = PositionAfter(Seen(closes'), windowed)
        /\ evaluated' = FALSE /\ inStep' = (inStep /\ evaluated)
    BY <1>2 DEF BarArrives
  <2>2. closes' \in Seq(Closes) /\ closes' # <<>> /\ Len(closes') = Len(closes) + 1
    BY <1>0, <2>1, AppendProperties DEF ReplayTypeOK
  <2>3. windowed' = PositionAfter(Seen(closes'), windowed')
    BY <1>0, <2>1, PositionFacts DEF ReplayTypeOK
  <2>4. ASSUME inStep' PROVE windowed' = PositionAfter(Seen(closes'), held')
    BY <2>1, <2>4
  <2>5. ASSUME SeesEnough' PROVE windowed' = replayed'
    <3>1. strategy \in {"ma", "bollinger"} \/ Len(closes') <= Window
      BY <2>1, <2>5 DEF SeesEnough
    <3>2. SeesEnough
      <4>1. Len(closes) \in Nat
        BY <1>0, LenProperties DEF ReplayTypeOK
      <4> QED
        BY <2>2, <3>1, <4>1, SeriesAssumption, SMT DEF SeesEnough
    <3>3. PositionAfter(Seen(closes'), windowed) = PositionAfter(closes', windowed)
      BY <2>2, <3>1, SeenIsEnough
    <3> QED
      BY <2>1, <3>2, <3>3
  <2>6. /\ (PositionAfter(Seen(closes), windowed))' = PositionAfter(Seen(closes'), windowed')
        /\ (PositionAfter(Seen(closes), held))' = PositionAfter(Seen(closes'), held')
    BY <2>1 DEF PositionAfter, Enough, Seen
  <2> HIDE DEF ReplayInv
  <2> QED
    BY <1>0, <2>1, <2>2, <2>3, <2>4, <2>5, <2>6 DEF ReplayInv
<1>3. CASE TickCarriedOut
  <2>1. /\ held' = PositionAfter(Seen(closes), held) /\ evaluated' = TRUE
        /\ inStep' = (inStep \/ Decisive(Seen(closes)))
        /\ strategy' = strategy /\ closes' = closes
        /\ replayed' = replayed /\ windowed' = windowed
        /\ closes # <<>>
    BY <1>3 DEF TickCarriedOut
  <2>2. (PositionAfter(Seen(closes), windowed))' = PositionAfter(Seen(closes), windowed)
    BY <2>1 DEF PositionAfter, Enough, Seen
  <2>3. ASSUME inStep' PROVE held' = windowed
    <3>1. CASE inStep /\ evaluated
      BY <2>1, <3>1
    <3>2. CASE inStep /\ ~evaluated
      BY <2>1, <3>2
    <3>3. CASE Decisive(Seen(closes))
      <4>1. PositionAfter(Seen(closes), held) = PositionAfter(Seen(closes), windowed)
        BY <1>0, <3>3, PositionFacts DEF ReplayTypeOK
      <4> QED
        BY <2>1, <4>1
    <3> QED
      BY <2>1, <2>3, <3>1, <3>2, <3>3
  <2>4. SeesEnough' <=> SeesEnough
    BY <2>1 DEF SeesEnough
  <2> HIDE DEF ReplayInv
  <2> QED
    BY <1>0, <2>1, <2>2, <2>3, <2>4 DEF ReplayInv
<1>4. CASE FlattenByHand
  <2>1. /\ held' = FALSE /\ evaluated' = FALSE /\ inStep' = FALSE
        /\ strategy' = strategy /\ closes' = closes
        /\ replayed' = replayed /\ windowed' = windowed
    BY <1>4 DEF FlattenByHand
  <2>2. /\ (PositionAfter(Seen(closes), windowed))' = PositionAfter(Seen(closes), windowed)
        /\ SeesEnough' <=> SeesEnough
    BY <2>1 DEF PositionAfter, Enough, Seen, SeesEnough
  <2> QED
    BY <1>0, <2>1, <2>2
<1> QED
  BY <1>1, <1>2, <1>3, <1>4 DEF ReplayNext

\* A tick carried out on a decisive bar brings the engine to the side of an engine that
\* missed no tick, whatever was missed, refused or closed by hand before, and every bar
\* that has a tick keeps it there, for every strategy, series, period and window; it is
\* the backtest's side while the strategy sees every bar it averages over.
THEOREM EngineConverges == ReplaySpec => []ConvergesToReplay
<1>1. ReplayInit => ReplayInv
  <2>1. <<>> \in Seq(Closes) /\ Len(<<>>) <= MaxBars
    BY SeriesAssumption, EmptySeq, SMT
  <2> QED
    BY <2>1 DEF ReplayInit, ReplayInv, ReplayTypeOK
<1>2. ReplayInv /\ [ReplayNext]_replayVars => ReplayInv'
  BY ReplayStep
<1>3. ReplayInv => ConvergesToReplay
  BY DEF ReplayInv, ConvergesToReplay
<1> QED
  BY <1>1, <1>2, <1>3, PTL DEF ReplaySpec

\* Both sides of the replay keep their types, whatever the ticks are given.
THEOREM ReplayTypesHold == ReplaySpec => []ReplayTypeOK
<1>1. ReplayInit => ReplayTypeOK
  <2>1. <<>> \in Seq(Closes) /\ Len(<<>>) <= MaxBars
    BY SeriesAssumption, EmptySeq, SMT
  <2> QED
    BY <2>1 DEF ReplayInit, ReplayTypeOK
<1> QED
  BY <1>1, ReplayTypes, PTL DEF ReplaySpec

----------------------------------------------------------------------------
\* The streams.

StreamDomains == StreamTypeOK /\ DOMAIN snapshot = Links

LEMMA DoubledStays ==
  ASSUME NEW d \in FirstDelay..MaxDelay
  PROVE  Doubled(d) \in FirstDelay..MaxDelay
BY StreamDelaysAssumption, SMT DEF Doubled

LEMMA StreamTypes ==
  ASSUME StreamDomains, [StreamNext]_streamVars
  PROVE  StreamDomains'
<1> USE DEF StreamDomains, StreamTypeOK, Managers, LinkStates
<1>0. FirstDelay \in FirstDelay..MaxDelay
  BY StreamDelaysAssumption, SMT
<1>1. CASE UNCHANGED streamVars
  BY <1>1 DEF streamVars
<1>2. CASE Weather
  BY <1>2 DEF Weather
<1>3. CASE StartStreams
  BY <1>3 DEF StartStreams
<1>4. CASE StopStreams
  BY <1>4 DEF StopStreams
<1>5. CASE StreamsStopped
  BY <1>5 DEF StreamsStopped
<1>6. ASSUME NEW s \in Links, QuoteMoves(s) PROVE StreamDomains'
  <2>1. quote[s] + 1 \in 1..MaxQuotes /\ 0..quote[s] \subseteq 0..quote[s] + 1
    BY <1>6, StreamQuotesAssumption, SMT DEF QuoteMoves
  <2> QED
    BY <1>6, <2>1 DEF QuoteMoves
<1>7. ASSUME NEW s \in Links, BeginRun(s) PROVE StreamDomains'
  BY <1>0, <1>7 DEF BeginRun
<1>8. ASSUME NEW s \in Links, Connected(s) PROVE StreamDomains'
  BY <1>0, <1>8 DEF Connected
<1>9. ASSUME NEW s \in Links, Receive(s) PROVE StreamDomains'
  <2>1. quote[s] \in 0..quote[s]
    BY StreamQuotesAssumption, SMT
  <2> QED
    BY <1>9, <2>1 DEF Receive
<1>10. ASSUME NEW s \in Links, Drop(s) PROVE StreamDomains'
  BY <1>10 DEF Drop
<1>11. ASSUME NEW s \in Links, Wake(s) PROVE StreamDomains'
  <2>1. Doubled(delay[s]) \in FirstDelay..MaxDelay
    BY DoubledStays
  <2> QED
    BY <1>11, <2>1 DEF Wake
<1>12. ASSUME NEW s \in Links, Cancelled(s) PROVE StreamDomains'
  BY <1>12 DEF Cancelled
<1> QED
  BY <1>1, <1>2, <1>3, <1>4, <1>5, <1>6, <1>7, <1>8, <1>9, <1>10, <1>11, <1>12
     DEF StreamNext, StreamStep

\* The backoff never leaves its limits, however often a stream is dropped, and no hub
\* is ahead of its market.
THEOREM StreamTypesHold == StreamSpec => []StreamTypeOK
<1>1. StreamInit => StreamDomains
  BY StreamDelaysAssumption, StreamQuotesAssumption, SMT
     DEF StreamInit, StreamDomains, StreamTypeOK, Managers, LinkStates
<1>2. StreamDomains => StreamTypeOK
  BY DEF StreamDomains
<1> QED
  BY <1>1, <1>2, StreamTypes, PTL DEF StreamSpec

----------------------------------------------------------------------------
\* The headlines.

LEMMA NewsTypes ==
  ASSUME NewsTypeOK, [NewsNext]_newsVars
  PROVE  NewsTypeOK'
<1> USE DEF NewsTypeOK
<1>1. CASE UNCHANGED newsVars
  BY <1>1 DEF newsVars
<1>2. ASSUME NEW f \in Feeds, FeedMoves(f) PROVE NewsTypeOK'
  BY <1>2 DEF FeedMoves
<1>3. ASSUME NEW r \in Refreshers, BeginRefresh(r) PROVE NewsTypeOK'
  BY <1>3 DEF BeginRefresh
<1>4. ASSUME NEW r \in Refreshers, EndRefresh(r), stored' \subseteq Urls PROVE NewsTypeOK'
  BY <1>4 DEF EndRefresh
<1>5. ASSUME NEW r \in Refreshers, CommitNews(r) PROVE NewsTypeOK'
  BY <1>4, <1>5 DEF CommitNews
<1>6. ASSUME NEW r \in Refreshers, NewsConflict(r) PROVE NewsTypeOK'
  BY <1>4, <1>6 DEF NewsConflict
<1>7. ASSUME NEW r \in Refreshers, NEW f \in Feeds, ReadFeed(r, f) PROVE NewsTypeOK'
  <2>1. r \in refreshing /\ fresh[r] \cup (wire[f] \ stored) \subseteq Urls
    BY <1>7 DEF ReadFeed
  <2> QED
    BY <1>7, <2>1 DEF ReadFeed
<1>8. ASSUME NEW r \in Refreshers, NEW f \in Feeds, FeedFails(r, f) PROVE NewsTypeOK'
  BY <1>8 DEF FeedFails
<1> QED
  BY <1>1, <1>2, <1>3, <1>5, <1>6, <1>7, <1>8 DEF NewsNext, RefreshStep

\* Only a refresh under way holds rows, however many overlap and fail.
THEOREM NewsTypesHold == NewsSpec => []NewsTypeOK
<1>1. NewsInit => NewsTypeOK
  BY DEF NewsInit, NewsTypeOK
<1> QED
  BY <1>1, NewsTypes, PTL DEF NewsSpec

----------------------------------------------------------------------------
\* The instance that puts them beside each other.

LEMMA MarketStep ==
  ASSUME [MarketNext]_marketVars
  PROVE  /\ [CacheNext]_cacheVars /\ [StreamNext]_streamVars /\ [VenueNext]_venueVars
         /\ [ReplayNext]_replayVars /\ [NewsNext]_newsVars
<1>1. CASE UNCHANGED marketVars
  BY <1>1 DEF marketVars
<1>2. CASE MarketNext
  BY <1>2 DEF MarketNext, VenueNext
<1> QED
  BY <1>1, <1>2

\* A behaviour of the instance is one of every component: what is proved of a component
\* holds of it beside the others.
THEOREM MarketIsItsParts ==
  MarketSpec => CacheSpec /\ StreamSpec /\ VenueSpec /\ ReplaySpec /\ NewsSpec
<1>1. MarketInit => CacheInit /\ StreamInit /\ VenueInit /\ ReplayInit /\ NewsInit
  BY DEF MarketInit
<1>2. [MarketNext]_marketVars =>
        /\ [CacheNext]_cacheVars /\ [StreamNext]_streamVars /\ [VenueNext]_venueVars
        /\ [ReplayNext]_replayVars /\ [NewsNext]_newsVars
  BY MarketStep
<1> QED
  BY <1>1, <1>2, PTL DEF MarketSpec, CacheSpec, StreamSpec, VenueSpec, ReplaySpec, NewsSpec

\* Every type invariant of the five, of the instance.
THEOREM MarketTypesHold == MarketSpec => []MarketTypeOK
<1>1. CacheTypeOK /\ StreamTypeOK /\ VenueTypeOK /\ ReplayTypeOK /\ NewsTypeOK => MarketTypeOK
  BY DEF MarketTypeOK
<1> QED
  BY <1>1, MarketIsItsParts, CacheTypesHold, StreamTypesHold, VenueTypesHold,
     ReplayTypesHold, NewsTypesHold, PTL
=============================================================================
