------------------------------- MODULE Replay --------------------------------
(***************************************************************************)
(* One built-in strategy traded by the engine and replayed by a backtest   *)
(* over the same bars.                                                     *)
(*                                                                         *)
(* The backtest evaluates the strategy once per bar, from a flat start, on  *)
(* all the bars up to it.  The engine evaluates it at any number of ticks   *)
(* of a bar, none included, on the newest Window bars, its orders may be    *)
(* refused, and the operator may close the position.                       *)
(* The long-only strategies hold all of their budget or nothing, so a      *)
(* position is a Boolean.  Prices are multiples of Unit, which every       *)
(* division of an indicator divides.                                       *)
(***************************************************************************)
EXTENDS Integers, Sequences, SequencesExt

CONSTANTS
  Kinds,        \* the strategies: "ma", "macd", "rsi", "bollinger"
  Closes,       \* the prices a bar may close at
  Unit,         \* the divisor that keeps the averages whole
  Fast, Slow,   \* the periods of the two averages
  Signal,       \* the period of the MACD's signal line
  Period,       \* the period of the RSI and of the Bollinger bands
  Oversold, Overbought,  \* the RSI thresholds, of 100
  Deviations,   \* the Bollinger bands' width in standard deviations
  Window,       \* the newest bars a tick looks at: candle_limit
  MaxBars       \* bound: bars of the series

ASSUME PeriodsAssumption ==
  /\ Fast \in Nat \ {0} /\ Slow \in Nat /\ Fast < Slow
  /\ Signal \in Nat \ {0} /\ Period \in Nat \ {0} /\ Deviations \in Nat
ASSUME ThresholdsAssumption == 0 < Oversold /\ Oversold < Overbought /\ Overbought < 100
ASSUME SeriesAssumption ==
  /\ Unit \in Nat \ {0} /\ Closes \subseteq {Unit * n : n \in 1..100}
  /\ Window \in Nat \ {0} /\ MaxBars \in Nat
\* candle_limit is 200, the longest period of a built-in strategy 26.
ASSUME WindowAssumption == Slow <= Window /\ Period <= Window

VARIABLES
  strategy,    \* the strategy that runs
  closes,      \* the closes of the bars so far, oldest first
  replayed,    \* the backtest is long after the newest bar
  windowed,    \* so is an engine with one tick carried out at every bar: history
  held,        \* the engine is long
  evaluated,   \* a tick of the newest bar was carried out
  inStep       \* nothing has parted the two since they last agreed: history

replayVars == <<strategy, closes, replayed, windowed, held, evaluated, inStep>>

ReplayInit ==
  /\ strategy \in Kinds /\ closes = <<>>
  /\ replayed = FALSE /\ windowed = FALSE /\ held = FALSE
  /\ evaluated = TRUE /\ inStep = TRUE

----------------------------------------------------------------------------
\* The indicators, over the closes cs.

LastBars(cs, n) == SubSeq(cs, Len(cs) - n + 1, Len(cs))
SumOf(cs) == FoldLeft(LAMBDA total, c : total + c, 0, cs)

\* sma, times its period.
SmaTimes(cs, n) == SumOf(LastBars(cs, n))

\* ema_series: the first value at index n, the seed, is their simple average.
EmaSeries(cs, n) ==
  LET e[i \in n..Len(cs)] ==
        IF i = n THEN SumOf(SubSeq(cs, 1, n)) \div n
                 ELSE (2 * cs[i] + (n - 1) * e[i - 1]) \div (n + 1)
  IN [j \in 1..Len(cs) - n + 1 |-> e[j + n - 1]]

MacdLine(cs) ==
  LET fast == EmaSeries(cs, Fast)
      slow == EmaSeries(cs, Slow)
  IN [j \in 1..Len(slow) |-> fast[j + Slow - Fast] - slow[j]]

\* rsi: Wilder's averages of the moves selected by sign, both times the same power
\* of the period.
Smoothed(cs, sign) ==
  LET move(i) == LET d == sign * (cs[i + 1] - cs[i]) IN IF d > 0 THEN d ELSE 0
      s[i \in Period..Len(cs) - 1] ==
        IF i = Period THEN SumOf([j \in 1..Period |-> move(j)])
                      ELSE (Period - 1) * s[i - 1] + move(i) * Period^(i - Period)
  IN s[Len(cs) - 1]

RsiAtMost(cs, level) ==
  LET gain == Smoothed(cs, 1)
      loss == Smoothed(cs, -1)
  IN loss # 0 /\ 100 * gain <= level * (gain + loss)

RsiAtLeast(cs, level) ==
  LET gain == Smoothed(cs, 1)
      loss == Smoothed(cs, -1)
  IN loss = 0 \/ 100 * gain >= level * (gain + loss)

\* bollinger: how far the last close is above the middle band, times the period,
\* and the population variance, times its square.
AboveMiddle(cs) == Period * Last(cs) - SmaTimes(cs, Period)
VarianceTimes(cs) ==
  LET w == LastBars(cs, Period)
  IN Period * SumOf([i \in 1..Period |-> w[i] * w[i]]) - SumOf(w) * SumOf(w)

AboveUpper(cs) ==
  /\ AboveMiddle(cs) > 0
  /\ AboveMiddle(cs) * AboveMiddle(cs) > Deviations * Deviations * VarianceTimes(cs)

----------------------------------------------------------------------------
\* evaluate.

\* With less history the strategy does nothing.
Needs(kind) ==
  CASE kind = "ma" -> Slow
    [] kind = "macd" -> Slow + Signal
    [] kind = "rsi" -> Period + 1
    [] kind = "bollinger" -> Period

WantsLong(kind, cs) ==
  CASE kind = "ma" -> Slow * SmaTimes(cs, Fast) > Fast * SmaTimes(cs, Slow)
    [] kind = "macd" -> Last(MacdLine(cs)) > Last(EmaSeries(MacdLine(cs), Signal))
    [] kind = "rsi" -> RsiAtMost(cs, Oversold)
    [] kind = "bollinger" -> AboveUpper(cs)

WantsFlat(kind, cs) ==
  CASE kind \in {"ma", "macd"} -> ~WantsLong(kind, cs)
    [] kind = "rsi" -> RsiAtLeast(cs, Overbought)
    [] kind = "bollinger" -> AboveMiddle(cs) < 0

Enough(cs) == Len(cs) >= Needs(strategy)

CrossesIntoLong(cs, long) ==
  IF ~Enough(cs) THEN long
  ELSE IF WantsLong(strategy, cs)
         THEN long \/ ~Enough(Front(cs)) \/ ~WantsLong(strategy, Front(cs))
         ELSE long /\ ~WantsFlat(strategy, cs)

\* The position after the order is filled: bought with the budget when it should be
\* long and is not, sold when it should be flat and is long, kept in between.
PositionAfter(cs, long) ==
  IF ~Enough(cs) THEN long
  ELSE WantsLong(strategy, cs) \/ (long /\ ~WantsFlat(strategy, cs))

Decisive(cs) == Enough(cs) /\ (WantsLong(strategy, cs) \/ WantsFlat(strategy, cs))

----------------------------------------------------------------------------
\* What a tick is given: the newest candles.
Seen(cs) == IF Len(cs) <= Window THEN cs ELSE LastBars(cs, Window)

\* A bar is added, and replayed: run_backtest sees the bars up to it.  Going on to
\* the next bar before a tick of this one was carried out parts the engine from
\* both.
BarArrives(c) ==
  /\ Len(closes) < MaxBars
  /\ closes' = Append(closes, c)
  /\ replayed' = PositionAfter(closes', replayed)
  /\ windowed' = PositionAfter(Seen(closes'), windowed)
  /\ inStep' = (inStep /\ evaluated)
  /\ evaluated' = FALSE
  /\ UNCHANGED <<strategy, held>>

\* A tick evaluates the strategy, and what it orders is filled.
TickCarriedOut ==
  /\ closes # <<>>
  /\ held' = PositionAfter(Seen(closes), held)
  /\ evaluated' = TRUE
  /\ inStep' = (inStep \/ Decisive(Seen(closes)))
  /\ UNCHANGED <<strategy, closes, replayed, windowed>>

\* POST /strategies/{name}/close.
FlattenByHand ==
  /\ held
  /\ held' = FALSE /\ evaluated' = FALSE /\ inStep' = FALSE
  /\ UNCHANGED <<strategy, closes, replayed, windowed>>

ReplayNext ==
  \/ \E c \in Closes : BarArrives(c)
  \/ TickCarriedOut \/ FlattenByHand

ReplaySpec == ReplayInit /\ [][ReplayNext]_replayVars

----------------------------------------------------------------------------
\* Every variable stays in its domain.
ReplayTypeOK ==
  /\ strategy \in Kinds /\ closes \in Seq(Closes) /\ Len(closes) <= MaxBars
  /\ replayed \in BOOLEAN /\ windowed \in BOOLEAN /\ held \in BOOLEAN
  /\ evaluated \in BOOLEAN /\ inStep \in BOOLEAN

\* The strategies whose decision is made of the last few bars; of the others, every
\* bar since the first is in the average.
SeesEnough == strategy \in {"ma", "bollinger"} \/ Len(closes) <= Window

\* "State-based, so it converges to the desired position even after a missed tick"
\* (ma_cross.py, rsi.py, bollinger.py): a tick that is carried out on a decisive bar
\* brings the engine to the side of an engine that never missed one, whatever was
\* missed, refused or closed by hand before; and from then on it stays there, however
\* many ticks a bar has, as long as every bar has one.  That is the side of the
\* backtest, unless the strategy averages over bars that left the window.
ConvergesToReplay ==
  evaluated /\ inStep =>
    held = windowed /\ (SeesEnough => held = replayed)
=============================================================================
