------------------------------- MODULE PriceTrend -------------------------------
(***************************************************************************)
(* The price trend that hastens the timeout of an order and widens its     *)
(* offset (src/strategies/target_quantities.py): the samples kept of the   *)
(* full ticks of one instrument, and what is computed from them.           *)
(*                                                                         *)
(* Times are seconds of a small clock.  Of the confirmation by the traded  *)
(* volume the sign is kept; what the imbalance of the book adds to it is   *)
(* any number (Book).                                                      *)
(***************************************************************************)
EXTENDS Integers, Sequences, SequencesExt, FiniteSetsExt

CONSTANTS
    Now,        \* the last second (bound)
    Prices,
    Volumes,    \* traded volumes, cumulated; NoVolume of a tick without one
    Window,     \* price_trend_window_secs
    Threshold,  \* price_trend_threshold_bps, here in whole prices
    Maximum     \* price_trend_max_bps

VARIABLES
    samples,    \* _price_trend_samples: [ts, price, volume]
    newest,     \* history: the last sample of each second, none (price 0) without one
    last        \* the latest second for which a tick has come

vars == <<samples, newest, last>>

NoVolume == -1
NoSample == [ts |-> 0, price |-> 0, volume |-> 0]

Init ==
    /\ samples = <<>> /\ last = 0
    /\ newest = [t \in 1 .. Now |-> NoSample]

-----------------------------------------------------------------------------
TrimmedWhole(s, cutoff) ==   \* mutant of Trimmed: nothing is kept at the window's far end
    SelectSeq(s, LAMBDA x : x.ts > cutoff)

\* The newest sample at or before the cutoff is the first one kept.
Trimmed(s, cutoff) ==
    LET old == {k \in DOMAIN s : s[k].ts <= cutoff}
    IN  IF old = {} THEN s ELSE SubSeq(s, Max(old), Len(s))

Appended(x) ==
    IF samples # <<>> /\ Last(samples).ts = x.ts THEN Append(Front(samples), x)
    ELSE Append(samples, x)

\* _record_price_trend_sample: a late tick is dropped, one of the same time replaces.
Tick(t, price, volume) ==
    LET x == [ts |-> t, price |-> price, volume |-> volume]
    IN  IF samples # <<>> /\ t < Last(samples).ts
          THEN UNCHANGED vars
          ELSE /\ samples' = Trimmed(Appended(x), t - Window)
               /\ newest' = [newest EXCEPT ![t] = x]
               /\ last' = t

\* _roll_trading_day
NewDay ==
    /\ samples' = <<>> /\ last' = 0
    /\ newest' = [t \in 1 .. Now |-> NoSample]

Next ==
    \/ \E t \in 1 .. Now, price \in Prices, volume \in Volumes : Tick(t, price, volume)
    \/ NewDay

Spec == Init /\ [][Next]_vars

-----------------------------------------------------------------------------
(* What is computed *)

Sign(x) == IF x > 0 THEN 1 ELSE IF x < 0 THEN -1 ELSE 0

Claimed == Len(samples) >= 2 /\ Last(samples).ts - samples[1].ts >= Window

Return == IF Claimed THEN Last(samples).price - samples[1].price ELSE 0

\* _volume_direction_confirmation: the volume that went with the trend, less what did not
Between(earlier, later) ==
    IF NoVolume \in {earlier.volume, later.volume} THEN 0
    ELSE Max({later.volume - earlier.volume, 0})
Traded(k) == Between(samples[k - 1], samples[k])
WithTrend(k) == Traded(k) * Sign(samples[k].price - samples[k - 1].price) * Sign(Return)
Confirmed == Sign(MapThenSumSet(WithTrend, 2 .. Len(samples)))

\* What the book adds to a confirmation; the two together are at most 1, here 2 halves.
Book(confirmed) == {b \in -2 .. 2 : confirmed + b \in -2 .. 2}

\* _execution_trend: how far an adverse move is beyond the threshold, up to the maximum, in
\* half prices, when it is as good as doubled by what confirms it, or cancelled.
Severity(side, move, confirmed, book) ==
    LET trend == Sign(move) * move * (2 + confirmed + book)
    IN  IF move = 0 \/ (side = "BUY" /\ move < 0) \/ (side = "SELL" /\ move > 0) THEN 0
        ELSE Max({0, Min({trend, 2 * Maximum}) - 2 * Threshold})

-----------------------------------------------------------------------------
(* Properties *)

\* Types of the samples: their times ascend, and the newest is the last tick taken.
TypeOK ==
    /\ \A k \in 1 .. Len(samples) - 1 : samples[k].ts < samples[k + 1].ts
    /\ samples # <<>> => Last(samples).ts = last

\* The move from the price at the window's far end to the last one, from the history of all
\* ticks: that price is of the newest tick that is as old as the window.
TrueReturn ==
    LET old == {t \in 1 .. Now : t <= last - Window /\ newest[t].price > 0}
    IN  IF old = {} THEN 0 ELSE newest[last].price - newest[Max(old)].price

\* The volume confirmation, from the same history
TrueConfirmation ==
    LET from  == Max({t \in 1 .. Now : t <= last - Window /\ newest[t].price > 0})
        times == {t \in from .. last : newest[t].price > 0}
        before(t) == newest[Max({u \in times : u < t})]
        part(t) == Between(before(t), newest[t])
                   * Sign(newest[t].price - before(t).price) * Sign(TrueReturn)
    IN  Sign(MapThenSumSet(part, times \ {from}))

\* "Keep the newest sample at or before the window boundary so endpoint return and the first
\* incremental-volume interval remain well-defined": whatever gaps, repeats and late ticks
\* there are, and ticks without a volume, the move and its confirmation are those of the whole
\* window, no less and no more, and orders of either side are hastened by as much.
TrendIsOfWindow ==
    /\ Return = TrueReturn
    /\ Return # 0 =>
        \A side \in {"BUY", "SELL"}, book \in Book(TrueConfirmation) :
            Severity(side, Return, Confirmed, book)
              = Severity(side, TrueReturn, TrueConfirmation, book)
===============================================================================
