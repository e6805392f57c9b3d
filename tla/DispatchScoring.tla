-------------------------- MODULE DispatchScoring --------------------------
(***************************************************************************)
(* The arithmetic of dispatch-scoring.service.ts: the score of a driver,   *)
(* in hundredths of a point, from the driver's statistics.  The code works *)
(* on doubles and rounds to two decimals; the operators below keep exact   *)
(* fractions and round where the code does.                                *)
(***************************************************************************)
EXTENDS Integers

(* minimumScore of the thresholds no configuration overrides, in hundredths *)
MinimumScore == 5000

LOCAL AtLeastZero(n) == IF n < 0 THEN 0 ELSE n
LOCAL AtMost(n, top) == IF n > top THEN top ELSE n

(* Math.round of num / den, for num >= 0 *)
Rounded(num, den) == (2 * num + den) \div (2 * den)

(***************************************************************************)
(* The three factors.  Each is a fraction <<numerator, denominator>> of    *)
(* points between 0 and 100.  `s' is a driver_stats row.                   *)
(***************************************************************************)
CompletionRateScore(s) ==
    IF s.accepted = 0 THEN <<50, 1>>
    ELSE <<100 * AtMost(s.completed, s.accepted), s.accepted>>

(* five points for each minute to the pickup, ten for each hour in all *)
TimingScore(s) ==
    IF s.pickupSeconds = 0 \/ s.totalSeconds = 0 THEN <<70, 1>>
    ELSE <<30 * AtLeastZero(1200 - s.pickupSeconds) + AtLeastZero(36000 - s.totalSeconds), 720>>

QualityScore(s) ==
    IF s.accepted = 0 THEN <<80, 1>>
    ELSE <<100 * AtLeastZero(s.accepted - (s.failed + s.cancelled)), s.accepted>>

(* The weighted sum in hundredths, with the weights in tenths. *)
WeightedScore(c, t, q, w) ==
    Rounded(10 * (w.completion * c[1] * t[2] * q[2]
                  + w.timing * t[1] * c[2] * q[2]
                  + w.quality * q[1] * c[2] * t[2]),
            c[2] * t[2] * q[2])

Power(b, n) == LET p[k \in 0 .. n] == IF k = 0 THEN 1 ELSE b * p[k - 1] IN p[n]

(* 5% a day since the last delivery, for at most maxDecayDays days *)
ApplyScoreDecay(score, days) ==
    IF days = 0 THEN score
    ELSE LET d == AtMost(days, 30)
         IN  Rounded(score * Power(19, d), Power(20, d))

DefaultWeights == [completion |-> 4, timing |-> 3, quality |-> 3]

(* What calculateDispatchScore stores for a driver with the statistics s. *)
DispatchScoreOf(s) ==
    ApplyScoreDecay(WeightedScore(CompletionRateScore(s), TimingScore(s),
                                  QualityScore(s), DefaultWeights),
                    s.idleDays)
=============================================================================
