---------------------------- MODULE KcpClockProofs ----------------------------
(***************************************************************************)
(* Theorems about KcpClock: how long a flush and a resend may be off, for  *)
(* every setting of the clock, the object and the poller.                  *)
(***************************************************************************)
EXTENDS KcpClock, TLAPS


-----------------------------------------------------------------------------
(***************************************************************************)
(* Arithmetic of a clock that wraps around.                                *)
(***************************************************************************)
HalfRange == TimeModulus \div 2

LEMMA Halves ==
    /\ TimeModulus \in Nat /\ HalfRange \in Nat /\ TimeModulus = 2 * HalfRange
    /\ BigSlap \in Nat \ {0} /\ 4 * BigSlap < HalfRange
    /\ MaxSegRto \in Nat /\ 4 * MaxSegRto < HalfRange
BY ClockAssumption DEF HalfRange

\* A remainder differs from its number by a multiple of the modulus.
LEMMA Remainder ==
    ASSUME NEW x \in Int
    PROVE  /\ x % TimeModulus \in 0..TimeModulus - 1
           /\ \E k \in Int : x % TimeModulus = x - TimeModulus * k
<1>1. TimeModulus \in Nat \ {0}
  BY Halves
<1>2. /\ x \div TimeModulus \in Int
      /\ x = TimeModulus * (x \div TimeModulus) + (x % TimeModulus)
      /\ x % TimeModulus \in 0..TimeModulus - 1
  BY <1>1
<1>3. x % TimeModulus = x - TimeModulus * (x \div TimeModulus)
  BY <1>1, <1>2
<1>. QED BY <1>2, <1>3, Zenon

LEMMA PlusType ==
    ASSUME NEW t \in Times, NEW d \in Int PROVE Plus(t, d) \in Times
BY Remainder, Halves DEF Plus, Times

\* Two differences that agree up to whole turns of the clock are equal.
LEMMA OneTurn ==
    ASSUME NEW x \in -HalfRange..HalfRange - 1, NEW y \in -HalfRange..HalfRange - 1,
           NEW k \in Int, x - y = TimeModulus * k
    PROVE  x = y
<1>1. TimeModulus \in Nat /\ HalfRange \in Nat /\ TimeModulus = 2 * HalfRange
  BY Halves
<1>2. k >= 1 => TimeModulus * k >= TimeModulus
  BY <1>1
<1>3. k <= -1 => TimeModulus * k <= -TimeModulus
  BY <1>1
<1>. QED BY <1>1, <1>2, <1>3

LEMMA DiffTurns ==
    ASSUME NEW a \in Times, NEW b \in Times
    PROVE  /\ Diff(a, b) \in -HalfRange..HalfRange - 1
           /\ \E k \in Int : Diff(a, b) = a - b - TimeModulus * k
<1>1. a - b + HalfRange \in Int /\ HalfRange \in Nat /\ TimeModulus = 2 * HalfRange
  BY Halves DEF Times
<1>2. Diff(a, b) = ((a - b + HalfRange) % TimeModulus) - HalfRange
  BY DEF Diff, HalfRange
<1>3. PICK x \in Int : x = a - b + HalfRange
  BY <1>1
<1>4. PICK k \in Int : x % TimeModulus = x - TimeModulus * k
  BY Remainder
<1>5. TimeModulus * k \in Int /\ a \in Int /\ b \in Int
  BY Halves DEF Times
<1>6. Diff(a, b) = a - b - TimeModulus * k
  BY <1>1, <1>2, <1>3, <1>4, <1>5
<1>7. Diff(a, b) \in -HalfRange..HalfRange - 1
  <2>1. x % TimeModulus \in 0..TimeModulus - 1
    BY Remainder
  <2>2. Diff(a, b) = (x % TimeModulus) - HalfRange
    BY <1>2, <1>3
  <2>. QED BY <1>1, <2>1, <2>2
<1>. QED BY <1>6, <1>7, Zenon

LEMMA DiffSelf == ASSUME NEW a \in Times PROVE Diff(a, a) = 0
<1>1. PICK k \in Int : Diff(a, a) = a - a - TimeModulus * k
  BY DiffTurns
<1>2. Diff(a, a) \in -HalfRange..HalfRange - 1
  BY DiffTurns
<1>3. TimeModulus * k \in Int /\ TimeModulus * (-k) = -(TimeModulus * k) /\ a \in Int
  BY Halves DEF Times
<1>4. Diff(a, a) - 0 = TimeModulus * (-k) /\ -k \in Int
  BY <1>1, <1>2, <1>3, Halves
<1>5. 0 \in -HalfRange..HalfRange - 1
  BY Halves
<1>. QED BY <1>2, <1>4, <1>5, OneTurn

LEMMA DiffSwap ==
    ASSUME NEW a \in Times, NEW b \in Times, Diff(a, b) # -HalfRange
    PROVE  Diff(b, a) = -Diff(a, b)
<1>1. PICK k \in Int : Diff(a, b) = a - b - TimeModulus * k
  BY DiffTurns
<1>2. PICK l \in Int : Diff(b, a) = b - a - TimeModulus * l
  BY DiffTurns
<1>3. Diff(a, b) \in -HalfRange..HalfRange - 1 /\ Diff(b, a) \in -HalfRange..HalfRange - 1
  BY DiffTurns
<1>4. /\ TimeModulus * k \in Int /\ TimeModulus * l \in Int /\ a \in Int /\ b \in Int
      /\ TimeModulus * (-l - k) = -(TimeModulus * l) - TimeModulus * k
  BY Halves DEF Times
<1>5. Diff(b, a) - (-Diff(a, b)) = TimeModulus * (-l - k) /\ -l - k \in Int
  BY <1>1, <1>2, <1>3, <1>4
<1>6. -Diff(a, b) \in -HalfRange..HalfRange - 1
  BY <1>3, Halves
<1>. QED BY <1>3, <1>5, <1>6, OneTurn

LEMMA PlusTurns ==
    ASSUME NEW t \in Times, NEW d \in Int
    PROVE  \E n \in Int : Plus(t, d) = t + d - TimeModulus * n
<1>1. PICK x \in Int : x = t + d
  BY Halves DEF Times
<1>2. PICK n \in Int : x % TimeModulus = x - TimeModulus * n
  BY Remainder
<1>3. Plus(t, d) = t + d - TimeModulus * n
  BY <1>1, <1>2, Halves DEF Plus, Times
<1>. QED BY <1>3, Zenon

\* A time that moves by d moves a difference by d while that stays in range.
LEMMA LaterPlus ==
    ASSUME NEW t \in Times, NEW u \in Times, NEW d \in Int,
           Diff(t, u) + d \in -HalfRange..HalfRange - 1
    PROVE  Diff(Plus(t, d), u) = Diff(t, u) + d
<1>1. PICK k \in Int : Diff(t, u) = t - u - TimeModulus * k
  BY DiffTurns
<1>2. PICK n \in Int : Plus(t, d) = t + d - TimeModulus * n
  BY PlusTurns
<1>3. Plus(t, d) \in Times
  BY PlusType
<1>4. PICK l \in Int : Diff(Plus(t, d), u) = Plus(t, d) - u - TimeModulus * l
  BY <1>3, DiffTurns
<1>5. Diff(Plus(t, d), u) \in -HalfRange..HalfRange - 1
  BY <1>3, DiffTurns
<1>6. /\ TimeModulus * k \in Int /\ TimeModulus * l \in Int /\ TimeModulus * n \in Int
      /\ t \in Int /\ u \in Int
      /\ TimeModulus * (k - n - l) = TimeModulus * k - TimeModulus * n - TimeModulus * l
  BY Halves DEF Times
<1>7. Diff(Plus(t, d), u) - (Diff(t, u) + d) = TimeModulus * (k - n - l) /\ k - n - l \in Int
  BY <1>1, <1>2, <1>4, <1>6
<1>. QED BY <1>5, <1>7, OneTurn

LEMMA EarlierPlus ==
    ASSUME NEW t \in Times, NEW u \in Times, NEW d \in Int,
           Diff(t, u) - d \in -HalfRange..HalfRange - 1
    PROVE  Diff(t, Plus(u, d)) = Diff(t, u) - d
<1>1. PICK k \in Int : Diff(t, u) = t - u - TimeModulus * k
  BY DiffTurns
<1>2. PICK n \in Int : Plus(u, d) = u + d - TimeModulus * n
  BY PlusTurns
<1>3. Plus(u, d) \in Times
  BY PlusType
<1>4. PICK l \in Int : Diff(t, Plus(u, d)) = t - Plus(u, d) - TimeModulus * l
  BY <1>3, DiffTurns
<1>5. Diff(t, Plus(u, d)) \in -HalfRange..HalfRange - 1
  BY <1>3, DiffTurns
<1>6. /\ TimeModulus * k \in Int /\ TimeModulus * l \in Int /\ TimeModulus * n \in Int
      /\ t \in Int /\ u \in Int
      /\ TimeModulus * (k + n - l) = TimeModulus * k + TimeModulus * n - TimeModulus * l
  BY Halves DEF Times
<1>7. Diff(t, Plus(u, d)) - (Diff(t, u) - d) = TimeModulus * (k + n - l) /\ k + n - l \in Int
  BY <1>1, <1>2, <1>4, <1>6
<1>. QED BY <1>5, <1>7, OneTurn

\* The greatest and the least of two and of three.
LEMMA MaxOfTwo ==
    ASSUME NEW a \in Int, NEW b \in Int
    PROVE  Max({a, b}) = IF a >= b THEN a ELSE b
BY DEF Max

LEMMA MinOfTwo ==
    ASSUME NEW a \in Int, NEW b \in Int
    PROVE  Min({a, b}) = IF a <= b THEN a ELSE b
BY DEF Min

LEMMA MaxOfThree ==
    ASSUME NEW a \in Int, NEW b \in Int, NEW c \in Int
    PROVE  /\ Max({a, b, c}) \in {a, b, c}
           /\ Max({a, b, c}) >= a /\ Max({a, b, c}) >= b /\ Max({a, b, c}) >= c
<1>1. \E x \in {a, b, c} : \A y \in {a, b, c} : x >= y
  OBVIOUS
<1>. QED BY <1>1 DEF Max

LEMMA MinOfThree ==
    ASSUME NEW a \in Int, NEW b \in Int, NEW c \in Int
    PROVE  /\ Min({a, b, c}) \in {a, b, c}
           /\ Min({a, b, c}) <= a /\ Min({a, b, c}) <= b /\ Min({a, b, c}) <= c
<1>1. \E x \in {a, b, c} : \A y \in {a, b, c} : x <= y
  OBVIOUS
<1>. QED BY <1>1 DEF Min

-----------------------------------------------------------------------------
(***************************************************************************)
(* The inductive invariant.                                                *)
(***************************************************************************)
\* The estimate is kept within its bounds, and a segment that is out has a
\* timeout that moves its resend time ahead.
RtoInv ==
    /\ rx_rto \in MinRto..MaxRto
    /\ resend # 0 => rto \in 1..MaxSegRto

\* What a clock that was set may have cost so far.
Slack == Interval + jumps * (BigSlap + LongestSleep)

\* When the poller wakes next is known, and so is the time to the next flush
\* unless the flush timer will be found too far ahead and be set anew.
CadenceInv ==
    /\ ~updated => idle = 0 /\ sleeping = 0
    /\ wait <= LongestSleep /\ sleeping <= LongestSleep
    /\ idle + sleeping <= Slack + LongestSleep
    /\ (updated /\ Diff(ts_flush, now) - sleeping <= BigSlap
         => idle + Diff(ts_flush, now) <= Slack)

\* A segment that is out was not due at the last flush, but for what the clock
\* was set by.
ResendInv ==
    InReach /\ resend # 0 =>
        /\ Diff(resend - 1, now) + idle >= 1 - SetBy
        /\ Diff(resend - 1, now) <= 2 * MaxSegRto + SetBy

ClockInv == TypeOK /\ RtoInv /\ CadenceInv /\ ResendInv

LEMMA ModeFacts ==
    ASSUME mode \in Modes
    PROVE  /\ Interval \in 1..BigSlap - 1
           /\ LongestSleep \in 1..BigSlap
           /\ Interval <= LongestSleep /\ MinWait <= LongestSleep
           /\ ClientWait <= LongestSleep
           /\ NoDelay \in BOOLEAN /\ mode.check \in BOOLEAN
<1>1. /\ Interval \in 1..BigSlap - 1
      /\ NoDelay \in BOOLEAN /\ mode.check \in BOOLEAN
  BY ClockAssumption DEF Interval, NoDelay
<1>2. /\ BigSlap \in Nat /\ MinWait \in 1..BigSlap /\ ClientWait \in 1..BigSlap
  BY ClockAssumption
<1>3. /\ LongestSleep \in {Interval, MinWait, ClientWait}
      /\ LongestSleep >= Interval /\ LongestSleep >= MinWait /\ LongestSleep >= ClientWait
  <2>1. Interval \in Int /\ MinWait \in Int /\ ClientWait \in Int
    BY <1>1, <1>2
  <2>. QED BY <2>1, MaxOfThree, Zenon DEF LongestSleep
<1>. QED BY <1>1, <1>2, <1>3

LEMMA RtoFacts ==
    /\ MinRto \in Nat \ {0} /\ MaxRto \in Nat /\ MaxSegRto \in Nat
    /\ MinRto <= MaxRto /\ MaxRto <= MaxSegRto
    /\ DefRto \in MinRto..MaxRto
BY ClockAssumption

\* Every bound on the delay grows with each time the clock is set.
LEMMA SlackFacts ==
    ASSUME TypeOK
    PROVE  /\ Slack \in Nat /\ Slack >= Interval
           /\ jumps = 0 => Slack = Interval
<1>1. /\ Interval \in Nat /\ LongestSleep \in Nat /\ BigSlap \in Nat
  BY ModeFacts, Halves DEF TypeOK
<1>2. jumps \in Nat
  BY ClockAssumption DEF TypeOK
<1>3. BigSlap + LongestSleep \in Nat
  BY <1>1
<1>4. jumps * (BigSlap + LongestSleep) \in Nat
  BY <1>2, <1>3
<1>5. jumps = 0 => jumps * (BigSlap + LongestSleep) = 0
  BY <1>2, <1>3
<1>. QED BY <1>1, <1>4, <1>5 DEF Slack

\* What the clock was set by grows as well, and as long as it is in reach it
\* leaves room for every difference.
LEMMA SetByFacts ==
    ASSUME TypeOK
    PROVE  /\ SetBy \in Nat /\ LongestIdle \in Nat
           /\ LongestIdle = Slack + LongestSleep
           /\ InReach => /\ LongestIdle + SetBy < HalfRange
                         /\ 2 * MaxSegRto + SetBy < HalfRange
<1>1. /\ Interval \in Nat /\ LongestSleep \in Nat /\ BigSlap \in Nat
  BY ModeFacts, Halves DEF TypeOK
<1>2. jumps \in Nat /\ MaxJump \in Nat
  BY ClockAssumption DEF TypeOK
<1>3. BigSlap + LongestSleep \in Nat
  BY <1>1
<1>4. jumps * (BigSlap + LongestSleep) \in Nat /\ jumps * MaxJump \in Nat
  BY <1>2, <1>3
<1>. QED BY <1>1, <1>4, Halves DEF Slack, SetBy, LongestIdle, InReach, HalfRange

LEMMA ClockInit == Init => ClockInv
<1>. SUFFICES ASSUME Init PROVE ClockInv
  OBVIOUS
<1>1. mode \in Modes
  BY DEF Init
<1>2. TypeOK
  <2>1. Interval \in Times
    BY <1>1, ModeFacts, Halves DEF Times
  <2>2. DefRto \in Nat /\ MaxJumps \in Nat /\ TimeModulus \in Nat
    BY ClockAssumption
  <2>3. /\ mode \in Modes /\ {now, ts_flush} \subseteq Times
        /\ resend \in 0..TimeModulus /\ jumps \in 0..MaxJumps
    BY <2>1, <2>2 DEF Init
  <2>5. updated \in BOOLEAN
    BY Zenon DEF Init
  <2>4. {rto, rx_srtt, rx_rttval, rx_rto, wait, sleeping, idle} \subseteq Nat
    BY <2>2 DEF Init
  <2>. QED BY <2>3, <2>4, <2>5, Zenon DEF TypeOK
<1>3. RtoInv
  BY RtoFacts DEF Init, RtoInv
<1>4. CadenceInv
  BY <1>1, <1>2, ModeFacts, SlackFacts DEF Init, CadenceInv
<1>5. ResendInv
  BY DEF Init, ResendInv
<1>. QED BY <1>2, <1>3, <1>4, <1>5 DEF ClockInv

-----------------------------------------------------------------------------
(***************************************************************************)
(* Poll.                                                                   *)
(***************************************************************************)
\* In reach, the time since the last flush fits the clock's range.
LEMMA IdleInReach ==
    ASSUME ClockInv, InReach
    PROVE  idle + SetBy < HalfRange
<1>1. idle + sleeping <= Slack + LongestSleep /\ idle \in Nat /\ sleeping \in Nat
  BY DEF ClockInv, CadenceInv, TypeOK
<1>2. /\ SetBy \in Nat /\ LongestIdle \in Nat /\ LongestIdle = Slack + LongestSleep
      /\ LongestIdle + SetBy < HalfRange
  BY SetByFacts DEF ClockInv
<1>. QED BY <1>1, <1>2, Halves

\* A flush that is not due yet has its timer ahead, within BigSlap.
LEMMA NotDue ==
    ASSUME ClockInv, ~UpdateFlushes
    PROVE  /\ updated /\ Slapped(ts_flush) = ts_flush
           /\ Diff(ts_flush, now) \in 1..BigSlap
<1>1. now \in Times /\ ts_flush \in Times /\ updated \in BOOLEAN
  BY DEF ClockInv, TypeOK
<1>2. Diff(now, now) = 0
  BY <1>1, DiffSelf
<1>3. updated /\ ~(Diff(now, Slapped(ts_flush)) >= 0)
  BY <1>1, <1>2 DEF UpdateFlushes
<1>4. /\ Slapped(ts_flush) = ts_flush
      /\ Diff(now, ts_flush) < BigSlap /\ Diff(now, ts_flush) >= -BigSlap
  <2>1. Diff(now, ts_flush) \in Int /\ BigSlap \in Nat
    BY <1>1, DiffTurns, Halves
  <2>. QED BY <1>2, <1>3, <2>1 DEF Slapped
<1>5. Diff(ts_flush, now) = -Diff(now, ts_flush)
  <2>1. Diff(now, ts_flush) # -HalfRange
    BY <1>1, <1>4, DiffTurns, Halves
  <2>. QED BY <1>1, <2>1, DiffSwap
<1>6. Diff(now, ts_flush) \in Int
  BY <1>1, DiffTurns, Halves
<1>. QED BY <1>3, <1>4, <1>5, <1>6, Halves

\* When flush is called, its timer is set at most an interval ahead.
LEMMA FlushTimer ==
    ASSUME ClockInv, UpdateFlushes, Update
    PROVE  /\ ts_flush' \in Times /\ idle' = 0 /\ updated'
           /\ Diff(ts_flush', now) \in 1..Interval
<1>1. now \in Times /\ ts_flush \in Times /\ updated \in BOOLEAN /\ mode \in Modes
  BY DEF ClockInv, TypeOK
<1>2. PICK ts : ts = IF updated THEN Slapped(ts_flush) ELSE now
  OBVIOUS
<1>3. ts \in Times /\ Diff(now, ts) \in 0..BigSlap
  <2>1. Diff(now, ts) >= 0
    BY <1>2 DEF UpdateFlushes
  <2>2. Diff(now, now) = 0 /\ Diff(now, ts_flush) \in Int /\ BigSlap \in Nat
    BY <1>1, DiffSelf, DiffTurns, Halves
  <2>. QED BY <1>1, <1>2, <2>1, <2>2 DEF Slapped
<1>4. ts_flush' = NextFlush(ts) /\ idle' = 0 /\ updated'
  BY <1>2 DEF Update
<1>5. Interval \in 1..BigSlap - 1 /\ Interval \in Int
  BY <1>1, ModeFacts, Halves
<1>6. Plus(now, Interval) \in Times /\ Plus(ts, Interval) \in Times
  BY <1>1, <1>3, <1>5, PlusType
<1>7. Diff(now, Plus(ts, Interval)) = Diff(now, ts) - Interval
  <2>1. Diff(now, ts) - Interval \in -HalfRange..HalfRange - 1
    BY <1>3, <1>5, Halves
  <2>. QED BY <1>1, <1>3, <1>5, <2>1, EarlierPlus
<1>8. CASE Diff(now, Plus(ts, Interval)) >= 0
  <2>1. ts_flush' = Plus(now, Interval)
    BY <1>4, <1>8 DEF NextFlush
  <2>2. Diff(now, now) = 0
    BY <1>1, DiffSelf
  <2>3. Diff(now, now) + Interval \in -HalfRange..HalfRange - 1
    BY <1>5, <2>2, Halves
  <2>4. Diff(Plus(now, Interval), now) = Diff(now, now) + Interval
    BY <1>1, <1>5, <2>3, LaterPlus
  <2>. QED BY <1>4, <1>5, <1>6, <2>1, <2>2, <2>4, Halves
<1>9. CASE ~(Diff(now, Plus(ts, Interval)) >= 0)
  <2>1. ts_flush' = Plus(ts, Interval)
    BY <1>4, <1>9 DEF NextFlush
  <2>2. Diff(now, Plus(ts, Interval)) \in -BigSlap..-1
    BY <1>3, <1>5, <1>7, <1>9, Halves
  <2>3. Diff(Plus(ts, Interval), now) = -Diff(now, Plus(ts, Interval))
    <3>1. Diff(now, Plus(ts, Interval)) # -HalfRange
      BY <2>2, Halves
    <3>. QED BY <1>1, <1>6, <3>1, DiffSwap
  <2>. QED BY <1>3, <1>4, <1>5, <1>6, <1>7, <2>1, <2>2, <2>3, Halves
<1>. QED BY <1>8, <1>9

\* A resend time set now lies ahead, by no more than a segment's timeout.
LEMMA Armed ==
    ASSUME NEW t \in Times, NEW d \in 1..2 * MaxSegRto
    PROVE  /\ Plus(t, d) \in Times
           /\ Diff(Plus(t, d), t) = d
<1>1. Diff(t, t) = 0
  BY DiffSelf
<1>2. d \in Int /\ Diff(t, t) + d \in -HalfRange..HalfRange - 1
  BY <1>1, Halves
<1>3. Diff(Plus(t, d), t) = Diff(t, t) + d
  BY <1>2, LaterPlus
<1>. QED BY <1>1, <1>2, <1>3, PlusType

\* A segment that is sent again has its resend time ahead.
LEMMA Rearmed ==
    ASSUME ClockInv, rto' \in 1..MaxSegRto, resend' = 1 + Plus(now, rto')
    PROVE  /\ resend' \in 0..TimeModulus /\ rto' \in Nat
           /\ resend' # 0 => rto' \in 1..MaxSegRto
           /\ InReach /\ resend' # 0 => Diff(resend' - 1, now) \in 1..2 * MaxSegRto + SetBy
<1>1. now \in Times /\ SetBy \in Nat
  BY SetByFacts DEF ClockInv, TypeOK
<1>2. rto' \in 1..2 * MaxSegRto
  BY RtoFacts
<1>3. Plus(now, rto') \in Times /\ Diff(Plus(now, rto'), now) = rto'
  BY <1>1, <1>2, Armed
<1>4. Plus(now, rto') \in Int /\ resend' - 1 = Plus(now, rto') /\ resend' \in 0..TimeModulus
  BY <1>3, Halves DEF Times
<1>. QED BY <1>1, <1>2, <1>3, <1>4, Halves

\* After a flush the oldest segment has its resend time ahead.
LEMMA FlushSegment ==
    ASSUME ClockInv, UpdateFlushes, Update
    PROVE  /\ resend' \in 0..TimeModulus /\ rto' \in Nat
           /\ resend' # 0 => rto' \in 1..MaxSegRto
           /\ InReach /\ resend' # 0 => Diff(resend' - 1, now) \in 1..2 * MaxSegRto + SetBy
<1>1. now \in Times /\ mode \in Modes /\ resend \in 0..TimeModulus /\ rto \in Nat
  BY DEF ClockInv, TypeOK
<1>2. rx_rto \in MinRto..MaxRto /\ (resend # 0 => rto \in 1..MaxSegRto)
  BY DEF ClockInv, RtoInv
<1>3. NoDelay \in BOOLEAN /\ SetBy \in Nat
  BY <1>1, ModeFacts, SetByFacts DEF ClockInv
<1>4. CASE FirstSend
  <2>1. PICK d : d = rto' + IF NoDelay THEN 0 ELSE rx_rto \div 8
    OBVIOUS
  <2>2. rto' = rx_rto /\ resend' = 1 + Plus(now, d)
    BY <1>4, <2>1 DEF FirstSend
  <2>3. d \in 1..2 * MaxSegRto /\ rto' \in 1..MaxSegRto
    BY <1>2, <1>3, <2>1, <2>2, RtoFacts
  <2>4. Plus(now, d) \in Times /\ Diff(Plus(now, d), now) = d
    BY <1>1, <2>3, Armed
  <2>5. Plus(now, d) \in Int /\ resend' - 1 = Plus(now, d) /\ resend' \in 0..TimeModulus
    BY <2>2, <2>4, Halves DEF Times
  <2>. QED BY <1>3, <2>3, <2>4, <2>5, Halves
<1>5. CASE Resend
  <2>1. PICK d : d = IF NoDelay THEN rx_rto \div 2 ELSE rx_rto
    OBVIOUS
  <2>2. /\ rto' = rto + d /\ rto' <= MaxSegRto /\ resend # 0
        /\ resend' = 1 + Plus(now, rto')
    BY <1>5, <2>1 DEF Resend
  <2>3. d \in Nat
    BY <1>2, <1>3, <2>1, RtoFacts
  <2>4. rto' \in 1..MaxSegRto
    BY <1>2, <2>2, <2>3, RtoFacts
  <2>. QED BY <2>2, <2>4, Rearmed
<1>7. CASE FastResend
  <2>1. rto' = rto /\ resend # 0 /\ resend' = 1 + Plus(now, rto)
    BY <1>7 DEF FastResend
  <2>2. rto' \in 1..MaxSegRto /\ resend' = 1 + Plus(now, rto')
    BY <1>2, <2>1
  <2>. QED BY <2>2, Rearmed
<1>6. CASE NothingToSend
  <2>1. resend' = resend /\ rto' = rto /\ (resend # 0 => Diff(now, resend - 1) < 0)
    BY <1>6 DEF NothingToSend, segVars
  <2>2. ASSUME InReach, resend # 0 PROVE Diff(resend - 1, now) \in 1..2 * MaxSegRto + SetBy
    <3>1. resend - 1 \in Times
      BY <1>1, <2>2, Halves DEF Times
    <3>2. Diff(resend - 1, now) <= 2 * MaxSegRto + SetBy
      BY <2>2 DEF ClockInv, ResendInv
    <3>3. Diff(resend - 1, now) \in -HalfRange..HalfRange - 1
      BY <1>1, <3>1, DiffTurns
    <3>4. Diff(resend - 1, now) + idle >= 1 - SetBy /\ idle \in Nat
      BY <2>2 DEF ClockInv, ResendInv, TypeOK
    <3>5. idle + SetBy < HalfRange
      BY <2>2, IdleInReach
    <3>6. Diff(resend - 1, now) # -HalfRange
      BY <1>3, <3>3, <3>4, <3>5, Halves
    <3>7. Diff(now, resend - 1) = -Diff(resend - 1, now)
      BY <1>1, <3>1, <3>6, DiffSwap
    <3>. QED BY <1>3, <2>1, <2>2, <3>2, <3>3, <3>7, Halves
  <2>. QED BY <1>1, <1>2, <2>1, <2>2
<1>. QED BY <1>4, <1>5, <1>6, <1>7 DEF Update

\* The server skips Update only when no flush is due.
LEMMA CheckFacts ==
    ASSUME ClockInv
    PROVE  /\ Check \in Int /\ Check <= Interval
           /\ Check # 0 => ~UpdateFlushes
<1>1. /\ now \in Times /\ ts_flush \in Times /\ updated \in BOOLEAN /\ mode \in Modes
      /\ resend \in 0..TimeModulus
  BY DEF ClockInv, TypeOK
<1>2. Interval \in 1..BigSlap - 1 /\ Interval \in Int
  BY <1>1, ModeFacts, Halves
<1>3. PICK ts : ts = Slapped(ts_flush)
  OBVIOUS
<1>4. PICK tm : tm = IF resend = 0 THEN Interval ELSE Diff(resend - 1, now)
  OBVIOUS
<1>5. ts \in Times
  BY <1>1, <1>3 DEF Slapped
<1>6. tm \in Int
  <2>1. ASSUME resend # 0 PROVE Diff(resend - 1, now) \in Int
    <3>1. resend - 1 \in Times
      BY <1>1, <2>1, Halves DEF Times
    <3>. QED BY <1>1, <3>1, DiffTurns, Halves
  <2>. QED BY <1>2, <1>4, <2>1
<1>7. Check = IF ~updated \/ Diff(now, ts) >= 0 \/ tm <= 0 THEN 0
              ELSE Min({Diff(ts, now), tm, Interval})
  BY <1>3, <1>4 DEF Check
<1>8. Diff(ts, now) \in Int /\ Diff(now, ts) \in Int
  BY <1>1, <1>5, DiffTurns, Halves
<1>9. /\ Min({Diff(ts, now), tm, Interval}) \in {Diff(ts, now), tm, Interval}
      /\ Min({Diff(ts, now), tm, Interval}) <= Interval
  BY <1>2, <1>6, <1>8, MinOfThree, Zenon
<1>10. Check \in Int /\ Check <= Interval
  BY <1>2, <1>6, <1>7, <1>8, <1>9
<1>11. Check # 0 => updated /\ ~(Diff(now, Slapped(ts_flush)) >= 0)
  BY <1>3, <1>7
<1>. QED BY <1>10, <1>11 DEF UpdateFlushes

\* A step of the poller flushes, or leaves all to a later one; either way it
\* sleeps no longer than the longest sleep.
LEMMA PollEffect ==
    ASSUME ClockInv, Poll
    PROVE  /\ sleeping = 0
           /\ wait' \in 0..LongestSleep /\ sleeping' \in 0..LongestSleep
           /\ now' = now /\ rtoVars' = rtoVars /\ jumps' = jumps
           /\ \/ UpdateFlushes /\ Update
              \/ /\ ~UpdateFlushes
                 /\ updated' = updated /\ ts_flush' = ts_flush
                 /\ segVars' = segVars /\ idle' = idle
<1>1. mode \in Modes /\ wait \in Nat
  BY DEF ClockInv, TypeOK
<1>2. /\ Interval \in Int /\ LongestSleep \in Nat
      /\ Interval <= LongestSleep
      /\ MinWait \in 1..LongestSleep /\ ClientWait \in 1..LongestSleep
  BY <1>1, ModeFacts, ClockAssumption
<1>3. sleeping = 0 /\ now' = now /\ rtoVars' = rtoVars /\ jumps' = jumps
  BY DEF Poll
<1>4. \/ ServerServe \/ ClientServe
  BY DEF Poll
<1>5. wait' \in 0..LongestSleep
  <2>1. CASE ServerServe
    <3>1. wait' = Max({Check, MinWait})
      BY <2>1 DEF ServerServe
    <3>2. Check \in Int /\ Check <= Interval
      BY CheckFacts
    <3>3. Max({Check, MinWait}) = IF Check >= MinWait THEN Check ELSE MinWait
      BY <1>2, <3>2, MaxOfTwo
    <3>. QED BY <1>2, <3>1, <3>2, <3>3
  <2>2. CASE ClientServe
    BY <1>2, <2>2 DEF ClientServe
  <2>. QED BY <1>4, <2>1, <2>2
<1>6. sleeping' \in 0..LongestSleep
  <2>1. PICK w \in {wait, wait'} : sleeping' = IF w > 0 THEN w ELSE ClientWait
    BY DEF Poll
  <2>2. wait \in 0..LongestSleep
    BY <1>1, <1>2 DEF ClockInv, CadenceInv
  <2>. QED BY <1>2, <1>5, <2>1, <2>2
<1>7. \/ Update
      \/ ~UpdateFlushes /\ UNCHANGED <<flushVars, segVars, idle>>
  BY <1>4, CheckFacts DEF ServerServe, ClientServe
<1>8. ASSUME Update, ~UpdateFlushes
      PROVE  /\ updated' = updated /\ ts_flush' = ts_flush
             /\ segVars' = segVars /\ idle' = idle
  BY <1>8, NotDue DEF Update
<1>. QED BY <1>3, <1>5, <1>6, <1>7, <1>8 DEF flushVars

LEMMA PollStep ==
    ASSUME ClockInv, Poll, mode' = mode PROVE ClockInv'
<1>. USE PollEffect
<1>1. /\ mode \in Modes /\ now \in Times /\ idle \in Nat /\ jumps \in 0..MaxJumps
      /\ rx_srtt \in Nat /\ rx_rttval \in Nat /\ rx_rto \in Nat
  BY DEF ClockInv, TypeOK
<1>2. /\ Interval \in Nat /\ LongestSleep \in Nat /\ Slack \in Nat
      /\ Interval <= Slack
  BY <1>1, ModeFacts, SlackFacts, Halves DEF ClockInv
<1>3. Interval' = Interval /\ LongestSleep' = LongestSleep /\ Slack' = Slack
  BY DEF Interval, LongestSleep, Slack
<1>9. /\ SetBy \in Nat /\ SetBy' = SetBy /\ InReach' = InReach
  BY SetByFacts DEF ClockInv, SetBy, InReach, LongestIdle, LongestSleep, Interval
<1>4. /\ now' = now /\ jumps' = jumps /\ sleeping = 0
      /\ rx_srtt' = rx_srtt /\ rx_rttval' = rx_rttval /\ rx_rto' = rx_rto
      /\ wait' \in 0..LongestSleep /\ sleeping' \in 0..LongestSleep
  BY DEF rtoVars
<1>5. ts_flush \in Times /\ updated \in BOOLEAN /\ resend \in 0..TimeModulus /\ rto \in Nat
  BY DEF ClockInv, TypeOK
<1>6. rx_rto \in MinRto..MaxRto /\ (resend # 0 => rto \in 1..MaxSegRto)
  BY DEF ClockInv, RtoInv
<1>. HIDE PollEffect
<1>7. CASE UpdateFlushes /\ Update
  <2>1. /\ ts_flush' \in Times /\ idle' = 0 /\ updated' = TRUE
        /\ Diff(ts_flush', now) \in 1..Interval
    BY <1>7, FlushTimer DEF Update
  <2>2. /\ resend' \in 0..TimeModulus /\ rto' \in Nat
        /\ resend' # 0 => rto' \in 1..MaxSegRto
        /\ InReach /\ resend' # 0 => Diff(resend' - 1, now) \in 1..2 * MaxSegRto + SetBy
    BY <1>7, FlushSegment
  <2>3. TypeOK'
    <3>1. {now', ts_flush'} \subseteq Times /\ mode' \in Modes /\ jumps' \in 0..MaxJumps
      BY <1>1, <1>4, <2>1
    <3>2. {rto', rx_srtt', rx_rttval', rx_rto', wait', sleeping', idle'} \subseteq Nat
      BY <1>1, <1>2, <1>4, <2>1, <2>2
    <3>. QED BY <2>1, <2>2, <3>1, <3>2 DEF TypeOK
  <2>4. RtoInv'
    BY <1>4, <1>6, <2>2 DEF RtoInv
  <2>5. CadenceInv'
    <3>1. updated'
      BY <2>1, Zenon
    <3>2. /\ wait' <= LongestSleep /\ sleeping' <= LongestSleep
          /\ idle' + sleeping' <= Slack + LongestSleep
          /\ idle' + Diff(ts_flush', now) <= Slack
      <4>1. wait' <= LongestSleep /\ sleeping' <= LongestSleep
        BY <1>2, <1>4
      <4>2. idle' + sleeping' <= Slack + LongestSleep
        <5>1. PICK s \in 0..LongestSleep : s = sleeping'
          BY <1>4
        <5>2. 0 + s <= Slack + LongestSleep
          BY <1>2
        <5>. QED BY <2>1, <5>1, <5>2, Zenon
      <4>3. idle' + Diff(ts_flush', now) <= Slack
        BY <1>2, <1>3, <1>4, <2>1
      <4>. QED BY <4>1, <4>2, <4>3
    <3>. QED BY <1>3, <1>4, <3>1, <3>2, Zenon DEF CadenceInv
  <2>6. ResendInv'
    BY <1>4, <1>9, <2>1, <2>2, RtoFacts DEF ResendInv
  <2>. QED BY <2>3, <2>4, <2>5, <2>6 DEF ClockInv
<1>8. CASE /\ ~UpdateFlushes
           /\ updated' = updated /\ ts_flush' = ts_flush
           /\ segVars' = segVars /\ idle' = idle
  <2>1. updated /\ Diff(ts_flush, now) \in 1..BigSlap
    BY <1>8, NotDue
  <2>2. resend' = resend /\ rto' = rto
    BY <1>8 DEF segVars
  <2>3. TypeOK'
    <3>1. {now', ts_flush'} \subseteq Times /\ mode' \in Modes /\ jumps' \in 0..MaxJumps
      BY <1>1, <1>4, <1>5, <1>8
    <3>2. {rto', rx_srtt', rx_rttval', rx_rto', wait', sleeping', idle'} \subseteq Nat
      BY <1>1, <1>2, <1>4, <1>5, <1>8, <2>2
    <3>. QED BY <1>5, <1>8, <2>2, <3>1, <3>2 DEF TypeOK
  <2>4. RtoInv'
    BY <1>4, <1>6, <2>2 DEF RtoInv
  <2>5. CadenceInv'
    <3>1. idle + Diff(ts_flush, now) <= Slack
      BY <1>4, <2>1, Halves DEF ClockInv, CadenceInv
    <3>2. idle <= Slack
      BY <1>1, <1>2, <2>1, <3>1, Halves
    <3>3. updated' /\ ts_flush' = ts_flush /\ idle' = idle
      BY <1>8, <2>1, Zenon
    <3>4. /\ wait' <= LongestSleep /\ sleeping' <= LongestSleep
          /\ idle' + sleeping' <= Slack + LongestSleep
          /\ idle' + Diff(ts_flush', now) <= Slack
      <4>1. wait' <= LongestSleep /\ sleeping' <= LongestSleep
        BY <1>2, <1>4
      <4>2. idle' + sleeping' <= Slack + LongestSleep
        <5>1. PICK s \in 0..LongestSleep : s = sleeping'
          BY <1>4
        <5>2. idle + s <= Slack + LongestSleep
          BY <1>1, <1>2, <3>2
        <5>. QED BY <3>3, <5>1, <5>2, Zenon
      <4>3. idle' + Diff(ts_flush', now) <= Slack
        BY <1>1, <1>2, <1>3, <1>4, <3>1, <3>2, <3>3
      <4>. QED BY <4>1, <4>2, <4>3
    <3>. QED BY <1>3, <1>4, <3>3, <3>4, Zenon DEF CadenceInv
  <2>6. ResendInv'
    BY <1>4, <1>8, <1>9, <2>2 DEF ResendInv, ClockInv
  <2>. QED BY <2>3, <2>4, <2>5, <2>6 DEF ClockInv
<1>. QED BY <1>7, <1>8, PollEffect

-----------------------------------------------------------------------------
(***************************************************************************)
(* Time, the clock and the estimator.                                      *)
(***************************************************************************)
LEMMA TickStep ==
    ASSUME ClockInv, Tick, mode' = mode PROVE ClockInv'
<1>1. /\ mode \in Modes /\ now \in Times /\ ts_flush \in Times
      /\ idle \in Nat /\ sleeping \in Nat /\ jumps \in 0..MaxJumps
      /\ resend \in 0..TimeModulus
  BY DEF ClockInv, TypeOK
<1>2. /\ Interval \in 1..BigSlap - 1 /\ LongestSleep \in 1..BigSlap
      /\ Slack \in Nat /\ (jumps = 0 => Slack = Interval)
  BY <1>1, ModeFacts, SlackFacts DEF ClockInv
<1>3. Interval' = Interval /\ LongestSleep' = LongestSleep /\ Slack' = Slack
  BY DEF Interval, LongestSleep, Slack, Tick
<1>12. SetBy \in Nat /\ SetBy' = SetBy /\ InReach' = InReach
  BY SetByFacts DEF ClockInv, SetBy, InReach, LongestIdle, LongestSleep, Interval, Tick
<1>4. /\ sleeping > 0 /\ now' = Plus(now, 1) /\ sleeping' = sleeping - 1
      /\ idle' = idle + 1
      /\ updated' = updated /\ ts_flush' = ts_flush /\ resend' = resend /\ rto' = rto
      /\ rx_srtt' = rx_srtt /\ rx_rttval' = rx_rttval /\ rx_rto' = rx_rto
      /\ wait' = wait /\ jumps' = jumps
  BY DEF Tick, flushVars, segVars, rtoVars
<1>5. now' \in Times
  BY <1>1, <1>4, PlusType
<1>6. idle + sleeping <= Slack + LongestSleep /\ sleeping <= LongestSleep /\ updated
  BY <1>4 DEF ClockInv, CadenceInv, TypeOK
<1>7. \A t \in Times : Diff(t, now) # -HalfRange => Diff(t, now') = Diff(t, now) - 1
  <2>. SUFFICES ASSUME NEW t \in Times, Diff(t, now) # -HalfRange
                PROVE  Diff(t, Plus(now, 1)) = Diff(t, now) - 1
    BY <1>4
  <2>1. Diff(t, now) \in -HalfRange..HalfRange - 1
    BY <1>1, DiffTurns
  <2>2. Diff(t, now) - 1 \in -HalfRange..HalfRange - 1
    BY <2>1, Halves
  <2>. QED BY <1>1, <2>2, EarlierPlus
<1>8. TypeOK'
  <2>1. {now', ts_flush'} \subseteq Times
    BY <1>1, <1>4, <1>5
  <2>2. {rto', rx_srtt', rx_rttval', rx_rto', wait', sleeping', idle'} \subseteq Nat
    BY <1>1, <1>4 DEF ClockInv, TypeOK
  <2>3. resend' \in 0..TimeModulus /\ updated' \in BOOLEAN /\ jumps' \in 0..MaxJumps
    BY <1>4 DEF ClockInv, TypeOK
  <2>. QED BY <1>1, <2>1, <2>2, <2>3 DEF TypeOK
<1>9. RtoInv'
  BY <1>4 DEF RtoInv, ClockInv
<1>10. CadenceInv'
  <2>1. ASSUME Diff(ts_flush, now') - sleeping' <= BigSlap
        PROVE  idle' + Diff(ts_flush, now') <= Slack
    <3>1. Diff(ts_flush, now) \in -HalfRange..HalfRange - 1
      BY <1>1, DiffTurns
    <3>2. Diff(ts_flush, now) # -HalfRange
      <4>1. SUFFICES ASSUME Diff(ts_flush, now) = -HalfRange PROVE FALSE
        OBVIOUS
      <4>2. Diff(ts_flush, now') = HalfRange - 1
        <5>1. PICK k \in Int : Diff(ts_flush, now) = ts_flush - now - TimeModulus * k
          BY <1>1, DiffTurns
        <5>2. PICK l \in Int : Diff(ts_flush, now') = ts_flush - now' - TimeModulus * l
          BY <1>1, <1>5, DiffTurns
        <5>3. PICK n \in Int : now' = now + 1 - TimeModulus * n
          BY <1>1, <1>4, PlusTurns
        <5>4. Diff(ts_flush, now') \in -HalfRange..HalfRange - 1
          BY <1>1, <1>5, DiffTurns
        <5>5. /\ TimeModulus * k \in Int /\ TimeModulus * l \in Int /\ TimeModulus * n \in Int
              /\ ts_flush \in Int /\ now \in Int
              /\ TimeModulus * (k + n - l - 1)
                   = TimeModulus * k + TimeModulus * n - TimeModulus * l - TimeModulus
          BY <1>1, Halves DEF Times
        <5>6. /\ Diff(ts_flush, now') - (HalfRange - 1) = TimeModulus * (k + n - l - 1)
              /\ k + n - l - 1 \in Int
          BY <4>1, <5>1, <5>2, <5>3, <5>5, Halves
        <5>7. HalfRange - 1 \in -HalfRange..HalfRange - 1
          BY Halves
        <5>. QED BY <5>4, <5>6, <5>7, OneTurn
      <4>. QED BY <1>1, <1>2, <1>4, <1>6, <2>1, <4>2, Halves
    <3>3. Diff(ts_flush, now') = Diff(ts_flush, now) - 1
      BY <1>1, <1>7, <3>2
    <3>4. Diff(ts_flush, now) - sleeping <= BigSlap
      BY <1>1, <1>4, <2>1, <3>1, <3>3, Halves
    <3>5. idle + Diff(ts_flush, now) <= Slack
      BY <1>6, <3>4 DEF ClockInv, CadenceInv
    <3>. QED BY <1>1, <1>2, <1>4, <3>1, <3>3, <3>5, Halves
  <2>2. wait' <= LongestSleep
    BY <1>4 DEF ClockInv, CadenceInv
  <2>. QED BY <1>1, <1>2, <1>3, <1>4, <1>6, <2>1, <2>2 DEF CadenceInv
<1>11. ResendInv'
  <2>. SUFFICES ASSUME InReach, resend # 0
                PROVE  /\ Diff(resend - 1, now') + idle' >= 1 - SetBy
                       /\ Diff(resend - 1, now') <= 2 * MaxSegRto + SetBy
    BY <1>4, <1>12 DEF ResendInv
  <2>1. resend - 1 \in Times
    BY <1>1, Halves DEF Times
  <2>2. /\ Diff(resend - 1, now) + idle >= 1 - SetBy
        /\ Diff(resend - 1, now) <= 2 * MaxSegRto + SetBy
    BY DEF ClockInv, ResendInv
  <2>3. Diff(resend - 1, now) \in -HalfRange..HalfRange - 1
    BY <1>1, <2>1, DiffTurns
  <2>4. idle + SetBy < HalfRange
    BY IdleInReach
  <2>5. Diff(resend - 1, now) # -HalfRange
    BY <1>1, <1>12, <2>2, <2>3, <2>4, Halves
  <2>6. Diff(resend - 1, now') = Diff(resend - 1, now) - 1
    BY <1>7, <2>1, <2>5
  <2>. QED BY <1>1, <1>4, <1>12, <2>2, <2>3, <2>6, Halves
<1>. QED BY <1>8, <1>9, <1>10, <1>11 DEF ClockInv

LEMMA JumpStep ==
    ASSUME ClockInv, Jump, mode' = mode PROVE ClockInv'
<1>1. /\ mode \in Modes /\ now \in Times /\ ts_flush \in Times
      /\ idle \in Nat /\ sleeping \in Nat /\ jumps \in Nat
  BY ClockAssumption DEF ClockInv, TypeOK
<1>2. /\ Interval \in 1..BigSlap - 1 /\ LongestSleep \in 1..BigSlap /\ Slack \in Nat
  BY <1>1, ModeFacts, SlackFacts DEF ClockInv
<1>3. Interval' = Interval /\ LongestSleep' = LongestSleep
  BY DEF Interval, LongestSleep
<1>4. /\ jumps < MaxJumps /\ jumps' = jumps + 1 /\ sleeping' = sleeping /\ idle' = idle
      /\ ts_flush' = ts_flush /\ resend' = resend /\ rto' = rto
      /\ rx_srtt' = rx_srtt /\ rx_rttval' = rx_rttval /\ rx_rto' = rx_rto
      /\ wait' = wait
  BY DEF Jump, flushVars, segVars, rtoVars
<1>5. updated' = updated
  BY DEF Jump, flushVars
<1>6. now' \in Times
  <2>1. PICK j \in Jumps : now' = Plus(now, j)
    BY DEF Jump
  <2>2. j \in Int
    BY ClockAssumption
  <2>. QED BY <1>1, <2>1, <2>2, PlusType
<1>7. Slack' = Slack + BigSlap + LongestSleep
  <2>1. BigSlap + LongestSleep \in Nat
    BY <1>2, Halves
  <2>2. (jumps + 1) * (BigSlap + LongestSleep)
          = jumps * (BigSlap + LongestSleep) + (BigSlap + LongestSleep)
    BY <1>1, <2>1
  <2>3. jumps * (BigSlap + LongestSleep) \in Nat
    BY <1>1, <2>1
  <2>. QED BY <1>2, <1>3, <1>4, <2>1, <2>2, <2>3, Halves DEF Slack
<1>8. TypeOK'
  <2>1. {now', ts_flush'} \subseteq Times
    BY <1>1, <1>4, <1>6
  <2>2. {rto', rx_srtt', rx_rttval', rx_rto', wait', sleeping', idle'} \subseteq Nat
    BY <1>4 DEF ClockInv, TypeOK
  <2>3. resend' \in 0..TimeModulus /\ jumps' \in 0..MaxJumps
    BY <1>1, <1>4, ClockAssumption DEF ClockInv, TypeOK
  <2>4. updated' \in BOOLEAN
    BY <1>5 DEF ClockInv, TypeOK
  <2>. QED BY <1>1, <2>1, <2>2, <2>3, <2>4, Zenon DEF TypeOK
<1>9. RtoInv'
  BY <1>4 DEF RtoInv, ClockInv
<1>10. CadenceInv'
  <2>1. idle + sleeping <= Slack + LongestSleep
    BY DEF ClockInv, CadenceInv
  <2>2. ~updated' => idle' = 0 /\ sleeping' = 0
    BY <1>4, <1>5 DEF ClockInv, CadenceInv
  <2>3. wait' <= LongestSleep' /\ sleeping' <= LongestSleep'
    BY <1>3, <1>4 DEF ClockInv, CadenceInv
  <2>4. idle' + sleeping' <= Slack' + LongestSleep'
    BY <1>1, <1>2, <1>3, <1>4, <1>7, <2>1, Halves
  <2>5. Diff(ts_flush', now') - sleeping' <= BigSlap
          => idle' + Diff(ts_flush', now') <= Slack'
    <3>1. Diff(ts_flush', now') \in -HalfRange..HalfRange - 1
      BY <1>1, <1>4, <1>6, DiffTurns
    <3>. QED BY <1>1, <1>2, <1>4, <1>7, <2>1, <3>1, Halves
  <2>. QED BY <2>2, <2>3, <2>4, <2>5 DEF CadenceInv
<1>11. ResendInv'
  <2>1. PICK j \in Int : now' = Plus(now, j) /\ -MaxJump <= j /\ j <= MaxJump
    BY ClockAssumption DEF Jump
  <2>2. MaxJump \in Nat /\ MaxSegRto \in Nat /\ SetBy \in Nat /\ SetBy' = SetBy + MaxJump
    <3>1. MaxJump \in Nat /\ (jumps + 1) * MaxJump = jumps * MaxJump + MaxJump
      BY <1>1, ClockAssumption
    <3>. QED BY <1>4, <3>1, SetByFacts, Halves DEF ClockInv, SetBy
  <2>3. LongestIdle \in Nat /\ LongestIdle' \in Nat /\ LongestIdle <= LongestIdle'
    <3>1. LongestIdle' = Slack' + LongestSleep'
      <4>1. jumps' \in Nat /\ BigSlap + LongestSleep \in Nat
        BY <1>1, <1>2, <1>4, Halves
      <4>2. jumps' * (BigSlap + LongestSleep) \in Nat
        BY <4>1
      <4>3. /\ LongestIdle' = Interval + LongestSleep + jumps' * (BigSlap + LongestSleep)
            /\ Slack' = Interval + jumps' * (BigSlap + LongestSleep)
        BY <1>3 DEF LongestIdle, Slack
      <4>. QED BY <1>2, <1>3, <4>2, <4>3, Halves
    <3>. QED BY <1>2, <1>3, <1>7, <3>1, SetByFacts, Halves DEF ClockInv
  <2>4. ASSUME InReach'
        PROVE  /\ LongestIdle' + SetBy' < HalfRange
               /\ 2 * MaxSegRto + SetBy' < HalfRange
    BY <2>4 DEF InReach, HalfRange
  <2>5. ASSUME InReach' PROVE InReach
    <3>1. HalfRange \in Nat
      BY Halves
    <3>2. PICK set \in Nat, long \in Nat : set = SetBy' /\ long = LongestIdle'
      BY <2>2, <2>3
    <3>3. long + set < HalfRange /\ 2 * MaxSegRto + set < HalfRange
      BY <2>4, <2>5, <3>2
    <3>4. SetBy <= set /\ LongestIdle <= long
      BY <2>2, <2>3, <3>2
    <3>5. LongestIdle + SetBy < HalfRange /\ 2 * MaxSegRto + SetBy < HalfRange
      BY <2>2, <2>3, <3>1, <3>3, <3>4
    <3>. QED BY <3>5 DEF InReach, HalfRange
  <2>. SUFFICES ASSUME InReach', resend # 0
                PROVE  /\ Diff(resend - 1, now') + idle >= 1 - SetBy'
                       /\ Diff(resend - 1, now') <= 2 * MaxSegRto + SetBy'
    BY <1>4 DEF ResendInv
  <2>6. resend - 1 \in Times
    BY Halves DEF Times, ClockInv, TypeOK
  <2>7. /\ Diff(resend - 1, now) + idle >= 1 - SetBy
        /\ Diff(resend - 1, now) <= 2 * MaxSegRto + SetBy
    BY <2>5 DEF ClockInv, ResendInv
  <2>8. Diff(resend - 1, now) \in -HalfRange..HalfRange - 1
    BY <1>1, <2>6, DiffTurns
  <2>9. idle <= LongestIdle
    <3>1. idle + sleeping <= Slack + LongestSleep /\ LongestIdle = Slack + LongestSleep
      BY SetByFacts DEF ClockInv, CadenceInv
    <3>. QED BY <1>1, <1>2, <2>3, <3>1, Halves
  <2>10. Diff(resend - 1, now) - j \in -HalfRange..HalfRange - 1
    <3>1. /\ LongestIdle' + SetBy' < HalfRange /\ 2 * MaxSegRto + SetBy' < HalfRange
      BY <2>4
    <3>2. PICK d \in Int : d = Diff(resend - 1, now)
      BY <2>8, Halves
    <3>3. PICK set \in Nat, long \in Nat : set = SetBy' /\ long = LongestIdle'
      BY <2>2, <2>3
    <3>4. d - j >= 1 - set - long /\ d - j <= 2 * MaxSegRto + set
      <4>1. set = SetBy + MaxJump /\ idle <= long
        BY <1>1, <2>2, <2>3, <2>9, <3>3
      <4>. QED BY <1>1, <2>1, <2>2, <2>7, <3>2, <3>3, <4>1
    <3>5. long + set < HalfRange /\ 2 * MaxSegRto + set < HalfRange
      BY <3>1, <3>3
    <3>6. d - j \in -HalfRange..HalfRange - 1
      BY <2>1, <2>2, <3>2, <3>4, <3>5, Halves
    <3>. QED BY <3>2, <3>6
  <2>11. Diff(resend - 1, now') = Diff(resend - 1, now) - j
    BY <1>1, <2>1, <2>6, <2>10, EarlierPlus
  <2>. QED BY <1>1, <2>1, <2>2, <2>7, <2>8, <2>11, Halves
<1>. QED BY <1>8, <1>9, <1>10, <1>11 DEF ClockInv

\* The estimate stays in its bounds.
LEMMA UpdateAckFacts ==
    ASSUME ClockInv, NEW rtt \in 0..MaxRtt, UpdateAck(rtt)
    PROVE  rx_srtt' \in Nat /\ rx_rttval' \in Nat /\ rx_rto' \in MinRto..MaxRto
<1>1. /\ rx_srtt \in Nat /\ rx_rttval \in Nat /\ rtt \in Nat
  BY ClockAssumption DEF ClockInv, TypeOK
<1>3. PICK delta : delta = Max({rtt - rx_srtt, rx_srtt - rtt})
  OBVIOUS
<1>4. delta \in Nat
  <2>1. rtt - rx_srtt \in Int /\ rx_srtt - rtt \in Int
    BY <1>1
  <2>2. delta = IF rtt - rx_srtt >= rx_srtt - rtt THEN rtt - rx_srtt ELSE rx_srtt - rtt
    BY <1>3, <2>1, MaxOfTwo
  <2>. QED BY <1>1, <2>2
<1>5. rx_srtt' \in Nat
  <2>1. (7 * rx_srtt + rtt) \div 8 \in Int
    BY <1>1
  <2>2. Max({1, (7 * rx_srtt + rtt) \div 8}) \in Nat
    BY <2>1, MaxOfTwo
  <2>. QED BY <1>1, <2>2 DEF UpdateAck
<1>6. rx_rttval' \in Nat
  <2>1. rtt \div 2 \in Nat /\ (3 * rx_rttval + delta) \div 4 \in Nat
    BY <1>1, <1>4
  <2>. QED BY <1>3, <2>1 DEF UpdateAck
<1>7. rx_rto' \in MinRto..MaxRto
  <2>1. PICK est : est = rx_srtt' + Max({1, 4 * rx_rttval'})
    OBVIOUS
  <2>2. est \in Int
    <3>1. 4 * rx_rttval' \in Int
      BY <1>6
    <3>. QED BY <1>5, <2>1, <3>1, MaxOfTwo
  <2>3. PICK low : low = Max({MinRto, est})
    OBVIOUS
  <2>4. low \in Int /\ low >= MinRto
    BY <2>2, <2>3, MaxOfTwo, RtoFacts
  <2>5. rx_rto' = Min({low, MaxRto})
    BY <2>1, <2>3 DEF UpdateAck
  <2>. QED BY <2>4, <2>5, MinOfTwo, RtoFacts
<1>. QED BY <1>5, <1>6, <1>7

LEMMA AckedStep ==
    ASSUME ClockInv, Acked, mode' = mode PROVE ClockInv'
<1>2. /\ now' = now /\ updated' = updated /\ ts_flush' = ts_flush /\ rto' = rto
      /\ wait' = wait /\ sleeping' = sleeping /\ idle' = idle /\ jumps' = jumps
      /\ resend' \in {0, resend}
  BY DEF Acked, flushVars
<1>3. rx_srtt' \in Nat /\ rx_rttval' \in Nat /\ rx_rto' \in MinRto..MaxRto
  <2>1. ASSUME NEW rtt \in 0..MaxRtt, UpdateAck(rtt)
        PROVE  rx_srtt' \in Nat /\ rx_rttval' \in Nat /\ rx_rto' \in MinRto..MaxRto
    BY <2>1, UpdateAckFacts
  <2>2. CASE UNCHANGED rtoVars
    BY <2>2 DEF rtoVars, ClockInv, TypeOK, RtoInv
  <2>. QED BY <2>1, <2>2 DEF Acked
<1>8. TypeOK'
  <2>1. {rto', rx_srtt', rx_rttval', rx_rto', wait', sleeping', idle'} \subseteq Nat
    BY <1>2, <1>3, RtoFacts DEF ClockInv, TypeOK
  <2>2. resend' \in 0..TimeModulus
    BY <1>2, Halves DEF ClockInv, TypeOK
  <2>. QED BY <1>2, <2>1, <2>2, Zenon DEF ClockInv, TypeOK
<1>9. RtoInv'
  BY <1>2, <1>3 DEF RtoInv, ClockInv
<1>10. CadenceInv'
  <2>1. LongestSleep' = LongestSleep /\ Slack' = Slack
    BY <1>2 DEF LongestSleep, Slack, Interval
  <2>. QED BY <1>2, <2>1 DEF CadenceInv, ClockInv
<1>11. ResendInv'
  <2>1. SetBy' = SetBy /\ InReach' = InReach
    BY <1>2 DEF SetBy, InReach, LongestIdle, LongestSleep, Interval
  <2>. QED BY <1>2, <2>1 DEF ResendInv, ClockInv
<1>. QED BY <1>8, <1>9, <1>10, <1>11 DEF ClockInv

LEMMA ClockStep == ClockInv /\ [Next]_vars => ClockInv'
<1>. SUFFICES ASSUME ClockInv, [Next]_vars PROVE ClockInv'
  OBVIOUS
<1>1. CASE Poll /\ mode' = mode
  BY <1>1, PollStep
<1>2. CASE Tick /\ mode' = mode
  BY <1>2, TickStep
<1>3. CASE Jump /\ mode' = mode
  BY <1>3, JumpStep
<1>4. CASE Acked /\ mode' = mode
  BY <1>4, AckedStep
<1>5. CASE UNCHANGED vars
  BY <1>5 DEF vars, ClockInv, TypeOK, RtoInv, CadenceInv, ResendInv, Slack,
              Interval, LongestSleep, InReach, SetBy, LongestIdle
<1>. QED BY <1>1, <1>2, <1>3, <1>4, <1>5 DEF Next

LEMMA ClockAlways == Spec => []ClockInv
BY ClockInit, ClockStep, PTL DEF Spec

-----------------------------------------------------------------------------
(***************************************************************************)
(* The theorems.                                                           *)
(***************************************************************************)
\* However the pollers of the two programs time their calls of Update, and
\* however often the wall clock is set, flush is called again in time.
THEOREM FlushIsOnTime == Spec => []FlushCadence
<1>1. ClockInv => FlushCadence
  <2>. SUFFICES ASSUME ClockInv PROVE FlushCadence
    OBVIOUS
  <2>1. /\ idle \in Nat /\ sleeping \in Nat
        /\ idle + sleeping <= Slack + LongestSleep
    BY DEF ClockInv, CadenceInv, TypeOK
  <2>2. LongestIdle \in Nat /\ LongestIdle = Slack + LongestSleep
    BY SetByFacts DEF ClockInv
  <2>. QED BY <2>1, <2>2 DEF FlushCadence
<1>. QED BY <1>1, ClockAlways, PTL

\* However often the clock is set, by how much, and whichever way a segment is
\* sent again: its resend time is off by no more than a late flush and what the
\* clock was set by, as long as that fits the clock's range.
THEOREM ResendsAreAhead == Spec => []ResendAhead
<1>1. ClockInv => ResendAhead
  <2>. SUFFICES ASSUME ClockInv, InReach, resend # 0
                PROVE  Diff(resend - 1, now)
                         \in -(LongestIdle + SetBy) .. 2 * MaxSegRto + SetBy
    BY DEF ResendAhead
  <2>1. /\ idle \in Nat /\ sleeping \in Nat /\ now \in Times
        /\ resend \in 0..TimeModulus
        /\ idle + sleeping <= Slack + LongestSleep
    BY DEF ClockInv, CadenceInv, TypeOK
  <2>2. /\ LongestIdle \in Nat /\ LongestIdle = Slack + LongestSleep
        /\ SetBy \in Nat
    BY SetByFacts DEF ClockInv
  <2>3. /\ Diff(resend - 1, now) + idle >= 1 - SetBy
        /\ Diff(resend - 1, now) <= 2 * MaxSegRto + SetBy
    BY DEF ClockInv, ResendInv
  <2>4. resend - 1 \in Times
    BY <2>1, Halves DEF Times
  <2>5. Diff(resend - 1, now) \in Int /\ MaxSegRto \in Nat
    BY <2>1, <2>4, DiffTurns, Halves
  <2>. QED BY <2>1, <2>2, <2>3, <2>5
<1>. QED BY <1>1, ClockAlways, PTL
=============================================================================
