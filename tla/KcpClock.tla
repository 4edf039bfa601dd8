----------------------------- MODULE KcpClock ------------------------------
(***************************************************************************)
(* The clock of a KCP object (toxtun-go/kcp.go: Update, Check, update_ack, *)
(* the resend times of flush) and the poller that drives it in the two     *)
(* tunnel programs.  Times are uint32 milliseconds of the wall clock; here *)
(* they are modulo TimeModulus, in units of the shortest wait (10 ms).     *)
(* One segment stands for the one in snd_buf with the earliest resendts.   *)
(***************************************************************************)
EXTENDS Integers, FiniteSetsExt

CONSTANTS
    TimeModulus,    \* 2^32 in the code
    BigSlap,        \* 10000 ms: a clock this far off is taken as set anew
    MinWait,        \* 10 ms
    ClientWait,     \* 30 ms
    MinRto, MaxRto, \* rx_minrto: 100 ms, or 30 ms; IKCP_RTO_MAX: 60 s
    DefRto,         \* IKCP_RTO_DEF: 200 ms
    MaxSegRto,      \* bound: a segment's own timeout grows with each resend; it
                    \* is acknowledged before it would grow beyond this
    MaxRtt,         \* bound: the longest round trip that is measured
    Modes,          \* how the object may be set up and driven: interval and
                    \* nodelay (100 ms and FALSE, or 10 ms and TRUE in fast
                    \* mode), check (TRUE in tunneld.go, FALSE in tunnelc.go)
    Jumps, MaxJump, \* by how much the wall clock may be set, and at most
    MaxJumps        \* bound: how often it is set

\* Differences that matter are small against the range of the clock.
ASSUME ClockAssumption ==
    /\ TimeModulus \in Nat /\ TimeModulus % 2 = 0
    /\ \A m \in Modes : /\ DOMAIN m = {"interval", "nodelay", "check"}
                         /\ m.interval \in 1 .. BigSlap - 1
                         /\ m.nodelay \in BOOLEAN /\ m.check \in BOOLEAN
    /\ BigSlap \in Nat /\ 8 * BigSlap < TimeModulus
    /\ MinWait \in 1..BigSlap /\ ClientWait \in 1..BigSlap
    /\ MinRto \in Nat \ {0} /\ MaxRto \in Nat /\ DefRto \in MinRto..MaxRto
    /\ MaxSegRto \in Nat /\ MaxSegRto >= MaxRto /\ 8 * MaxSegRto < TimeModulus
    /\ MaxRtt \in Nat
    /\ MaxJump \in Nat /\ Jumps \subseteq -MaxJump..MaxJump /\ MaxJumps \in Nat

VARIABLES
    mode,       \* how this object was set up
    now,        \* the wall clock
    updated, ts_flush,                  \* the flush timer
    resend,     \* 0, or 1 plus resendts of the oldest segment in snd_buf
    rto,        \* that segment's timeout
    rx_srtt, rx_rttval, rx_rto,         \* the estimator
    wait,       \* kcpNextUpdateWait
    sleeping,   \* real time until the poller wakes
    idle,       \* real time since the last flush
    jumps

vars == <<mode, now, updated, ts_flush, resend, rto, rx_srtt, rx_rttval,
          rx_rto, wait, sleeping, idle, jumps>>
flushVars == <<updated, ts_flush>>
segVars == <<resend, rto>>
rtoVars == <<rx_srtt, rx_rttval, rx_rto>>

Times == 0 .. TimeModulus - 1
Interval == mode.interval
NoDelay == mode.nodelay

Plus(t, d) == (t + d) % TimeModulus

\* _itimediff.
Diff(later, earlier) ==
    ((later - earlier + TimeModulus \div 2) % TimeModulus) - TimeModulus \div 2

TypeOK ==
    /\ mode \in Modes
    /\ {now, ts_flush} \subseteq Times /\ updated \in BOOLEAN
    /\ resend \in 0..TimeModulus
    /\ {rto, rx_srtt, rx_rttval, rx_rto, wait, sleeping, idle} \subseteq Nat
    /\ jumps \in 0..MaxJumps

Init ==
    /\ mode \in Modes
    /\ now \in Times
    /\ updated = FALSE /\ ts_flush = Interval
    /\ resend = 0 /\ rto = 0
    /\ rx_srtt = 0 /\ rx_rttval = 0 /\ rx_rto = DefRto
    /\ wait = 0 /\ sleeping = 0 /\ idle = 0 /\ jumps = 0

-----------------------------------------------------------------------------
\* The flush timer as Update and Check see it when the clock was set.
Slapped(ts) == IF Diff(now, ts) >= BigSlap \/ Diff(now, ts) < -BigSlap THEN now ELSE ts

UpdateFlushes ==
    LET ts == IF updated THEN Slapped(ts_flush) ELSE now
    IN  Diff(now, ts) >= 0

NextFlush(ts) ==
    IF Diff(now, Plus(ts, Interval)) >= 0
    THEN Plus(now, Interval) ELSE Plus(ts, Interval)

\* flush for the oldest segment: sent the first time, if the send queue has
\* one, again when resendts has come, with a longer timeout each time, or, in
\* fast mode, before that because two later ones were acknowledged.
FirstSend ==
    /\ resend = 0
    /\ rto' = rx_rto
    /\ resend' = 1 + Plus(now, rto' + IF NoDelay THEN 0 ELSE rx_rto \div 8)

\* Mutant of Resend: neither the timeout nor the resend time is set anew.
ResendUnarmed ==
    /\ resend # 0 /\ Diff(now, resend - 1) >= 0
    /\ UNCHANGED <<rto, resend>>

Resend ==
    /\ resend # 0 /\ Diff(now, resend - 1) >= 0
    /\ rto' = rto + IF NoDelay THEN rx_rto \div 2 ELSE rx_rto
    /\ rto' <= MaxSegRto
    /\ resend' = 1 + Plus(now, rto')

FastResend ==
    /\ NoDelay
    /\ resend # 0 /\ Diff(now, resend - 1) < 0
    /\ resend' = 1 + Plus(now, rto)
    /\ UNCHANGED rto

NothingToSend ==
    /\ resend # 0 => Diff(now, resend - 1) < 0
    /\ UNCHANGED segVars

Update ==
    LET ts == IF updated THEN Slapped(ts_flush) ELSE now
    IN  /\ updated' = TRUE
        /\ IF UpdateFlushes
           THEN /\ ts_flush' = NextFlush(ts)
                /\ FirstSend \/ Resend \/ FastResend \/ NothingToSend
                /\ idle' = 0
           ELSE /\ ts_flush' = ts
                /\ UNCHANGED <<segVars, idle>>

\* Mutant of Check: only the resend time counts.
CheckPacketOnly ==
    LET tm_packet == IF resend = 0 THEN Interval ELSE Diff(resend - 1, now)
    IN  Max({0, tm_packet})

\* Check: how long from now until Update should be called.
Check ==
    LET ts == Slapped(ts_flush)
        tm_packet == IF resend = 0 THEN Interval ELSE Diff(resend - 1, now)
    IN  IF ~updated \/ Diff(now, ts) >= 0 \/ tm_packet <= 0 THEN 0
        ELSE Min({Diff(ts, now), tm_packet, Interval})

\* serveKcp of the server, with one channel: Update is called only when Check
\* says now; the poller is told how long to sleep.
ServerServe ==
    /\ wait' = Max({Check, MinWait})
    /\ IF Check = 0 THEN Update ELSE UNCHANGED <<flushVars, segVars, idle>>

\* serveKcp of the client.
ClientServe ==
    /\ wait' = ClientWait
    /\ Update

\* The poller wakes and posts its event, which an idle loop serves at once.
\* It reads the wait before or after the loop has set it anew.
Poll ==
    /\ sleeping = 0
    /\ IF mode.check THEN ServerServe ELSE ClientServe
    /\ \E w \in {wait, wait'} : sleeping' = IF w > 0 THEN w ELSE ClientWait
    /\ UNCHANGED <<now, rtoVars, jumps>>

\* Time passes; the poller is not late.
Tick ==
    /\ sleeping > 0
    /\ now' = Plus(now, 1)
    /\ sleeping' = sleeping - 1
    /\ idle' = idle + 1
    /\ UNCHANGED <<flushVars, segVars, rtoVars, wait, jumps>>

\* The wall clock is set.
Jump ==
    /\ jumps < MaxJumps
    /\ jumps' = jumps + 1
    /\ \E j \in Jumps : now' = Plus(now, j)
    /\ UNCHANGED <<flushVars, segVars, rtoVars, wait, sleeping, idle>>

\* update_ack.
UpdateAck(rtt) ==
    LET delta == Max({rtt - rx_srtt, rx_srtt - rtt})
    IN  /\ rx_srtt' = IF rx_srtt = 0 THEN rtt ELSE Max({1, (7 * rx_srtt + rtt) \div 8})
        /\ rx_rttval' = IF rx_srtt = 0 THEN rtt \div 2 ELSE (3 * rx_rttval + delta) \div 4
        /\ rx_rto' = Min({Max({MinRto, rx_srtt' + Max({1, 4 * rx_rttval'})}), MaxRto})

\* Input: a packet acknowledges the segment, or one after it, with a time that
\* tells the round trip, or with none or one that lies ahead of the clock.
Acked ==
    /\ resend # 0 /\ resend' \in {0, resend}
    /\ (\E rtt \in 0..MaxRtt : UpdateAck(rtt)) \/ UNCHANGED rtoVars
    /\ UNCHANGED <<now, flushVars, rto, wait, sleeping, idle, jumps>>

Next ==
    /\ Poll \/ Tick \/ Jump \/ Acked
    /\ UNCHANGED mode

Spec == Init /\ [][Next]_vars

-----------------------------------------------------------------------------
LongestSleep == Max({Interval, MinWait, ClientWait})

\* The longest that flush may stay away: an interval and the longest sleep, and
\* BigSlap and one more sleep each time the clock was set.
LongestIdle == Interval + LongestSleep + jumps * (BigSlap + LongestSleep)

\* While the clock is not set, no more than an interval and the longest sleep
\* pass between two calls of flush, although Check lets the server skip
\* Update, the poller may sleep a time that is out of date, and the 32-bit
\* clock wraps around; each time the clock is set holds flush up for another
\* BigSlap and one more sleep at most.
FlushCadence == idle <= LongestIdle

\* What the clock was set by, at most, and whether the differences it leads to
\* still fit the signed half of the clock's range.
SetBy == jumps * MaxJump
InReach == /\ LongestIdle + SetBy < TimeModulus \div 2
           /\ 2 * MaxSegRto + SetBy < TimeModulus \div 2

\* A segment that is out is never overdue by more than flush stayed away and
\* the clock was set forward, nor its resend time farther ahead than its
\* timeout and what the clock was set back: flush knows BigSlap for its own
\* timer only, so a segment waits all the time the clock was set back.
ResendAhead == resend # 0 /\ InReach =>
    Diff(resend - 1, now) \in -(LongestIdle + SetBy) .. 2 * MaxSegRto + SetBy

=============================================================================
