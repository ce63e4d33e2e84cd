-------------------------- MODULE MaintenanceTimer --------------------------
(***************************************************************************)
(* Lab 26: a timer that delivers a pulse after five seconds and then at    *)
(* every interval.  Time is counted in tenths of a second.                 *)
(***************************************************************************)
EXTENDS PulseChannel, Sequences

CONSTANT MaxTime        \* bound: when the clock stops

(* it_value and it_interval, and the interval the header speaks of.        *)
FirstExpiry == 50
Interval == 10 + 5
StatedInterval == 12

VARIABLES
    now,
    expiry,         \* when the timer expires next
    sent,           \* when its pulses were sent
    timerAt         \* "setup", then "loop"

timerVars == <<now, expiry, sent, timerAt>>

TimerInit ==
    /\ now = 0 /\ expiry = 0 /\ sent = <<>>
    /\ timerAt = "setup"

SetTime ==
    /\ timerAt = "setup"
    /\ timerAt' = "loop"
    /\ expiry' = now + FirstExpiry
    /\ UNCHANGED <<now, sent, channel>>

(* Time passes; at the expiry the timer sends its pulse first.             *)
TimePasses ==
    /\ timerAt = "loop"
    /\ now < expiry /\ now < MaxTime
    /\ now' = now + 1
    /\ UNCHANGED <<expiry, sent, timerAt, channel>>

TimerExpires ==
    /\ timerAt = "loop" /\ now = expiry
    /\ Deliver
    /\ expiry' = expiry + Interval
    /\ sent' = Append(sent, now)
    /\ UNCHANGED <<now, timerAt>>

ReceiveTimer ==
    /\ timerAt = "loop"
    /\ ReceivePulse
    /\ UNCHANGED timerVars

TimerNext == SetTime \/ TimePasses \/ TimerExpires \/ ReceiveTimer

TimerSpec == TimerInit /\ ChannelInit /\ [][TimerNext]_<<timerVars, channel>>

(* The header of lab 26: the server receives a maintenance message every   *)
(* 1.2 seconds, so none is sent sooner or later after the one before.      *)
EveryStatedInterval ==
    \A n \in 2 .. Len(sent) : sent[n] - sent[n - 1] = StatedInterval
=============================================================================
