---------------------------- MODULE PulseChannel ----------------------------
(***************************************************************************)
(* Pulses on a private channel (the kernel's, external): they queue until  *)
(* the process receives them, one at a time.                               *)
(***************************************************************************)
EXTENDS Naturals

CONSTANT MaxPulses      \* bound: how many pulses come

VARIABLES arrived, handled      \* how many have come, and been received

channel == <<arrived, handled>>

ChannelInit == arrived = 0 /\ handled = 0

Deliver ==
    /\ arrived < MaxPulses
    /\ arrived' = arrived + 1
    /\ UNCHANGED handled

ReceivePulse ==
    /\ handled < arrived
    /\ handled' = handled + 1
    /\ UNCHANGED arrived
=============================================================================
