------------------------------ MODULE RateLimit ------------------------------
(***************************************************************************)
(* What the throttle of a housekeeping pass promises, without stamps,      *)
(* processes or the daemon: a round may begin when none has begun yet or   *)
(* the last one is Gap ago.  Module ThrottleStamp implements it.           *)
(***************************************************************************)
EXTENDS Integers

CONSTANTS
    Gap,   \* least time between two rounds
    Never  \* no round yet

VARIABLES
    time,  \* the wall clock
    last   \* when the last round began, or Never

Init == time = 0 /\ last = Never

TimePasses == time' = time + 1 /\ UNCHANGED last

Round ==
    /\ last = Never \/ time - last >= Gap
    /\ last' = time
    /\ UNCHANGED time

Next == TimePasses \/ Round

Spec == Init /\ [][Next]_<<time, last>>
===============================================================================
