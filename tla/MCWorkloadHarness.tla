------------------------- MODULE MCWorkloadHarness ------------------------
(* The command lines the harness is checked with. *)
EXTENDS WorkloadHarness

TimedFor(seconds) == [max |-> 0, maxSet |-> FALSE, rt |-> seconds]
AtMost(operations) == [max |-> operations, maxSet |-> TRUE, rt |-> 0]

(* -rt 1, -max with none, an even, and an uneven share for each thread,     *)
(* -max -1, of which the assignment makes the greatest unsigned 64-bit      *)
(* number and whose share does not fit in 32 bits, and both at once, which  *)
(* Init accepts when -max says 0                                            *)
Working == {TimedFor(1), AtMost(0), AtMost(TC), AtMost(2 * TC + 1),
            AtMost(Word * Word - 1), [max |-> 0, maxSet |-> TRUE, rt |-> 1]}

(* -max with fewer operations than threads *)
TooFew == {AtMost(TC - 1)}
============================================================================
