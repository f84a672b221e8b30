------------------------------ MODULE SampleFifo ------------------------------
(***************************************************************************)
(* What the buffer between the IMU and the fusion promises: a bounded      *)
(* queue of samples in the order of their time that gives up its oldest    *)
(* sample when it is full.                                                 *)
(***************************************************************************)
EXTENDS Naturals, Sequences

CONSTANTS Capacity, Times

VARIABLE fifo

Init == fifo = <<>>

\* The newest sample is later than every sample held.
Arrive(t) ==
    LET kept == IF Len(fifo) = Capacity THEN Tail(fifo) ELSE fifo
    IN  /\ \A i \in 1 .. Len(fifo) : fifo[i] < t
        /\ fifo' = Append(kept, t)

Leave == fifo # <<>> /\ fifo' = Tail(fifo)

Discard == fifo' = <<>>

Next == Leave \/ Discard \/ \E t \in Times : Arrive(t)

Spec == Init /\ [][Next]_fifo
=============================================================================
