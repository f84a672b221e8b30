--------------------------- MODULE ImuSampleBuffer ---------------------------
(***************************************************************************)
(* The ring between the IMU's interrupts and the barometer's               *)
(* (domain/imu_sample_buffer.c).  A sample is its timestamp; 0 is a slot   *)
(* that was never written.  What a ring holds is Contents; the abstract    *)
(* queue it must behave like is SampleFifo.                                *)
(***************************************************************************)
EXTENDS Naturals, Sequences

CONSTANT Capacity   \* IMU_SAMPLE_BUFFER_CAPACITY

ASSUME CapacityAssumption == Capacity \in Nat \ {0}

EmptyRing == [slot |-> [i \in 0 .. Capacity - 1 |-> 0], head |-> 0, count |-> 0]

\* The slot of the sample with k older ones before it.
SlotOf(r, k) == (r.head + k) % Capacity

ClearRing(r) == [r EXCEPT !.head = 0, !.count = 0]

DropOldest(r) == [r EXCEPT !.head = (@ + 1) % Capacity, !.count = @ - 1]

PushSampleInPlace(r, t) ==
    [r EXCEPT !.slot[SlotOf(r, r.count)] = t,
              !.count = IF @ < Capacity THEN @ + 1 ELSE @]

PushSample(r, t) ==
    LET q == IF r.count = Capacity THEN DropOldest(r) ELSE r
    IN  [q EXCEPT !.slot[SlotOf(q, q.count)] = t, !.count = @ + 1]

Oldest(r) == r.slot[r.head]

PopsThrough(r, cutoff) == r.count > 0 /\ Oldest(r) <= cutoff

Contents(r) == [k \in 1 .. r.count |-> r.slot[SlotOf(r, k - 1)]]
=============================================================================
