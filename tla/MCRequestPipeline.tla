------------------------- MODULE MCRequestPipeline -------------------------
(* Instances of RequestPipeline. *)
EXTENDS RequestPipeline

CONSTANTS w1, w2, c1, c2, a, b

Offer(body, prio, dur) == [body |-> body, prio |-> prio, dur |-> dur]

\* A low-priority timed request, which a client's untune overtakes in the queue,
\* a high-priority one, and one without a timer.
Mixed == {Offer(a, 1, 1), Offer(b, 0, 2), Offer(b, 1, Infinite)}
Timed == {Offer(a, 1, 1), Offer(b, 0, 2)}
Endless == {Offer(a, 1, Infinite)}
MinusOne == -1
\* Longer durations.  The runs about liveness leave out a retune to infinity: it can
\* leave a request without a Timer object, and the next retune ends the process.
ToLonger == {2, -1}
ToTwo == {2}

WorkerSymmetry == {[w \in {w1, w2} |-> w], [w \in {w1, w2} |-> IF w = w1 THEN w2 ELSE w1]}
============================================================================
