----------------------------- MODULE MCReporter ------------------------------
\* Model of the metrics for TLC: three latencies, so that the order of the
\* samples shows, and a ring they wrap around.  The ring and the reporter
\* share nothing but the counters: states in which both have moved are left
\* out, so that each can be larger.
EXTENDS Reporter

ThreeLatencies == {1, 2, 3}

RingOrReporter ==
    \/ latBuf = [i \in 0..RingSize - 1 |-> 0]
    \/ reporter = "select" /\ file = <<>> /\ ~stopCh /\ crashes = 0
==============================================================================
