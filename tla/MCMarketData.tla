---------------------------- MODULE MCMarketData ----------------------------
(* Model values for MarketData: the feeds each run looks at. *)
EXTENDS MarketData

\* Datagrams that arrive twice, in any order or not at all; the ring has everything,
\* a gap is raised again, recoveries fail or break off.
Lossy == [client |-> "udp", ring |-> 9, copies |-> 2, reraise |-> 2, maxHeld |-> 9, maxGap |-> 2,
          maxAttempts |-> 2, pendingCap |-> 0, queueCap |-> 0,
          maxSeq |-> 5, maxEpoch |-> 1, maxFails |-> 2, maxConnects |-> 0]

\* A ring of one message: what is missed is answered with a snapshot.
Trimmed == [Lossy EXCEPT !.ring = 1, !.reraise = 99, !.maxGap = 9]

\* The detector holds one message and gives gaps up.
Impatient == [Lossy EXCEPT !.maxHeld = 1, !.reraise = 99]

\* TCP: a subscriber that comes and goes, with short queues.
Session == [Lossy EXCEPT !.client = "tcp", !.ring = 2, !.copies = 1, !.pendingCap = 2, !.queueCap = 3,
                         !.maxConnects = 2]

\* The publisher restarts once; nothing is lost and every round trip succeeds.
Restarting == [Lossy EXCEPT !.copies = 1, !.maxSeq = 2, !.maxEpoch = 2, !.maxFails = 0]

AllFeeds == [lossy |-> Lossy, trimmed |-> Trimmed, impatient |-> Impatient, session |-> Session,
             restarting |-> Restarting]
RestartFeeds == [restarting |-> Restarting]
=============================================================================
