----------------------------- MODULE MCSessions -----------------------------
EXTENDS Sessions

MCTwoOrders == <<1, 2>>      \* a ClOrdID each
\* For the deviations of README section 4: an order sent again under the ClOrdID it had,
\* and connections that end.
MCSameOrder == <<1, 1>>
MCHangUp    == {{"hangup"}}

(* Which troubles meet in one history: a gap and the timer that repeats its *)
(* request, a gap and a reconnection, a reconnection and a fill, a client   *)
(* and a venue that die after writing a sidecar.                            *)
MCTroubles == {{"tick", "corrupt"}, {"tick", "fill"}, {"hangup", "corrupt"}, {"hangup", "fill"},
               {"clientSave", "clientCrash"}, {"venueSave", "venueCrash"}}
=============================================================================
