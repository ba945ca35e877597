------------------------------ MODULE MCGateway ------------------------------
EXTENDS Gateway

(* Two endpoints of one client, who may come by either, and one of another. *)
MCGateways == [tcp |-> [kind |-> "tcp", accounts |-> <<1, 2>>],
               tls |-> [kind |-> "tls", accounts |-> <<1, 2>>],
               ws  |-> [kind |-> "ws",  accounts |-> <<3>>]]

F(op, o, a) == [op |-> op, o |-> o, acct |-> a]
Hello == F("hello", 0, 0)

Client(g, sends, mute) == [gw |-> g, sends |-> sends, mute |-> mute]
History(clients, stops, fills, idle, jams) ==
  [clients |-> clients, stops |-> stops, fills |-> fills, idle |-> idle, jams |-> jams]

MCHistories ==
  { \* a client comes back another way and falls silent in the middle of a message
    History(<<Client("tls", <<Hello, F("new", 1, 2)>>, FALSE),
              Client("tcp", <<F("part", 0, 0)>>, TRUE)>>, {}, 0, TRUE, FALSE),
    \* stop() while silent clients come and a descriptor is given out again
    History(<<Client("tcp", <<F("new", 1, 1)>>, FALSE), Client("tls", <<Hello>>, TRUE)>>,
            {"tcp", "tls"}, 0, FALSE, TRUE),
    History(<<Client("ws", <<Hello, F("new", 1, 0)>>, TRUE), Client("ws", <<>>, TRUE)>>,
            {"ws"}, 0, FALSE, TRUE),
    \* the rate limit, and what is never charged
    History(<<Client("tcp", <<F("new", 1, 1), F("modify", 1, 1), F("lastLook", 0, 1),
                              F("new", 2, 1), F("cancel", 1, 1), F("lastLook", 0, 1)>>, FALSE)>>,
            {}, 1, TRUE, FALSE),
    \* frames that are refused, cancel on disconnect switched off and on, and a
    \* cancel for the wrong account
    History(<<Client("tls", <<Hello, F("garbled", 0, 0), F("new", 2, 3), F("cod", 0, 0),
                              F("cod", 1, 0), F("new", 1, 2), F("cancel", 1, 1)>>, TRUE)>>,
            {}, 1, TRUE, FALSE),
    \* fragments, control frames, and a message begun twice
    History(<<Client("ws", <<Hello, F("part", 0, 0), F("ping", 0, 0), F("new", 3, 3),
                             F("part", 0, 0), F("part", 0, 0)>>, FALSE)>>, {}, 0, TRUE, FALSE),
    History(<<Client("ws", <<Hello, F("new", 1, 0), F("close", 0, 0)>>, TRUE)>>,
            {}, 0, TRUE, FALSE)}

(* A client places an order and takes nothing more off its socket. *)
MCHalfOpen == {History(<<Client(g, <<Hello, F("new", 1, 0)>>, TRUE)>>, {}, 0, TRUE, TRUE) :
                 g \in {"ws", "tls"}}
               \cup {History(<<Client("tcp", <<F("new", 1, 0)>>, TRUE)>>, {}, 0, TRUE, TRUE)}
=============================================================================
