----------------------------- MODULE MCClearing -----------------------------
(***************************************************************************)
(* Clearing on small desks: three accounts, two symbols, one coin beside    *)
(* the quote.                                                               *)
(***************************************************************************)
EXTENDS Clearing, TLC

MCTraders == 1..3
MCOwner == 1 :> 1 @@ 2 :> 2 @@ 3 :> 3 @@ 4 :> 1 @@ 5 :> 2 @@ 6 :> 3
MCSymbols == {1, 2}
MCAssets == {0, 1}
MCSources == {1, 2}

Order(id, side, qty, px, ro) == [id |-> id, side |-> side, qty |-> qty, px |-> px, ro |-> ro, ioc |-> FALSE]
Nothing == [orders |-> {}, pulls |-> {}, marks |-> {}, rates |-> {}, calendar |-> {}, closes |-> {},
            fixes |-> {}, caps |-> {}, deposits |-> {}, withdrawals |-> {}, ticks |-> {}, indexes |-> {},
            trades |-> {}, sources |-> {}, lasts |-> {},
            books |-> {[bids |-> <<>>, asks |-> <<>>]}, coin |-> {}, pause |-> {}]
Quote(f) == [a \in MCTraders |-> [s \in {"quote"} |-> f[a]]]
Perp == [im |-> 2000, mm |-> 1000, cap |-> 0, top |-> 14, adl |-> TRUE, external |-> FALSE,
         maker |-> -3, taker |-> 5, interest |-> 1, band |-> 5, limit |-> 20, interval |-> 1]

\* Longs and shorts that gain, lose and are deleveraged; funding that empties a wallet.
Bankruptcy ==
  [kind |-> "isolated", cmds |-> 6, cfg |-> Perp, funds |-> Quote(<<6, 9, 7>>),
   send |-> [Nothing EXCEPT
     !.orders = {Order(1, "buy", 2, 10, FALSE), Order(2, "sell", 2, 10, FALSE),
                 Order(3, "sell", 1, 10, FALSE), Order(4, "buy", 1, 8, FALSE)},
     !.marks = {6, 14}, !.rates = {30}, !.closes = {2}, !.withdrawals = {[acct |-> 2, amt |-> 4]}]]

\* Reduce-only orders that rest while the position moves under them, caps and corrections.
Reducing ==
  [kind |-> "isolated", cmds |-> 6, cfg |-> [Perp EXCEPT !.cap = 2, !.mm = 0], funds |-> Quote(<<9, 9, 9>>),
   send |-> [Nothing EXCEPT
     !.orders = {Order(1, "buy", 2, 10, FALSE), Order(2, "sell", 2, 10, FALSE), Order(3, "buy", 1, 12, FALSE),
                 Order(4, "sell", 2, 12, TRUE), Order(5, "buy", 1, 10, TRUE),
                 [Order(6, "sell", 2, 0, FALSE) EXCEPT !.ioc = TRUE]},
     !.pulls = {2}, !.fixes = {[acct |-> 1, delta |-> -1, entry |-> 0], [acct |-> 3, delta |-> 1, entry |-> 9]},
     !.caps = {[acct |-> 3, cap |-> 1]}]]

\* The venue's own scheduler settles the funding.
Scheduled ==
  [kind |-> "isolated", cmds |-> 6, cfg |-> Perp, funds |-> Quote(<<5, 5, 5>>),
   send |-> [Nothing EXCEPT
     !.orders = {Order(1, "buy", 1, 10, FALSE), Order(2, "sell", 1, 10, FALSE), Order(4, "buy", 1, 8, FALSE)},
     !.pulls = {1},
     !.ticks = {10, 12}, !.indexes = {10}, !.calendar = {0, 2}, !.rates = {-20}, !.marks = {10},
     !.deposits = {[acct |-> 1, amt |-> 3]}]]

Margins == [rates |-> 1 :> [im |-> 2000, mm |-> 1000], fallback |-> [im |-> 10000, mm |-> 10000],
            haircut |-> 0 :> 0 @@ 1 :> 2000, adl |-> TRUE,
            fresh |-> 1, dev |-> 5000, min |-> 1, clamp |-> 3000, impact |-> 2]
Fill(b, s, sym, q, px) == [buyer |-> b, seller |-> s, sym |-> sym, qty |-> q, px |-> px]

Deep == [bids |-> <<[px |-> 9, qty |-> 1], [px |-> 7, qty |-> 3]>>, asks |-> <<[px |-> 12, qty |-> 1]>>]

\* Two symbols; an account whose only collateral is coin pays funding out of a negative wallet.
Basket ==
  [kind |-> "portfolio", cmds |-> 6, px |-> 0 :> 1 @@ 1 :> 5,
   cfg |-> [Margins EXCEPT !.rates = 1 :> [im |-> 2000, mm |-> 1000] @@ 2 :> [im |-> 3000, mm |-> 2000]],
   funds |-> [a \in MCTraders |-> [s \in MCAssets |-> IF a = 1 THEN 3 * s ELSE 4 * (1 - s)]],
   send |-> [Nothing EXCEPT
     !.trades = {Fill(1, 2, 1, 2, 10), Fill(3, 1, 2, 1, 10), Fill(2, 1, 1, 2, 10)},
     !.sources = {[sym |-> s, src |-> 1, px |-> p] : s \in MCSymbols, p \in {6, 14}},
     !.lasts = {0}, !.rates = {-60}, !.marks = {10}, !.withdrawals = {[acct |-> 3, amt |-> 2]}]]

\* An index over two sources, a symbol the risk configuration does not know, a pause.
Breaker ==
  [kind |-> "portfolio", cmds |-> 6, px |-> 0 :> 1 @@ 1 :> 5,
   cfg |-> [Margins EXCEPT !.min = 2, !.dev = 1000, !.adl = FALSE],
   funds |-> [a \in MCTraders |-> [s \in MCAssets |-> IF s = 0 THEN 4 ELSE 1]],
   send |-> [Nothing EXCEPT
     !.trades = {Fill(1, 2, 1, 2, 10), Fill(1, 2, 2, 1, 10)},
     !.sources = {[sym |-> 1, src |-> r, px |-> p] : r \in MCSources, p \in {6, 11}},
     !.lasts = {0, 12}, !.books = {[bids |-> <<>>, asks |-> <<>>], Deep}, !.coin = {2}, !.pause = {TRUE}, !.rates = {20}, !.marks = {10}]]

MCDesks == [bankruptcy |-> Bankruptcy, reducing |-> Reducing, scheduled |-> Scheduled,
            basket |-> Basket, breaker |-> Breaker]
=============================================================================
