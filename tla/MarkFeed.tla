------------------------------ MODULE MarkFeed ------------------------------
(***************************************************************************)
(* Where marks and funding rates come from: the index over several sources, *)
(* the mark (index_feed.h), the driver that publishes it and pauses         *)
(* liquidations on an outage (mark_feed_driver.h), and the funding rate of  *)
(* an interval (funding_rate.h, funding_scheduler.h).  Prices are integers, *)
(* premiums and rates are in 1/100.                                         *)
(***************************************************************************)
EXTENDS Ledger, Sequences, FiniteSets, SequencesExt

\* A feed is source -> [px, at], at 0 for a source never heard; c.fresh is the staleness
\* window, c.dev the deviation in 1/10000, c.min the sources an index needs.
FreshSources(c, feed, now) == {s \in DOMAIN feed : feed[s].at > 0 /\ now - feed[s].at <= c.fresh}
HasIndex(c, feed, now) == Cardinality(FreshSources(c, feed, now)) >= c.min

Ascending(feed, S) == SortSeq([i \in 1..Cardinality(S) |-> feed[SetToSeq(S)[i]].px], <)
Middle(v) ==
  IF Len(v) % 2 = 1 THEN v[Len(v) \div 2 + 1] ELSE (v[Len(v) \div 2] + v[Len(v) \div 2 + 1]) \div 2

\* Outliers go, unless too few would be left.
Near(c, px, mid) == (Abs(px - mid) * 10000) \div mid <= c.dev
Kept(c, feed, S, mid) ==
  LET near == {s \in S : Near(c, feed[s].px, mid)} IN IF Cardinality(near) < c.min THEN S ELSE near
Index(c, feed, now) ==
  LET S == FreshSources(c, feed, now)
  IN Middle(Ascending(feed, Kept(c, feed, S, Middle(Ascending(feed, S)))))

\* What filling `want` units costs per unit, walking the levels best first; 0 without depth.
\* Without a size to fill, the best price.
Walked(s, lv) ==
  LET take == Lesser(lv.qty, s.want)
  IN [sum |-> s.sum + lv.px * take, got |-> s.got + take, want |-> s.want - take]
ImpactPrice(levels, want) ==
  LET w == FoldLeft(Walked, [sum |-> 0, got |-> 0, want |-> want], levels)
  IN CASE want <= 0 -> IF levels = <<>> THEN 0 ELSE Head(levels).px
       [] want > 0  -> IF w.got = 0 THEN 0 ELSE w.sum \div w.got
\* One side stands for both when the other is empty.
ImpactMid(b, want) ==
  LET bid == ImpactPrice(b.bids, want) ask == ImpactPrice(b.asks, want)
  IN IF bid = 0 \/ ask = 0 THEN bid + ask ELSE (bid + ask) \div 2

\* The mark: the middle of index, last trade and mid (0: not set), kept near the index.
Clamp(x, lo, hi) == Greater(lo, Lesser(hi, x))
MarkValue(c, index, last, mid) ==
  LET pts == SortSeq(SelectSeq(<<index, last, mid>>, LAMBDA p : p > 0), <)
      band == (index * c.clamp) \div 10000
  IN Clamp(pts[Len(pts) \div 2 + 1], index - band, index + band)

\* The premium accumulates over the interval; the rate is its average, clamped and capped.
Premium(mark, index) == Quotient((mark - index) * 100, index)
RateFromPremium(c, prem) == Clamp(prem + Clamp(c.interest - prem, -c.band, c.band), -c.limit, c.limit)
IntervalRate(c, f) == RateFromPremium(c, IF f.n = 0 THEN 0 ELSE Quotient(f.sum, f.n))

\* FundingScheduler::onTick up to the settlement: the first tick anchors the interval.
\* A tick without an index is no sample.
Sampled(c, f, now, mark, index) ==
  LET due == IF f.due = 0 THEN now + c.interval ELSE f.due
  IN IF index <= 0 THEN [f EXCEPT !.due = due]
     ELSE [due |-> due, sum |-> f.sum + Premium(mark, index), n |-> f.n + 1]
Rolled(c, f) == [due |-> f.due + c.interval, sum |-> 0, n |-> 0]
=============================================================================
