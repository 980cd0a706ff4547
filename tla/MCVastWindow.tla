---------------------------- MODULE MCVastWindow ----------------------------
(* A small market for VastWindow: prices in half dollars per hour, two offers *)
(* of one host, one of an unknown host, and one the filters reject.           *)
EXTENDS VastWindow

CONSTANTS h1, h2

Offer(host, dph, rank, fits) ==
  [host |-> host, price |-> dph, rank |-> rank, fits |-> fits]

SmallMarket == {
  Offer(h1, 1, 3, TRUE), Offer(h1, 2, 1, TRUE), Offer(UnknownHost, 2, 2, TRUE),
  Offer(h2, 4, 0, TRUE), Offer(h2, 5, 4, TRUE), Offer(h2, 1, 5, FALSE)}

SomePriors == {0, 180, 240}
=============================================================================
