---------------------------- MODULE MCMarketFeed ----------------------------
(* A command that trades and one that does not, each with its book.        *)
EXTENDS MarketFeed

TradeThenBook == <<"trade", "book", "book">>
=============================================================================
