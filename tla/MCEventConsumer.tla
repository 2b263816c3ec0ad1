-------------------------- MODULE MCEventConsumer --------------------------
(* Small instances of the event consumer.                                  *)
EXTENDS EventConsumer

\* Two commands with a book each; the trade is settled first.
TradeAndBooks == <<"trade", "book", "other", "book">>
=============================================================================
