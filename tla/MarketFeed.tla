----------------------------- MODULE MarketFeed -----------------------------
(***************************************************************************)
(* From the settled events to a client: EventConsumer announces them on    *)
(* stream:market:events, market-events-consumer.service fans them out      *)
(* through MarketGateway to the sockets that subscribed, and               *)
(* MarketService answers a client that reads the cached book or the        *)
(* settled trades.  All of it is one process, so a restart stops both      *)
(* consumers and disconnects the client.                                   *)
(*                                                                         *)
(* One market and one client.  A message is the entry it was made from; a  *)
(* socket that is connected gets what is emitted to its rooms.             *)
(***************************************************************************)
EXTENDS EventConsumer

CONSTANT FanCount   \* messages in one read of the fan-out (20 in the code)

ASSUME FanCountAssumption == FanCount \in Nat \ {0}

VARIABLES
  fanMode,       \* where the fan-out's consumeLoop is
  fanFirst, fanDelivered,  \* its group: where it was created, what it gave out
  fanReading,    \* positions of the reply not broadcast yet
  joined,        \* the client is in the market's rooms
  known,         \* the entries the client has seen since it connected
  bookRead, tradesRead,    \* since it joined the client read them
  emitted,       \* history: the entries ever broadcast
  newest         \* history: the newest book ever cached

fan == <<fanMode, fanFirst, fanDelivered, fanReading>>
client == <<joined, known, bookRead, tradesRead>>
feedVars == <<vars, fan, client, emitted, newest>>

Books(S) == {e \in S : Kinds[e] = "book"}
Trades(S) == {e \in S : Kinds[e] = "trade"}

FeedInit ==
  /\ Init
  /\ fanMode = "start" /\ fanFirst = -1 /\ fanDelivered = 0 /\ fanReading = {}
  /\ joined = FALSE /\ known = {} /\ bookRead = FALSE /\ tradesRead = FALSE
  /\ emitted = {} /\ newest = 0

-----------------------------------------------------------------------------
(* The fan-out: consumeLoop and processBatch.                              *)

FanCreateGroup ==
  /\ fanMode = "start"
  /\ fanMode' = "live"
  /\ IF fanFirst = -1
     THEN fanFirst' = Len(announced) /\ fanDelivered' = Len(announced)
     ELSE UNCHANGED <<fanFirst, fanDelivered>>
  /\ UNCHANGED <<vars, fanReading, client, emitted, newest>>

FanCreateGroupFails ==
  /\ fanMode = "start"
  /\ Fault
  /\ fanMode' = "dead"
  /\ UNCHANGED <<length, group, loop, applied, redisOut, fanFirst, fanDelivered, fanReading>>
  /\ UNCHANGED <<client, emitted, newest>>

\* Only new messages are read: one that stays pending is never read again.
FanRead ==
  /\ fanMode = "live" /\ fanReading = {}
  /\ fanDelivered < Len(announced)
  /\ fanDelivered' = Min({fanDelivered + FanCount, Len(announced)})
  /\ fanReading' = fanDelivered + 1 .. fanDelivered'
  /\ UNCHANGED <<vars, fanMode, fanFirst, client, emitted, newest>>

\* The answer to the read is lost, and with it what the group gave out.
FanReadFails ==
  /\ fanMode = "live" /\ fanReading = {}
  /\ fanDelivered < Len(announced)
  /\ Fault
  /\ fanDelivered' = Min({fanDelivered + FanCount, Len(announced)})
  /\ UNCHANGED <<length, group, loop, applied, redisOut, fanMode, fanFirst, fanReading>>
  /\ UNCHANGED <<client, emitted, newest>>

\* broadcastOrderBook and broadcastTrade: whoever is in the rooms gets it.
Emit(e) ==
  /\ emitted' = emitted \cup {e}
  /\ known' = IF joined THEN known \cup {e} ELSE known

\* The message is acknowledged whether or not it could be broadcast.
Broadcast ==
  /\ fanReading # {}
  /\ Emit(announced[Min(fanReading)])
  /\ fanReading' = fanReading \ {Min(fanReading)}
  /\ UNCHANGED <<vars, fanMode, fanFirst, fanDelivered, joined, bookRead, tradesRead, newest>>

\* Fault: the loop waits for ever for a reply whose acknowledgement failed.
BroadcastAckHangs ==
  /\ fanReading # {}
  /\ Fault
  /\ Emit(announced[Min(fanReading)])
  /\ fanMode' = "hung" /\ fanReading' = {}
  /\ UNCHANGED <<length, group, loop, applied, redisOut, fanFirst, fanDelivered>>
  /\ UNCHANGED <<joined, bookRead, tradesRead, newest>>

\* XACK fails: the exception leaves the rest of the reply, for ever.
BroadcastAckFails ==
  /\ fanReading # {}
  /\ Fault
  /\ Emit(announced[Min(fanReading)])
  /\ fanReading' = {}
  /\ UNCHANGED <<length, group, loop, applied, redisOut, fanMode, fanFirst, fanDelivered>>
  /\ UNCHANGED <<joined, bookRead, tradesRead, newest>>

-----------------------------------------------------------------------------
(* The client.                                                             *)

Left == joined' = FALSE /\ known' = {} /\ bookRead' = FALSE /\ tradesRead' = FALSE

\* market.subscribe: the client joins the three rooms of the market.
handleSubscribe ==
  /\ ~joined
  /\ joined' = TRUE
  /\ UNCHANGED <<vars, fan, known, bookRead, tradesRead, emitted, newest>>

\* market.unsubscribe, or the socket is closed: it starts from nothing.
handleUnsubscribe ==
  /\ joined
  /\ Left
  /\ UNCHANGED <<vars, fan, emitted, newest>>

\* getOrderBook: the cached book.  It counts as read by a client that has
\* joined, if the cache has not gone back (ForwardWhenLive says when it may).
getOrderBook ==
  /\ known' = known \cup ({cache} \ {0})
  /\ bookRead' = (bookRead \/ (joined /\ cache = newest))
  /\ UNCHANGED <<vars, fan, joined, tradesRead, emitted, newest>>

\* getRecentTrades: the trades with settledAt, which their transaction sets
\* (the newest hundred of them: here there are fewer).
getRecentTrades ==
  /\ known' = known \cup Trades(Members(applied))
  /\ tradesRead' = (tradesRead \/ joined)
  /\ UNCHANGED <<vars, fan, joined, bookRead, emitted, newest>>

-----------------------------------------------------------------------------
\* The process restarts, or one of its other steps.
RestartAll ==
  /\ Restart
  /\ fanMode' = "start" /\ fanReading' = {}
  /\ Left
  /\ UNCHANGED <<fanFirst, fanDelivered, emitted, newest>>

Settling ==
  /\ \/ Publish \/ Consumer
     \/ CreateGroupFails \/ DrainReadFails \/ Throw \/ PostProcessFails \/ AckFails
  /\ newest' = Max({newest, cache'})
  /\ UNCHANGED <<fan, client, emitted>>

FanOut == FanCreateGroup \/ FanRead \/ Broadcast

FeedNext ==
  \/ Settling \/ RestartAll
  \/ FanOut \/ FanCreateGroupFails \/ FanReadFails \/ BroadcastAckFails
  \/ handleSubscribe \/ handleUnsubscribe \/ getOrderBook \/ getRecentTrades

\* The fan-out's loop runs; nothing else has to, and a client may never read.
FeedSpec == FeedInit /\ [][FeedNext]_feedVars /\ WF_feedVars(FanOut)

-----------------------------------------------------------------------------
(* Properties.                                                             *)

(* docs/12-test-plan.md RT-08: a client that joins first and then reads    *)
(* the current state is not behind what was ever broadcast, though the     *)
(* fan-out loses messages for good: it knows a book at least as new as     *)
(* each and every trade.  (A read before joining would leave a gap.)       *)
SyncedNotBehind ==
  /\ bookRead => \A e \in Books(emitted) : \E k \in Books(known) : k >= e
  /\ tradesRead => Trades(emitted) \subseteq known

(* The fan-out always comes to the newest message, whatever it lost.       *)
FeedAdvances ==
  \A i \in 1 .. Len(Kinds) : Len(announced) >= i ~> (fanDelivered >= i \/ fanMode = "dead")
=============================================================================
