---------------------------- MODULE FeedController ----------------------------
(***************************************************************************)
(* FeedController of api/feed_controller.py against the exchange's server: *)
(* subscriptions, commands and their answers, sequence numbers, and the    *)
(* books that snapshots and deltas build.                                  *)
(*                                                                         *)
(* A book is the set of the updates of its market that it shows: a         *)
(* snapshot shows the first n, a delta adds one (Orderbook has the levels).*)
(* One call is made at a time; a caller may go on after one that raised.   *)
(* The connection delivers in order; the server may fail to send a message *)
(* it has numbered, and may take any time for a request.                   *)
(***************************************************************************)
EXTENDS Integers, FiniteSets, Sequences, Functions

CONSTANTS
  Tickers, Channels,
  BookChannel,     \* ORDERBOOK_CHANNEL
  CommandTimeout,  \* command_timeout
  ChannelTuples,   \* what callers pass as channels
  MaxUpdates,      \* bound: updates of all markets
  MaxCommands,     \* bound: commands sent
  MaxSids,         \* bound: subscriptions
  MaxWire          \* bound: messages on their way

ASSUME FeedAssumption ==
  /\ BookChannel \in Channels /\ ChannelTuples \subseteq Seq(Channels)
  /\ CommandTimeout \in Nat
  /\ MaxUpdates \in Nat /\ MaxCommands \in Nat /\ MaxSids \in Nat /\ MaxWire \in Nat

VARIABLES
  ranges,      \* tickers in price_ranges_by_ticker
  books,       \* orderbooks: ticker -> the updates it shows
  sids,        \* _sids: channel -> sid
  markets,     \* _markets_by_channel
  lastSeq,     \* _last_seq_by_sid
  receiver,    \* _receiver_running
  pc,          \* where the call in progress is
  call,        \* its arguments: what is asked for, tickers, channels left
  cmd,         \* the command it waits for
  answer,      \* the result of the command's waiter
  left,        \* time left to wait for it
  truth,       \* the exchange: updates so far per ticker,
  served,      \*   channel -> its subscription, its tickers,
  live,        \*   tickers whose snapshot has been sent,
  sent,        \*   sid -> messages numbered so far,
  requests,    \*   commands on their way,
  wire         \*   messages on their way

calling == <<pc, call, cmd, answer, left>>
server  == <<truth, served, live, sent, requests>>
vars    == <<ranges, books, sids, markets, lastSeq, receiver, calling, server, wire>>

-----------------------------------------------------------------------------
NoSid == 0
NoSeq == 0

Kinds   == {"subscribe", "add", "delete", "unsubscribe"}
Calls   == [what : {"subscribe", "unsubscribe", "unsubscribe_channels"},
            tickers : SUBSET Tickers, todo : Seq(Channels)]
Command == [id : Nat, kind : Kinds, channel : Channels, tickers : SUBSET Tickers,
            sid : Nat, viaReceiver : BOOLEAN]
NoCommand ==
  [id |-> 0, kind |-> "subscribe", channel |-> BookChannel, tickers |-> {},
   sid |-> NoSid, viaReceiver |-> FALSE]
NoCall == [what |-> "subscribe", tickers |-> {}, todo |-> <<>>]

Control == [type : {"subscribed", "unsubscribed", "ok", "error", "note"},
            id : Nat, channel : Channels, sid : Nat, seq : Nat]
Update  == [type : {"snapshot", "delta"}, ticker : Tickers, upd : Nat,
            sid : Nat, seq : Nat]

Without(f, S) == Restrict(f, DOMAIN f \ S)
With(f, k, v) == [x \in DOMAIN f \cup {k} |-> IF x = k THEN v ELSE f[x]]

Init ==
  /\ ranges = {} /\ books = [t \in {} |-> {}] /\ sids = [c \in {} |-> NoSid]
  /\ markets = [c \in Channels |-> {}] /\ lastSeq = [s \in {} |-> 0]
  /\ receiver = FALSE
  /\ pc = "idle" /\ call = NoCall /\ cmd = NoCommand /\ answer = "none" /\ left = 0
  /\ truth = [t \in Tickers |-> 0]
  /\ served = [c \in {} |-> [sid |-> NoSid, tickers |-> {}]]
  /\ live = {} /\ sent = <<>> /\ requests = <<>> /\ wire = <<>>

-----------------------------------------------------------------------------
(* Calls.  They visit the channels one after the other.                    *)
Call(what, tickers, channels) ==
  /\ pc = "idle" /\ cmd.id + Len(channels) <= MaxCommands
  /\ call' = [what |-> what, tickers |-> tickers, todo |-> channels]
  /\ UNCHANGED <<ranges, books, sids, markets, lastSeq, receiver, cmd, answer, left,
                 server, wire>>

Subscribe(tickers, channels) ==
  /\ Call("subscribe", tickers, channels)
  /\ pc' = IF BookChannel \in Range(channels) /\ ~ tickers \subseteq ranges
           THEN "ranges" ELSE "next"

Unsubscribe(tickers, channels) ==
  Call("unsubscribe", tickers, channels) /\ pc' = "next"

UnsubscribeChannels(channels) ==
  Call("unsubscribe_channels", {}, channels) /\ pc' = "next"

(* _load_price_ranges returns, or raises with some of them loaded.         *)
LoadPriceRanges(found) ==
  /\ pc = "ranges" /\ found \subseteq call.tickers \ ranges
  /\ ranges' = ranges \cup found
  /\ pc' = IF call.tickers \subseteq ranges' THEN "next" ELSE "idle"
  /\ UNCHANGED <<books, sids, markets, lastSeq, receiver, call, cmd, answer, left,
                 server, wire>>

Todo == Head(call.todo)

SkipChannel ==
  call' = [call EXCEPT !.todo = Tail(@)] /\ UNCHANGED <<pc, cmd, answer, left, requests>>

CallRaises == pc' = "idle" /\ UNCHANGED <<call, cmd, answer, left, requests>>

CommandId == cmd.id + 1

(* _run_command up to the wait for the answer.                             *)
Send(kind, channel, tickers) ==
  /\ cmd' = [id |-> CommandId, kind |-> kind, channel |-> channel, tickers |-> tickers,
             sid |-> IF channel \in DOMAIN sids THEN sids[channel] ELSE NoSid,
             viaReceiver |-> receiver]
  /\ requests' = Append(requests, cmd')
  /\ answer' = "none" /\ left' = CommandTimeout /\ pc' = "waiting"
  /\ UNCHANGED call

(* The channel of the call that comes next, none of its tickers new.       *)
SubscribeMarkets ==
  LET new == call.tickers \ markets[Todo]
  IN  IF new = {} THEN SkipChannel /\ UNCHANGED markets
      ELSE /\ markets' = [markets EXCEPT ![Todo] = @ \cup new]
           /\ Send(IF Todo \in DOMAIN sids THEN "add" ELSE "subscribe", Todo, new)

UnsubscribeMarkets ==
  LET gone == call.tickers \cap markets[Todo]
  IN  /\ UNCHANGED markets
      /\ IF gone = {} THEN SkipChannel
         ELSE IF Todo \notin DOMAIN sids THEN CallRaises
         ELSE Send(IF gone = markets[Todo] THEN "unsubscribe" ELSE "delete", Todo, gone)

UnsubscribeChannel ==
  /\ UNCHANGED markets
  /\ IF Todo \notin DOMAIN sids THEN SkipChannel ELSE Send("unsubscribe", Todo, {})

NextChannel ==
  /\ pc = "next" /\ call.todo # <<>>
  /\ CASE call.what = "subscribe" -> SubscribeMarkets
       [] call.what = "unsubscribe" -> UnsubscribeMarkets
       [] call.what = "unsubscribe_channels" -> UnsubscribeChannel
  /\ UNCHANGED <<ranges, books, sids, lastSeq, receiver, truth, served, live, sent, wire>>

CallReturns ==
  /\ pc = "next" /\ call.todo = <<>> /\ pc' = "idle"
  /\ UNCHANGED <<ranges, books, sids, markets, lastSeq, receiver, call, cmd, answer,
                 left, server, wire>>

-----------------------------------------------------------------------------
(* The end of a command.                                                   *)
Subscribing == cmd.kind \in {"subscribe", "add"}

DropBooks(channel, tickers) ==
  IF channel = BookChannel THEN Without(books, tickers) ELSE books

(* The except clause of _subscribe_markets; the call raises.               *)
CommandRaises ==
  /\ pc' = "idle"
  /\ markets' = IF Subscribing THEN [markets EXCEPT ![cmd.channel] = @ \ cmd.tickers]
                ELSE markets
  /\ books' = IF Subscribing THEN DropBooks(cmd.channel, cmd.tickers) ELSE books
  /\ UNCHANGED <<call, cmd, answer, left>>

ClearChannel(channel) ==
  /\ sids' = Without(sids, {channel})
  /\ lastSeq' = Without(lastSeq, {sids[channel]})
  /\ markets' = [markets EXCEPT ![channel] = {}]
  /\ books' = DropBooks(channel, markets[channel])

CommandSucceeds ==
  /\ pc' = "next" /\ call' = [call EXCEPT !.todo = Tail(@)]
  /\ UNCHANGED <<cmd, answer, left>>
  /\ CASE Subscribing -> UNCHANGED <<sids, lastSeq, markets, books>>
       [] cmd.kind = "delete" ->
            /\ markets' = [markets EXCEPT ![cmd.channel] = @ \ cmd.tickers]
            /\ books' = DropBooks(cmd.channel, cmd.tickers)
            /\ UNCHANGED <<sids, lastSeq>>
       [] cmd.kind = "unsubscribe" ->
            IF cmd.channel \in DOMAIN sids /\ sids[cmd.channel] = cmd.sid
            THEN ClearChannel(cmd.channel)
            ELSE UNCHANGED <<sids, lastSeq, markets, books>>

(* The answer has come; an answer that leaves no sid is an error too.      *)
CommandAnswered ==
  /\ pc = "waiting" /\ answer # "none"
  /\ IF answer = "error" \/ (cmd.kind = "subscribe" /\ cmd.channel \notin DOMAIN sids)
     THEN CommandRaises /\ UNCHANGED <<sids, lastSeq>>
     ELSE CommandSucceeds
  /\ UNCHANGED <<ranges, receiver, server, wire>>

CommandTimesOut ==
  /\ pc = "waiting" /\ answer = "none" /\ left = 0
  /\ CommandRaises
  /\ UNCHANGED <<ranges, sids, lastSeq, receiver, server, wire>>

Tick ==
  /\ pc = "waiting" /\ left > 0 /\ left' = left - 1
  /\ UNCHANGED <<ranges, books, sids, markets, lastSeq, receiver, pc, call, cmd, answer,
                 server, wire>>

-----------------------------------------------------------------------------
(* handle_message.  Messages are taken by run_forever, by a caller between *)
(* its calls, or by a command that waits for its answer; none between one  *)
(* channel of a call and the next.                                         *)
Receiving ==
  \/ receiver /\ pc # "next"
  \/ pc = "idle"
  \/ pc = "waiting" /\ ~ cmd.viaReceiver /\ answer = "none" /\ left > 0

Message == Head(wire)

Known(sid) == sid \in Range(sids)

(* Faulty: only a number that was seen before is refused.                  *)
SequenceRepeat ==
  /\ Known(Message.sid) /\ Message.seq # NoSeq /\ Message.sid \in DOMAIN lastSeq
  /\ Message.seq <= lastSeq[Message.sid]

SequenceGap ==
  /\ Known(Message.sid) /\ Message.seq # NoSeq /\ Message.sid \in DOMAIN lastSeq
  /\ Message.seq # lastSeq[Message.sid] + 1

UpdateSidSequence ==
  IF Known(Message.sid) /\ Message.seq # NoSeq
  THEN With(lastSeq, Message.sid, Message.seq) ELSE lastSeq

(* An exception of handle_message ends run_forever, the caller's recv, or  *)
(* the command that was receiving.                                         *)
ReceiveRaises ==
  /\ receiver' = FALSE
  /\ IF ~ receiver /\ pc = "waiting" THEN CommandRaises
     ELSE UNCHANGED <<markets, books, calling>>

TakeMessage == Receiving /\ wire # <<>> /\ wire' = Tail(wire)

GapRaises ==
  /\ TakeMessage /\ SequenceGap /\ ReceiveRaises
  /\ UNCHANGED <<ranges, sids, lastSeq, server>>

Handle(type) ==
  /\ TakeMessage /\ ~ SequenceGap /\ Message.type = type
  /\ UNCHANGED <<ranges, server>>

(* Faulty: any book of the subscription is taken.                          *)
FollowedAny == BookChannel \in DOMAIN sids /\ Message.sid = sids[BookChannel]

(* Is the message about a book that is followed?                           *)
Followed ==
  /\ BookChannel \in DOMAIN sids /\ Message.sid = sids[BookChannel]
  /\ Message.ticker \in markets[BookChannel]

HandleSnapshot ==
  /\ Handle("snapshot") /\ lastSeq' = UpdateSidSequence /\ UNCHANGED sids
  /\ IF Followed /\ Message.ticker \notin ranges THEN ReceiveRaises
     ELSE /\ books' = IF Followed THEN With(books, Message.ticker, 1..Message.upd)
                      ELSE books
          /\ UNCHANGED <<markets, receiver, calling>>

(* Faulty: a delta before the snapshot starts a book.                      *)
HandleDeltaFirst ==
  /\ Handle("delta") /\ lastSeq' = UpdateSidSequence /\ UNCHANGED sids
  /\ books' = IF ~ Followed THEN books
              ELSE With(books, Message.ticker,
                        {Message.upd} \cup IF Message.ticker \in DOMAIN books
                                          THEN books[Message.ticker] ELSE {})
  /\ UNCHANGED <<markets, receiver, calling>>

HandleDelta ==
  /\ Handle("delta") /\ lastSeq' = UpdateSidSequence /\ UNCHANGED sids
  /\ IF Followed /\ Message.ticker \notin DOMAIN books THEN ReceiveRaises
     ELSE /\ books' = IF Followed
                      THEN [books EXCEPT ![Message.ticker] = @ \cup {Message.upd}]
                      ELSE books
          /\ UNCHANGED <<markets, receiver, calling>>

(* Faulty: whatever comes is the answer.                                   *)
IsAnyAnswer == pc = "waiting" /\ answer = "none"

IsAnswer == pc = "waiting" /\ answer = "none" /\ Message.id = cmd.id

Answer(result) ==
  /\ answer' = IF IsAnswer THEN result ELSE answer
  /\ UNCHANGED <<receiver, pc, call, cmd, left>>

HandleSubscribed ==
  /\ Handle("subscribed") /\ Answer("ok")
  /\ sids' = With(sids, Message.channel, Message.sid)
  /\ UNCHANGED <<markets, books, lastSeq>>

HandleUnsubscribed ==
  /\ Handle("unsubscribed") /\ Answer("ok")
  /\ IF Known(Message.sid)
     THEN \E channel \in DOMAIN sids :
            sids[channel] = Message.sid /\ ClearChannel(channel)
     ELSE UNCHANGED <<sids, lastSeq, markets, books>>

HandleOk ==
  /\ Handle("ok") /\ Answer("ok") /\ lastSeq' = UpdateSidSequence
  /\ UNCHANGED <<sids, markets, books>>

(* An error that answers no waiting command raises.                        *)
HandleError ==
  /\ Handle("error") /\ UNCHANGED <<sids, lastSeq>>
  /\ IF IsAnswer THEN Answer("error") /\ UNCHANGED <<markets, books>>
     ELSE ReceiveRaises

(* Faulty: the wait starts over with each message.                         *)
HandleNoteWaitsOn ==
  /\ Handle("note") /\ left' = CommandTimeout
  /\ UNCHANGED <<books, sids, markets, lastSeq, receiver, pc, call, cmd, answer>>

(* A message of the fill channel or the like, without a number.            *)
HandleNote ==
  /\ Handle("note")
  /\ UNCHANGED <<books, sids, markets, lastSeq, receiver, calling>>

HandleMessage ==
  \/ GapRaises \/ HandleSnapshot \/ HandleDelta \/ HandleSubscribed
  \/ HandleUnsubscribed \/ HandleOk \/ HandleError \/ HandleNote

RunForever ==
  /\ pc = "idle" /\ ~ receiver /\ receiver' = TRUE
  /\ UNCHANGED <<ranges, books, sids, markets, lastSeq, calling, server, wire>>

(* The receiver and the call are canceled, the connection closed.          *)
Close ==
  /\ pc \notin {"next", "closed"} /\ pc' = "closed" /\ receiver' = FALSE
  /\ books' = Without(books, DOMAIN books) /\ sids' = Without(sids, DOMAIN sids)
  /\ lastSeq' = Without(lastSeq, DOMAIN lastSeq)
  /\ markets' = [c \in Channels |-> {}]
  /\ wire' = <<>> /\ requests' = <<>>
  /\ served' = Without(served, DOMAIN served) /\ live' = {}
  /\ UNCHANGED <<ranges, call, cmd, answer, left, truth, sent>>

-----------------------------------------------------------------------------
(* The server.  A message it fails to send keeps its number.               *)
Sent(messages) == wire' = wire \o messages /\ Len(wire') <= MaxWire

Numbered(sid) == sent' = [sent EXCEPT ![sid] = @ + 1]

Reply(type, r, sid, seq) ==
  [type |-> type, id |-> r.id, channel |-> r.channel, sid |-> sid, seq |-> seq]

IsServed(r) == r.channel \in DOMAIN served /\ served[r.channel].sid = r.sid

TakeRequest == requests # <<>> /\ requests' = Tail(requests)

Request == Head(requests)

Exchange(unchanged) ==
  UNCHANGED <<unchanged, ranges, books, sids, markets, lastSeq, receiver, calling>>

(* Any request may be refused; a second subscription of a channel is.      *)
Refuse ==
  /\ TakeRequest /\ Sent(<<Reply("error", Request, NoSid, NoSeq)>>)
  /\ Exchange(<<truth, served, live, sent>>)

ServeSubscribe ==
  LET sid == Len(sent) + 1
  IN  /\ TakeRequest /\ Request.kind = "subscribe"
      /\ Request.channel \notin DOMAIN served /\ sid <= MaxSids
      /\ served' = With(served, Request.channel,
                         [sid |-> sid, tickers |-> Request.tickers])
      /\ sent' = Append(sent, 0)
      /\ Sent(<<Reply("subscribed", Request, sid, NoSeq)>>)
      /\ Exchange(<<truth, live>>)

(* Tickers it has already may be given a new snapshot, or not.             *)
ServeAdd ==
  /\ TakeRequest /\ Request.kind = "add" /\ IsServed(Request)
  /\ served' = [served EXCEPT ![Request.channel].tickers = @ \cup Request.tickers]
  /\ IF Request.channel = BookChannel
     THEN \E again \in SUBSET (Request.tickers \cap live) : live' = live \ again
     ELSE UNCHANGED live
  /\ Numbered(Request.sid)
  /\ Sent(<<Reply("ok", Request, Request.sid, sent'[Request.sid])>>)
  /\ Exchange(<<truth>>)

ServeDelete ==
  /\ TakeRequest /\ Request.kind = "delete" /\ IsServed(Request)
  /\ served' = [served EXCEPT ![Request.channel].tickers = @ \ Request.tickers]
  /\ live' = IF Request.channel = BookChannel THEN live \ Request.tickers ELSE live
  /\ Numbered(Request.sid)
  /\ Sent(<<Reply("ok", Request, Request.sid, sent'[Request.sid])>>)
  /\ Exchange(<<truth>>)

(* The end of a subscription is told in two ways.                          *)
ServeUnsubscribe(type) ==
  /\ TakeRequest /\ Request.kind = "unsubscribe" /\ IsServed(Request)
  /\ served' = Without(served, {Request.channel})
  /\ live' = IF Request.channel = BookChannel THEN {} ELSE live
  /\ Numbered(Request.sid)
  /\ Sent(<<Reply(type, Request, Request.sid, sent'[Request.sid])>>)
  /\ Exchange(<<truth>>)

BookSid == served[BookChannel].sid

BookMessage(type, t, n) ==
  <<[type |-> type, ticker |-> t, upd |-> n, sid |-> BookSid, seq |-> sent'[BookSid]]>>

SendSnapshot(t) ==
  /\ BookChannel \in DOMAIN served /\ t \in served[BookChannel].tickers \ live
  /\ live' = live \cup {t}
  /\ Numbered(BookSid)
  /\ Sent(BookMessage("snapshot", t, truth[t])) \/ UNCHANGED wire
  /\ Exchange(<<truth, served, requests>>)

Updates == FoldFunction(+, 0, truth)

(* The book of a market changes; who follows it is told, or should be.     *)
MarketMoves(t) ==
  /\ Updates < MaxUpdates /\ truth' = [truth EXCEPT ![t] = @ + 1]
  /\ IF t \in live
     THEN Numbered(BookSid) /\ (Sent(BookMessage("delta", t, truth'[t])) \/ UNCHANGED wire)
     ELSE UNCHANGED <<sent, wire>>
  /\ Exchange(<<served, live, requests>>)

SendNote(channel) ==
  /\ channel \in DOMAIN served \ {BookChannel} /\ wire = <<>>
  /\ Sent(<<[type |-> "note", id |-> 0, channel |-> channel,
             sid |-> served[channel].sid, seq |-> NoSeq]>>)
  /\ Exchange(server)

Server ==
  \/ Refuse \/ ServeSubscribe \/ ServeAdd \/ ServeDelete
  \/ \E type \in {"unsubscribed", "ok"} : ServeUnsubscribe(type)
  \/ \E t \in Tickers : SendSnapshot(t) \/ MarketMoves(t)
  \/ \E channel \in Channels : SendNote(channel)

Caller ==
  \/ \E T \in SUBSET Tickers \ {{}}, channels \in ChannelTuples :
       Subscribe(T, channels) \/ Unsubscribe(T, channels)
  \/ \E channels \in ChannelTuples : UnsubscribeChannels(channels)
  \/ RunForever \/ Close

Controller ==
  \/ \E found \in SUBSET call.tickers : LoadPriceRanges(found)
  \/ NextChannel \/ CallReturns \/ CommandAnswered \/ CommandTimesOut \/ HandleMessage

Next == Caller \/ Controller \/ Tick \/ Server

Spec == Init /\ [][Next]_vars

(* A waiter that has its result, a timer that is due and the clock get     *)
(* their turn; nothing is assumed of callers and server.                   *)
FairSpec ==
  Spec /\ WF_vars(CommandAnswered) /\ WF_vars(CommandTimesOut) /\ WF_vars(Tick)

-----------------------------------------------------------------------------
TypeOK ==
  /\ ranges \subseteq Tickers
  /\ DOMAIN books \subseteq Tickers /\ \A t \in DOMAIN books : books[t] \subseteq Nat
  /\ DOMAIN sids \subseteq Channels /\ \A c \in DOMAIN sids : sids[c] \in Nat
  /\ markets \in [Channels -> SUBSET Tickers]
  /\ \A s \in DOMAIN lastSeq : s \in Nat /\ lastSeq[s] \in Nat
  /\ receiver \in BOOLEAN
  /\ pc \in {"idle", "ranges", "next", "waiting", "closed"}
  /\ call \in Calls /\ cmd \in Command
  /\ answer \in {"none", "ok", "error"} /\ left \in Nat
  /\ truth \in [Tickers -> Nat]
  /\ DOMAIN served \subseteq Channels
  /\ \A c \in DOMAIN served : served[c] \in [sid : Nat, tickers : SUBSET Tickers]
  /\ live \subseteq Tickers /\ sent \in Seq(Nat)
  /\ requests \in Seq(Command) /\ wire \in Seq(Control \cup Update)

NoneMissing ==
  \A t \in DOMAIN books : \E n \in 0..truth[t] : books[t] = 1..n

(* The same as a refinement: a book shown also never goes back, until it   *)
(* is dropped.  A book that is not one the market had shows no state.      *)
Shown ==
  [t \in DOMAIN books |->
     IF books[t] = 1..Cardinality(books[t]) THEN Cardinality(books[t]) ELSE -1]

Abstract == INSTANCE Mirror WITH shown <- Shown

ImplementsMirror == Abstract!Spec

NumbersCoverBooks ==
  \A t \in DOMAIN books \cap live :
    LET s == sids[BookChannel]
    IN  s \in DOMAIN lastSeq /\ lastSeq[s] = sent[s] => books[t] = 1..truth[t]

(* Every book shown is one the market had: whatever was lost, late or      *)
(* given up, no update is missing below the last one shown.  And a         *)
(* controller that has every number of its subscription has every update,  *)
(* of the markets the server still follows for it.                         *)
BooksAreGenuine == NoneMissing /\ NumbersCoverBooks

(* No book without a subscription to it, not even one that a message on    *)
(* its way brings back, and none without the price levels of its market.   *)
NoGhostBook ==
  /\ DOMAIN books \subseteq markets[BookChannel]
  /\ markets[BookChannel] \subseteq ranges
  /\ DOMAIN books # {} => BookChannel \in DOMAIN sids

(* A subscription that is reported to have succeeded is served: no answer  *)
(* to an earlier command is taken for it.                                  *)
SuccessIsServed ==
  pc = "waiting" /\ answer = "ok" /\ Subscribing =>
    cmd.channel \in DOMAIN served /\ cmd.tickers \subseteq served[cmd.channel].tickers

(* A command ends, in its answer or its timeout, however busy the feed.    *)
CommandEnds == pc = "waiting" ~> pc # "waiting"
=============================================================================
