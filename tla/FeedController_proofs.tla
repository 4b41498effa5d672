------------------------ MODULE FeedController_proofs ------------------------
(***************************************************************************)
(* The types of the feed controller and that it keeps no book without a    *)
(* subscription, for any markets, channels, callers, timing and losses;    *)
(* then that what it tells and shows is the server's: a call that          *)
(* succeeded is served (SuccessesAreServed), the books are of one moment   *)
(* of the exchange (GenuineBooks), and together they are the mirror's      *)
(* (FeedMirrors).  FollowInv, what these rest on, says which subscription  *)
(* a message is about and what was told under its numbers.                 *)
(***************************************************************************)
EXTENDS FeedController, SequenceTheorems, FiniteSetTheorems, TLAPS

-----------------------------------------------------------------------------
(* The inductive invariant, in parts.                                      *)
BookTypes ==
  /\ ranges \subseteq Tickers
  /\ DOMAIN books \subseteq Tickers /\ \A t \in DOMAIN books : books[t] \subseteq Nat
  /\ markets \in [Channels -> SUBSET Tickers]

NumberTypes ==
  /\ DOMAIN sids \subseteq Channels /\ \A c \in DOMAIN sids : sids[c] \in Nat
  /\ \A s \in DOMAIN lastSeq : s \in Nat /\ lastSeq[s] \in Nat
  /\ receiver \in BOOLEAN

CallTypes ==
  /\ pc \in {"idle", "ranges", "next", "waiting", "closed"}
  /\ call \in Calls /\ cmd \in Command
  /\ answer \in {"none", "ok", "error"} /\ left \in Nat

ServedTypes ==
  /\ truth \in [Tickers -> Nat]
  /\ DOMAIN served \subseteq Channels
  /\ \A c \in DOMAIN served : served[c] \in [sid : Nat, tickers : SUBSET Tickers]
  /\ live \subseteq Tickers /\ sent \in Seq(Nat)

WireTypes == requests \in Seq(Command) /\ wire \in Seq(Control \cup Update)

(* A command is sent for a channel of the call; what a call subscribes to, *)
(* its price levels are loaded.                                            *)
CallOK ==
  /\ pc = "waiting" => call.todo # <<>>
  /\ /\ pc \in {"next", "waiting"} /\ call.what = "subscribe"
     /\ BookChannel \in Range(call.todo)
     => call.tickers \subseteq ranges

(* The server numbers the messages of every subscription it serves, and    *)
(* sends snapshots only while it serves the books.                         *)
ServedNumbered ==
  /\ \A c \in DOMAIN served : served[c].sid \in DOMAIN sent
  /\ live # {} => BookChannel \in DOMAIN served

FeedInv ==
  /\ BookTypes /\ NumberTypes /\ CallTypes /\ ServedTypes /\ WireTypes
  /\ NoGhostBook /\ CallOK /\ ServedNumbered

LEMMA PartsAreTypes ==
  (BookTypes /\ NumberTypes /\ CallTypes /\ ServedTypes /\ WireTypes) <=> TypeOK
BY DEF BookTypes, NumberTypes, CallTypes, ServedTypes, WireTypes, TypeOK

-----------------------------------------------------------------------------
(* Sequences and functions.                                                *)
LEMMA HeadAndTail ==
  ASSUME NEW S, NEW s \in Seq(S), s # <<>>
  PROVE  /\ Head(s) \in S /\ Tail(s) \in Seq(S)
         /\ Head(s) \in Range(s) /\ Range(Tail(s)) \subseteq Range(s)
<1>1. Len(s) \in Nat \ {0} /\ DOMAIN s = 1..Len(s)
  BY EmptySeq, LenProperties
<1>2. Head(s) = s[1] /\ s[1] \in S
  BY <1>1, ElementOfSeq
<1>3. Tail(s) \in Seq(S) /\ Len(Tail(s)) = Len(s) - 1
  BY HeadTailProperties
<1>4. \A i \in 1..Len(Tail(s)) : Tail(s)[i] = s[i + 1] /\ i + 1 \in 1..Len(s)
  BY <1>1, <1>3, HeadTailProperties
<1>5. DOMAIN Tail(s) = 1..Len(Tail(s))
  BY <1>3, LenProperties
<1> QED
  BY <1>1, <1>2, <1>3, <1>4, <1>5 DEF Range

(* g is f without the keys S.                                             *)
IsPart(g, f, S) == DOMAIN g = DOMAIN f \ S /\ \A x \in DOMAIN g : g[x] = f[x]

LEMMA WithoutIsPart ==
  ASSUME NEW f, NEW S
  PROVE  IsPart(Without(f, S), f, S)
BY DEF Without, Restrict, IsPart

(* The message that is taken is one the server may send.                   *)
LEMMA MessageTaken ==
  ASSUME WireTypes, TakeMessage
  PROVE  /\ Message \in Control \cup Update
         /\ wire' \in Seq(Control \cup Update)
         /\ Message.sid \in Nat /\ Message.seq \in Nat
         /\ Message.type \in {"snapshot", "delta"} =>
              Message.ticker \in Tickers /\ Message.upd \in Nat
         /\ Message.type = "subscribed" => Message.channel \in Channels
<1>1. Message \in Control \cup Update /\ wire' \in Seq(Control \cup Update)
  BY HeadAndTail DEF WireTypes, TakeMessage, Message
<1> QED
  BY <1>1 DEF Control, Update

-----------------------------------------------------------------------------
(* The end of a command, whatever else changes.                            *)
(* b are the books without those of the tickers S of channel c.            *)
BooksLess(b, c, S) ==
  /\ DOMAIN b = IF c = BookChannel THEN DOMAIN books \ S ELSE DOMAIN books
  /\ \A t \in DOMAIN b : b[t] = books[t]

LEMMA BooksDropped ==
  ASSUME NEW c, NEW S
  PROVE  BooksLess(DropBooks(c, S), c, S)
<1>1. CASE c = BookChannel
  <2>1. DropBooks(c, S) = Without(books, S)  BY <1>1 DEF DropBooks
  <2>2. IsPart(Without(books, S), books, S)  BY WithoutIsPart
  <2> QED  BY <1>1, <2>1, <2>2 DEF IsPart, BooksLess
<1>2. CASE c # BookChannel
  <2>1. DropBooks(c, S) = books  BY <1>2 DEF DropBooks
  <2> QED  BY <1>2, <2>1 DEF BooksLess
<1> QED  BY <1>1, <1>2

LEMMA RollbackKeeps ==
  ASSUME FeedInv, pc = "waiting", CommandRaises, UNCHANGED <<ranges, sids>>
  PROVE  BookTypes' /\ CallTypes' /\ NoGhostBook' /\ CallOK'
<1>1. CallTypes' /\ CallOK'
  BY DEF FeedInv, CallTypes, CallOK, CommandRaises
<1>2. cmd.channel \in Channels /\ BookChannel \in Channels
  BY FeedAssumption DEF FeedInv, CallTypes, Command
<1>3. /\ markets' \in [Channels -> SUBSET Tickers]
      /\ markets'[BookChannel] \subseteq markets[BookChannel]
  BY <1>2 DEF FeedInv, BookTypes, CommandRaises
<1>4. /\ DOMAIN books' \subseteq DOMAIN books
      /\ \A t \in DOMAIN books' : books'[t] = books[t]
  <2>1. CASE Subscribing
    <3>1. books' = DropBooks(cmd.channel, cmd.tickers)  BY <2>1 DEF CommandRaises
    <3>2. BooksLess(DropBooks(cmd.channel, cmd.tickers), cmd.channel, cmd.tickers)
      BY BooksDropped
    <3> QED  BY <3>1, <3>2 DEF BooksLess
  <2>2. CASE ~ Subscribing
    BY <2>2 DEF CommandRaises
  <2> QED  BY <2>1, <2>2
<1>5. DOMAIN books' \subseteq markets'[BookChannel]
  <2>1. CASE Subscribing /\ cmd.channel = BookChannel
    <3>1. DOMAIN books' = DOMAIN books \ cmd.tickers
      <4>1. books' = DropBooks(cmd.channel, cmd.tickers)  BY <2>1 DEF CommandRaises
      <4>2. BooksLess(DropBooks(cmd.channel, cmd.tickers), cmd.channel, cmd.tickers)
        BY BooksDropped
      <4> QED  BY <2>1, <4>1, <4>2 DEF BooksLess
    <3>2. markets'[BookChannel] = markets[BookChannel] \ cmd.tickers
      BY <2>1, <1>2 DEF CommandRaises, FeedInv, BookTypes
    <3> QED  BY <3>1, <3>2 DEF FeedInv, NoGhostBook
  <2>2. CASE ~ (Subscribing /\ cmd.channel = BookChannel)
    <3>1. markets'[BookChannel] = markets[BookChannel]
      BY <2>2, <1>2 DEF CommandRaises, FeedInv, BookTypes
    <3> QED  BY <3>1, <1>4 DEF FeedInv, NoGhostBook
  <2> QED  BY <2>1, <2>2
<1> QED
  BY <1>1, <1>3, <1>4, <1>5 DEF FeedInv, BookTypes, NoGhostBook

LEMMA ClearKeeps ==
  ASSUME FeedInv, NEW c \in DOMAIN sids, ClearChannel(c), UNCHANGED <<ranges, receiver>>
  PROVE  BookTypes' /\ NumberTypes' /\ NoGhostBook'
<1>1. c \in Channels /\ BookChannel \in Channels
  BY FeedAssumption DEF FeedInv, NumberTypes
<1>2. /\ markets' \in [Channels -> SUBSET Tickers]
      /\ \A d \in Channels : markets'[d] = IF d = c THEN {} ELSE markets[d]
  BY <1>1 DEF FeedInv, BookTypes, ClearChannel
<1>3. /\ DOMAIN sids' = DOMAIN sids \ {c}
      /\ \A d \in DOMAIN sids' : sids'[d] = sids[d]
  <2>1. sids' = Without(sids, {c})  BY DEF ClearChannel
  <2>2. IsPart(Without(sids, {c}), sids, {c})  BY WithoutIsPart
  <2> QED  BY <2>1, <2>2 DEF IsPart
<1>7. /\ DOMAIN lastSeq' \subseteq DOMAIN lastSeq
      /\ \A s \in DOMAIN lastSeq' : lastSeq'[s] = lastSeq[s]
  <2>1. lastSeq' = Without(lastSeq, {sids[c]})  BY DEF ClearChannel
  <2>2. IsPart(Without(lastSeq, {sids[c]}), lastSeq, {sids[c]})  BY WithoutIsPart
  <2> QED  BY <2>1, <2>2 DEF IsPart
<1>4. /\ \A t \in DOMAIN books' : books'[t] = books[t]
      /\ DOMAIN books' =
           IF c = BookChannel THEN DOMAIN books \ markets[BookChannel] ELSE DOMAIN books
  <2>1. books' = DropBooks(c, markets[c])  BY DEF ClearChannel
  <2>2. BooksLess(DropBooks(c, markets[c]), c, markets[c])  BY BooksDropped
  <2> QED  BY <2>1, <2>2 DEF BooksLess
<1>5. BookTypes' /\ NumberTypes'
  BY <1>2, <1>3, <1>4, <1>7 DEF FeedInv, BookTypes, NumberTypes
<1>6. NoGhostBook'
  BY <1>1, <1>2, <1>3, <1>4 DEF FeedInv, NoGhostBook
<1> QED  BY <1>5, <1>6
LEMMA ServedKept ==
  ASSUME FeedInv, UNCHANGED <<truth, served, live, sent>>
  PROVE  ServedTypes' /\ ServedNumbered'
BY DEF FeedInv, ServedTypes, ServedNumbered

-----------------------------------------------------------------------------
(* The calls.                                                              *)
LEMMA CallKeeps ==
  ASSUME FeedInv, NEW what \in {"subscribe", "unsubscribe", "unsubscribe_channels"},
         NEW T \in SUBSET Tickers, NEW channels \in ChannelTuples,
         Call(what, T, channels), pc' \in {"ranges", "next"},
         what = "subscribe" /\ BookChannel \in Range(channels) /\ pc' = "next"
           => T \subseteq ranges
  PROVE  FeedInv'
<1>1. ServedTypes' /\ ServedNumbered'
  BY ServedKept DEF Call, server
<1>2. call' = [what |-> what, tickers |-> T, todo |-> channels] /\ call' \in Calls
  BY FeedAssumption DEF Call, Calls
<1>3. CallTypes'
  BY <1>2 DEF FeedInv, CallTypes, Call
<1>4. BookTypes' /\ NumberTypes' /\ WireTypes' /\ NoGhostBook'
  BY DEF Call, FeedInv, BookTypes, NumberTypes, WireTypes, NoGhostBook, server
<1>5. CallOK'
  BY <1>2 DEF Call, CallOK
<1> QED  BY <1>1, <1>3, <1>4, <1>5 DEF FeedInv

LEMMA RangesKeeps ==
  ASSUME FeedInv, NEW found, LoadPriceRanges(found)
  PROVE  FeedInv'
<1>1. ServedTypes' /\ ServedNumbered'
  BY ServedKept DEF LoadPriceRanges, server
<1>2. NumberTypes' /\ WireTypes' /\ CallTypes'
  BY DEF LoadPriceRanges, FeedInv, NumberTypes, WireTypes, CallTypes, server
<1>3. call.tickers \subseteq Tickers
  BY DEF FeedInv, CallTypes, Calls
<1>4. BookTypes' /\ NoGhostBook' /\ CallOK'
  BY <1>3 DEF LoadPriceRanges, FeedInv, BookTypes, NoGhostBook, CallOK
<1> QED  BY <1>1, <1>2, <1>4 DEF FeedInv

(* A command that is sent, or a channel that needs none.                   *)
LEMMA NextInCall ==
  ASSUME FeedInv, pc = "next", call.todo # <<>>
  PROVE  /\ Todo \in Channels /\ call.tickers \subseteq Tickers
         /\ Tail(call.todo) \in Seq(Channels)
         /\ Range(Tail(call.todo)) \subseteq Range(call.todo)
         /\ call.what = "subscribe" /\ Todo = BookChannel => call.tickers \subseteq ranges
<1>1. call.todo \in Seq(Channels) /\ call.tickers \subseteq Tickers
  BY DEF FeedInv, CallTypes, Calls
<1>2. /\ Todo \in Channels /\ Todo \in Range(call.todo)
      /\ Tail(call.todo) \in Seq(Channels)
      /\ Range(Tail(call.todo)) \subseteq Range(call.todo)
  BY <1>1, HeadAndTail DEF Todo
<1> QED  BY <1>1, <1>2 DEF FeedInv, CallOK

LEMMA SendKeeps ==
  ASSUME FeedInv, pc = "next", call.todo # <<>>, NEW kind \in Kinds,
         NEW T \in SUBSET Tickers, Send(kind, Todo, T), UNCHANGED ranges
  PROVE  CallTypes' /\ requests' \in Seq(Command) /\ CallOK'
<1>1. Todo \in Channels  BY NextInCall
<1>2. (IF Todo \in DOMAIN sids THEN sids[Todo] ELSE NoSid) \in Nat
  BY DEF FeedInv, NumberTypes, NoSid
<1>3. CommandId \in Nat
  BY DEF FeedInv, CallTypes, Command, CommandId
<1>4. cmd' \in Command
  BY <1>1, <1>2, <1>3 DEF Send, Command, FeedInv, NumberTypes
<1>5. CallTypes'
  BY <1>4, FeedAssumption DEF FeedInv, CallTypes, Send
<1>6. requests' \in Seq(Command)
  BY <1>4, AppendProperties DEF FeedInv, WireTypes, Send
<1> QED  BY <1>5, <1>6 DEF Send, FeedInv, CallOK

LEMMA SkipKeeps ==
  ASSUME FeedInv, pc = "next", call.todo # <<>>, UNCHANGED ranges,
         call' = [call EXCEPT !.todo = Tail(@)], pc' = "next",
         UNCHANGED <<cmd, answer, left>>
  PROVE  CallTypes' /\ CallOK'
<1>1. call' \in Calls /\ call'.todo = Tail(call.todo) /\ call'.what = call.what
                      /\ call'.tickers = call.tickers
  BY NextInCall DEF FeedInv, CallTypes, Calls
<1> QED  BY <1>1, NextInCall DEF FeedInv, CallTypes, CallOK

LEMMA NextKeeps ==
  ASSUME FeedInv, NextChannel
  PROVE  FeedInv'
<1>1. pc = "next" /\ call.todo # <<>> /\ UNCHANGED <<ranges, books, sids, lastSeq, receiver>>
  BY DEF NextChannel
<1>2. ServedTypes' /\ ServedNumbered' /\ NumberTypes' /\ UNCHANGED wire
  BY ServedKept DEF NextChannel, FeedInv, NumberTypes
<1>3. ASSUME SkipChannel, UNCHANGED markets  PROVE FeedInv'
  <2>1. CallTypes' /\ CallOK'
    BY <1>1, <1>3, SkipKeeps DEF SkipChannel
  <2>2. WireTypes' /\ BookTypes' /\ NoGhostBook'
    BY <1>1, <1>2, <1>3 DEF SkipChannel, FeedInv, WireTypes, BookTypes, NoGhostBook
  <2> QED  BY <1>2, <2>1, <2>2 DEF FeedInv
<1>4. ASSUME NEW kind \in Kinds, NEW T \in SUBSET Tickers, Send(kind, Todo, T),
             BookTypes', NoGhostBook'
      PROVE  FeedInv'
  <2>1. CallTypes' /\ requests' \in Seq(Command) /\ CallOK'
    BY <1>1, <1>4, SendKeeps
  <2>2. WireTypes'  BY <1>2, <2>1 DEF FeedInv, WireTypes
  <2> QED  BY <1>2, <1>4, <2>1, <2>2 DEF FeedInv
<1>5. UNCHANGED markets => BookTypes' /\ NoGhostBook'
  BY <1>1 DEF FeedInv, BookTypes, NoGhostBook
<1>6. CASE call.what = "subscribe"
  <2> DEFINE new == call.tickers \ markets[Todo]
  <2>1. new \in SUBSET Tickers  BY <1>1, NextInCall
  <2>2. SubscribeMarkets  BY <1>6 DEF NextChannel
  <2>3. CASE new = {}
    BY <1>3, <2>2, <2>3 DEF SubscribeMarkets
  <2>4. CASE new # {}
    <3>1. markets' = [markets EXCEPT ![Todo] = @ \cup new]
      BY <2>2, <2>4 DEF SubscribeMarkets
    <3>2. Todo \in Channels /\ BookChannel \in Channels
      BY <1>1, NextInCall, FeedAssumption
    <3>3. /\ markets' \in [Channels -> SUBSET Tickers]
          /\ \A c \in Channels :
               markets'[c] = IF c = Todo THEN markets[c] \cup new ELSE markets[c]
      BY <3>1, <3>2, <2>1 DEF FeedInv, BookTypes
    <3>4. Todo = BookChannel => new \subseteq ranges
      BY <1>1, <1>6, NextInCall
    <3> HIDE DEF new
    <3>5. BookTypes' /\ NoGhostBook'
      BY <1>1, <3>2, <3>3, <3>4 DEF FeedInv, BookTypes, NoGhostBook
    <3>6. Send(IF Todo \in DOMAIN sids THEN "add" ELSE "subscribe", Todo, new)
      BY <2>2, <2>4 DEF SubscribeMarkets, new
    <3>7. (IF Todo \in DOMAIN sids THEN "add" ELSE "subscribe") \in Kinds
      BY DEF Kinds
    <3> QED  BY <1>4, <2>1, <3>5, <3>6, <3>7
  <2> QED  BY <2>3, <2>4
<1>7. CASE call.what = "unsubscribe"
  <2> DEFINE gone == call.tickers \cap markets[Todo]
  <2>1. gone \in SUBSET Tickers  BY <1>1, NextInCall
  <2>2. UnsubscribeMarkets  BY <1>7 DEF NextChannel
  <2>3. UNCHANGED markets  BY <2>2 DEF UnsubscribeMarkets
  <2>4. CASE gone = {}
    BY <1>3, <2>2, <2>3, <2>4 DEF UnsubscribeMarkets
  <2>5. CASE gone # {} /\ Todo \notin DOMAIN sids
    <3>1. CallRaises  BY <2>2, <2>5 DEF UnsubscribeMarkets
    <3>2. CallTypes' /\ CallOK' /\ WireTypes'
      BY <1>2, <3>1 DEF CallRaises, FeedInv, CallTypes, CallOK, WireTypes
    <3> QED  BY <1>2, <1>5, <2>3, <3>2 DEF FeedInv
  <2>6. CASE gone # {} /\ Todo \in DOMAIN sids
    <3>1. Send(IF gone = markets[Todo] THEN "unsubscribe" ELSE "delete", Todo, gone)
      BY <2>2, <2>6 DEF UnsubscribeMarkets
    <3>2. (IF gone = markets[Todo] THEN "unsubscribe" ELSE "delete") \in Kinds
      BY DEF Kinds
    <3> HIDE DEF gone
    <3> QED  BY <1>4, <1>5, <2>1, <2>3, <3>1, <3>2
  <2> QED  BY <2>4, <2>5, <2>6
<1>8. CASE call.what = "unsubscribe_channels"
  <2>1. UnsubscribeChannel  BY <1>8 DEF NextChannel
  <2>2. UNCHANGED markets  BY <2>1 DEF UnsubscribeChannel
  <2>3. CASE Todo \notin DOMAIN sids
    BY <1>3, <2>1, <2>2, <2>3 DEF UnsubscribeChannel
  <2>4. CASE Todo \in DOMAIN sids
    <3>1. Send("unsubscribe", Todo, {})  BY <2>1, <2>4 DEF UnsubscribeChannel
    <3>2. "unsubscribe" \in Kinds  BY DEF Kinds
    <3> QED  BY <1>4, <1>5, <2>2, <3>1, <3>2
  <2> QED  BY <2>3, <2>4
<1> QED  BY <1>6, <1>7, <1>8 DEF FeedInv, CallTypes, Calls
LEMMA ReturnKeeps ==
  ASSUME FeedInv, CallReturns
  PROVE  FeedInv'
<1>1. ServedTypes' /\ ServedNumbered'
  BY ServedKept DEF CallReturns, server
<1>2. BookTypes' /\ NumberTypes' /\ WireTypes' /\ CallTypes' /\ NoGhostBook' /\ CallOK'
  BY DEF CallReturns, server, FeedInv, BookTypes, NumberTypes, WireTypes, CallTypes,
         NoGhostBook, CallOK
<1> QED  BY <1>1, <1>2 DEF FeedInv

-----------------------------------------------------------------------------
(* The ends of a command.                                                  *)
LEMMA TimeoutKeeps ==
  ASSUME FeedInv, CommandTimesOut
  PROVE  FeedInv'
<1>1. ServedTypes' /\ ServedNumbered'
  BY ServedKept DEF CommandTimesOut, server
<1>2. BookTypes' /\ CallTypes' /\ NoGhostBook' /\ CallOK'
  BY RollbackKeeps DEF CommandTimesOut
<1>3. NumberTypes' /\ WireTypes'
  BY DEF CommandTimesOut, server, FeedInv, NumberTypes, WireTypes
<1> QED  BY <1>1, <1>2, <1>3 DEF FeedInv

LEMMA TickKeeps ==
  ASSUME FeedInv, Tick
  PROVE  FeedInv'
<1>1. ServedTypes' /\ ServedNumbered'
  BY ServedKept DEF Tick, server
<1>2. BookTypes' /\ NumberTypes' /\ WireTypes' /\ CallTypes' /\ NoGhostBook' /\ CallOK'
  BY DEF Tick, server, FeedInv, BookTypes, NumberTypes, WireTypes, CallTypes,
         NoGhostBook, CallOK
<1> QED  BY <1>1, <1>2 DEF FeedInv

(* A command that succeeds; its channel has not left the call's list yet.  *)
LEMMA SuccessKeeps ==
  ASSUME FeedInv, pc = "waiting", call.todo # <<>>, CommandSucceeds,
         UNCHANGED <<ranges, receiver>>
  PROVE  BookTypes' /\ NumberTypes' /\ CallTypes' /\ NoGhostBook' /\ CallOK'
<1>1. CallTypes' /\ CallOK'
  <2>1. call.todo \in Seq(Channels)
    BY DEF FeedInv, CallTypes, Calls
  <2>2. Tail(call.todo) \in Seq(Channels) /\ Range(Tail(call.todo)) \subseteq Range(call.todo)
    BY <2>1, HeadAndTail
  <2>3. /\ call' \in Calls /\ call'.todo = Tail(call.todo) /\ call'.what = call.what
        /\ call'.tickers = call.tickers
    BY <2>2 DEF CommandSucceeds, FeedInv, CallTypes, Calls
  <2> QED  BY <2>2, <2>3 DEF CommandSucceeds, FeedInv, CallTypes, CallOK
<1>2. cmd.channel \in Channels /\ cmd.kind \in Kinds /\ BookChannel \in Channels
  BY FeedAssumption DEF FeedInv, CallTypes, Command
<1>3. ASSUME UNCHANGED <<sids, lastSeq, markets, books>>
      PROVE  BookTypes' /\ NumberTypes' /\ NoGhostBook'
  BY <1>3 DEF FeedInv, BookTypes, NumberTypes, NoGhostBook
<1>4. CASE Subscribing
  BY <1>1, <1>3, <1>4 DEF CommandSucceeds, Subscribing
<1>5. CASE cmd.kind = "delete"
  <2>1. /\ markets' = [markets EXCEPT ![cmd.channel] = @ \ cmd.tickers]
        /\ books' = DropBooks(cmd.channel, cmd.tickers)
        /\ UNCHANGED <<sids, lastSeq>>
    BY <1>5 DEF CommandSucceeds, Subscribing
  <2>2. BooksLess(books', cmd.channel, cmd.tickers)
    <3>1. BooksLess(DropBooks(cmd.channel, cmd.tickers), cmd.channel, cmd.tickers)
      BY BooksDropped
    <3> QED  BY <2>1, <3>1
  <2>3. /\ markets' \in [Channels -> SUBSET Tickers]
        /\ \A c \in Channels :
             markets'[c] = IF c = cmd.channel THEN markets[c] \ cmd.tickers ELSE markets[c]
    BY <1>2, <2>1 DEF FeedInv, BookTypes
  <2>4. BookTypes' /\ NumberTypes'
    BY <2>1, <2>2, <2>3 DEF BooksLess, FeedInv, BookTypes, NumberTypes
  <2>5. NoGhostBook'
    BY <1>2, <2>1, <2>2, <2>3 DEF BooksLess, FeedInv, NoGhostBook
  <2> QED  BY <1>1, <2>4, <2>5
<1>6. CASE cmd.kind = "unsubscribe"
  <2>1. CASE cmd.channel \in DOMAIN sids /\ sids[cmd.channel] = cmd.sid
    <3>1. ClearChannel(cmd.channel)
      BY <1>6, <2>1 DEF CommandSucceeds, Subscribing
    <3> QED  BY <1>1, <2>1, <3>1, ClearKeeps
  <2>2. CASE ~ (cmd.channel \in DOMAIN sids /\ sids[cmd.channel] = cmd.sid)
    BY <1>1, <1>3, <1>6, <2>2 DEF CommandSucceeds, Subscribing
  <2> QED  BY <2>1, <2>2
<1> QED  BY <1>2, <1>4, <1>5, <1>6 DEF Kinds, Subscribing
LEMMA AnsweredKeeps ==
  ASSUME FeedInv, CommandAnswered
  PROVE  FeedInv'
<1>1. ServedTypes' /\ ServedNumbered' /\ WireTypes' /\ pc = "waiting"
      /\ UNCHANGED <<ranges, receiver>>
  <2>1. ServedTypes' /\ ServedNumbered'  BY ServedKept DEF CommandAnswered, server
  <2> QED  BY <2>1 DEF CommandAnswered, server, FeedInv, WireTypes
<1>2. CASE answer = "error" \/ (cmd.kind = "subscribe" /\ cmd.channel \notin DOMAIN sids)
  <2>1. CommandRaises /\ UNCHANGED <<sids, lastSeq>>
    BY <1>2 DEF CommandAnswered
  <2>2. NumberTypes'
    BY <1>1, <2>1 DEF FeedInv, NumberTypes
  <2> QED  BY <1>1, <2>1, <2>2, RollbackKeeps DEF FeedInv
<1>3. CASE ~ (answer = "error" \/ (cmd.kind = "subscribe" /\ cmd.channel \notin DOMAIN sids))
  <2>1. CommandSucceeds  BY <1>3 DEF CommandAnswered
  <2>2. call.todo # <<>>  BY <1>1 DEF FeedInv, CallOK
  <2> QED  BY <1>1, <2>1, <2>2, SuccessKeeps DEF FeedInv
<1> QED  BY <1>2, <1>3

-----------------------------------------------------------------------------
(* The messages.                                                           *)
LEMMA MessageKeeps ==
  ASSUME FeedInv, TakeMessage, UNCHANGED server
  PROVE  ServedTypes' /\ ServedNumbered' /\ WireTypes'
<1>1. ServedTypes' /\ ServedNumbered'
  BY ServedKept DEF server
<1> QED
  BY <1>1, MessageTaken DEF FeedInv, WireTypes, server

LEMMA RaiseKeeps ==
  ASSUME FeedInv, ReceiveRaises, UNCHANGED <<ranges, sids>>
  PROVE  BookTypes' /\ CallTypes' /\ NoGhostBook' /\ CallOK' /\ receiver' = FALSE
<1>1. receiver' = FALSE  BY DEF ReceiveRaises
<1>2. CASE ~ receiver /\ pc = "waiting"
  <2>1. CommandRaises  BY <1>2 DEF ReceiveRaises
  <2> QED  BY <1>1, <1>2, <2>1, RollbackKeeps
<1>3. CASE ~ (~ receiver /\ pc = "waiting")
  <2>1. UNCHANGED <<markets, books, calling>>  BY <1>3 DEF ReceiveRaises
  <2> QED
    BY <1>1, <2>1 DEF calling, FeedInv, BookTypes, CallTypes, NoGhostBook, CallOK
<1> QED  BY <1>2, <1>3

LEMMA NumberKeeps ==
  ASSUME FeedInv, TakeMessage, lastSeq' = UpdateSidSequence, UNCHANGED sids,
         receiver' \in BOOLEAN
  PROVE  NumberTypes'
<1>1. Message.sid \in Nat /\ Message.seq \in Nat
  BY MessageTaken DEF FeedInv
<1>2. CASE Known(Message.sid) /\ Message.seq # NoSeq
  <2>1. lastSeq' = With(lastSeq, Message.sid, Message.seq)
    BY <1>2 DEF UpdateSidSequence
  <2>2. \A s \in DOMAIN lastSeq' : s \in Nat /\ lastSeq'[s] \in Nat
    BY <1>1, <2>1 DEF With, FeedInv, NumberTypes
  <2> QED  BY <2>2 DEF FeedInv, NumberTypes
<1>3. CASE ~ (Known(Message.sid) /\ Message.seq # NoSeq)
  <2>1. lastSeq' = lastSeq  BY <1>3 DEF UpdateSidSequence
  <2> QED  BY <2>1 DEF FeedInv, NumberTypes
<1> QED  BY <1>2, <1>3

LEMMA GapKeeps ==
  ASSUME FeedInv, GapRaises
  PROVE  FeedInv'
<1>1. ServedTypes' /\ ServedNumbered' /\ WireTypes'
  BY MessageKeeps DEF GapRaises
<1>2. BookTypes' /\ CallTypes' /\ NoGhostBook' /\ CallOK' /\ receiver' = FALSE
  BY RaiseKeeps DEF GapRaises
<1>3. NumberTypes'
  BY <1>2 DEF GapRaises, FeedInv, NumberTypes
<1> QED  BY <1>1, <1>2, <1>3 DEF FeedInv

(* A book that changes is of a market that is followed.                    *)
LEMMA BookChanges ==
  ASSUME FeedInv, Followed, NEW b \in SUBSET Nat,
         UNCHANGED <<ranges, markets, sids, calling>>,
         DOMAIN books' = DOMAIN books \cup {Message.ticker},
         \A t \in DOMAIN books' : books'[t] = IF t = Message.ticker THEN b ELSE books[t]
  PROVE  BookTypes' /\ CallTypes' /\ NoGhostBook' /\ CallOK'
<1>1. CallTypes' /\ CallOK'
  BY DEF calling, FeedInv, CallTypes, CallOK
<1>2. /\ BookChannel \in DOMAIN sids /\ Message.ticker \in markets[BookChannel]
      /\ markets[BookChannel] \subseteq Tickers
  BY FeedAssumption DEF Followed, FeedInv, BookTypes
<1>3. BookTypes' /\ NoGhostBook'
  BY <1>2 DEF FeedInv, BookTypes, NoGhostBook
<1> QED  BY <1>1, <1>3

LEMMA BooksSame ==
  ASSUME FeedInv, UNCHANGED <<ranges, markets, sids, books, calling>>
  PROVE  BookTypes' /\ CallTypes' /\ NoGhostBook' /\ CallOK'
BY DEF calling, FeedInv, CallTypes, CallOK, BookTypes, NoGhostBook

LEMMA SnapshotKeeps ==
  ASSUME FeedInv, HandleSnapshot
  PROVE  FeedInv'
<1>1. /\ TakeMessage /\ Message.type = "snapshot" /\ UNCHANGED <<ranges, server, sids>>
      /\ lastSeq' = UpdateSidSequence
  BY DEF HandleSnapshot, Handle
<1>2. ServedTypes' /\ ServedNumbered' /\ WireTypes'
  BY <1>1, MessageKeeps
<1>3. Message.upd \in Nat
  BY <1>1, MessageTaken DEF FeedInv
<1>4. CASE Followed /\ Message.ticker \notin ranges
  <2>1. ReceiveRaises  BY <1>4 DEF HandleSnapshot
  <2>2. BookTypes' /\ CallTypes' /\ NoGhostBook' /\ CallOK' /\ receiver' = FALSE
    BY <1>1, <2>1, RaiseKeeps
  <2>3. NumberTypes'  BY <1>1, <2>2, NumberKeeps
  <2> QED  BY <1>2, <2>2, <2>3 DEF FeedInv
<1>5. CASE ~ (Followed /\ Message.ticker \notin ranges)
  <2>1. /\ books' = IF Followed THEN With(books, Message.ticker, 1..Message.upd) ELSE books
        /\ UNCHANGED <<markets, receiver, calling>>
    BY <1>5 DEF HandleSnapshot
  <2>2. NumberTypes'
    BY <1>1, <2>1, NumberKeeps DEF FeedInv, NumberTypes
  <2>3. CASE Followed
    <3>1. books' = With(books, Message.ticker, 1..Message.upd)  BY <2>1, <2>3
    <3>2. /\ DOMAIN books' = DOMAIN books \cup {Message.ticker}
          /\ \A t \in DOMAIN books' :
               books'[t] = IF t = Message.ticker THEN 1..Message.upd ELSE books[t]
      BY <3>1 DEF With
    <3>3. 1..Message.upd \in SUBSET Nat  BY <1>3
    <3> QED  BY <1>1, <1>2, <2>1, <2>2, <2>3, <3>2, <3>3, BookChanges DEF FeedInv
  <2>4. CASE ~ Followed
    <3>1. books' = books  BY <2>1, <2>4
    <3> QED  BY <1>1, <1>2, <2>1, <2>2, <3>1, BooksSame DEF FeedInv
  <2> QED  BY <2>3, <2>4
<1> QED  BY <1>4, <1>5

LEMMA DeltaKeeps ==
  ASSUME FeedInv, HandleDelta
  PROVE  FeedInv'
<1>1. /\ TakeMessage /\ Message.type = "delta" /\ UNCHANGED <<ranges, server, sids>>
      /\ lastSeq' = UpdateSidSequence
  BY DEF HandleDelta, Handle
<1>2. ServedTypes' /\ ServedNumbered' /\ WireTypes'
  BY <1>1, MessageKeeps
<1>3. Message.upd \in Nat
  BY <1>1, MessageTaken DEF FeedInv
<1>4. CASE Followed /\ Message.ticker \notin DOMAIN books
  <2>1. ReceiveRaises  BY <1>4 DEF HandleDelta
  <2>2. BookTypes' /\ CallTypes' /\ NoGhostBook' /\ CallOK' /\ receiver' = FALSE
    BY <1>1, <2>1, RaiseKeeps
  <2>3. NumberTypes'  BY <1>1, <2>2, NumberKeeps
  <2> QED  BY <1>2, <2>2, <2>3 DEF FeedInv
<1>5. CASE ~ (Followed /\ Message.ticker \notin DOMAIN books)
  <2>1. /\ books' = IF Followed
                    THEN [books EXCEPT ![Message.ticker] = @ \cup {Message.upd}]
                    ELSE books
        /\ UNCHANGED <<markets, receiver, calling>>
    BY <1>5 DEF HandleDelta
  <2>2. NumberTypes'
    BY <1>1, <2>1, NumberKeeps DEF FeedInv, NumberTypes
  <2>3. CASE Followed
    <3> DEFINE b == books[Message.ticker] \cup {Message.upd}
    <3>1. books' = [books EXCEPT ![Message.ticker] = b] /\ Message.ticker \in DOMAIN books
      BY <1>5, <2>1, <2>3
    <3>2. b \in SUBSET Nat
      BY <1>3, <3>1 DEF FeedInv, BookTypes
    <3> HIDE DEF b
    <3>3. /\ DOMAIN books' = DOMAIN books \cup {Message.ticker}
          /\ \A t \in DOMAIN books' :
               books'[t] = IF t = Message.ticker THEN b ELSE books[t]
      BY <3>1
    <3> QED  BY <1>1, <1>2, <2>1, <2>2, <2>3, <3>2, <3>3, BookChanges DEF FeedInv
  <2>4. CASE ~ Followed
    <3>1. books' = books  BY <2>1, <2>4
    <3> QED  BY <1>1, <1>2, <2>1, <2>2, <3>1, BooksSame DEF FeedInv
  <2> QED  BY <2>3, <2>4
<1> QED  BY <1>4, <1>5

(* An answer is given to the command that waits for it.                    *)
LEMMA AnswerKeeps ==
  ASSUME FeedInv, NEW result \in {"ok", "error"}, Answer(result), UNCHANGED ranges
  PROVE  CallTypes' /\ CallOK'
BY DEF Answer, FeedInv, CallTypes, CallOK

LEMMA SubscribedKeeps ==
  ASSUME FeedInv, HandleSubscribed
  PROVE  FeedInv'
<1>1. /\ TakeMessage /\ Message.type = "subscribed" /\ UNCHANGED <<ranges, server>>
      /\ Answer("ok") /\ sids' = With(sids, Message.channel, Message.sid)
      /\ UNCHANGED <<markets, books, lastSeq>>
  BY DEF HandleSubscribed, Handle
<1>2. ServedTypes' /\ ServedNumbered' /\ WireTypes' /\ CallTypes' /\ CallOK'
  BY <1>1, MessageKeeps, AnswerKeeps
<1>3. Message.channel \in Channels /\ Message.sid \in Nat
  BY <1>1, MessageTaken DEF FeedInv
<1>4. /\ DOMAIN sids' = DOMAIN sids \cup {Message.channel}
      /\ \A c \in DOMAIN sids' :
           sids'[c] = IF c = Message.channel THEN Message.sid ELSE sids[c]
  BY <1>1 DEF With
<1>5. NumberTypes'
  BY <1>1, <1>3, <1>4 DEF FeedInv, NumberTypes, Answer
<1>6. BookTypes' /\ NoGhostBook'
  BY <1>1, <1>4 DEF FeedInv, BookTypes, NoGhostBook
<1> QED  BY <1>2, <1>5, <1>6 DEF FeedInv

LEMMA UnsubscribedKeeps ==
  ASSUME FeedInv, HandleUnsubscribed
  PROVE  FeedInv'
<1>1. /\ TakeMessage /\ UNCHANGED <<ranges, server>> /\ Answer("ok")
      /\ UNCHANGED receiver
  BY DEF HandleUnsubscribed, Handle, Answer
<1>2. ServedTypes' /\ ServedNumbered' /\ WireTypes' /\ CallTypes' /\ CallOK'
  BY <1>1, MessageKeeps, AnswerKeeps
<1>3. BookTypes' /\ NumberTypes' /\ NoGhostBook'
  <2>1. CASE Known(Message.sid)
    <3>1. PICK c \in DOMAIN sids : ClearChannel(c)
      BY <2>1 DEF HandleUnsubscribed
    <3> QED  BY <1>1, <3>1, ClearKeeps
  <2>2. CASE ~ Known(Message.sid)
    <3>1. UNCHANGED <<sids, lastSeq, markets, books>>
      BY <2>2 DEF HandleUnsubscribed
    <3> QED  BY <1>1, <3>1 DEF FeedInv, BookTypes, NumberTypes, NoGhostBook
  <2> QED  BY <2>1, <2>2
<1> QED  BY <1>2, <1>3 DEF FeedInv

LEMMA OkKeeps ==
  ASSUME FeedInv, HandleOk
  PROVE  FeedInv'
<1>1. /\ TakeMessage /\ UNCHANGED <<ranges, server, sids, markets, books, receiver>>
      /\ Answer("ok") /\ lastSeq' = UpdateSidSequence
  BY DEF HandleOk, Handle, Answer
<1>2. ServedTypes' /\ ServedNumbered' /\ WireTypes' /\ CallTypes' /\ CallOK'
  BY <1>1, MessageKeeps, AnswerKeeps
<1>3. receiver' \in BOOLEAN
  BY <1>1 DEF FeedInv, NumberTypes
<1>4. NumberTypes'
  BY <1>1, <1>3, NumberKeeps
<1>5. BookTypes' /\ NoGhostBook'
  BY <1>1 DEF FeedInv, BookTypes, NoGhostBook
<1> QED  BY <1>2, <1>4, <1>5 DEF FeedInv

LEMMA ErrorKeeps ==
  ASSUME FeedInv, HandleError
  PROVE  FeedInv'
<1>1. TakeMessage /\ UNCHANGED <<ranges, server, sids, lastSeq>>
  BY DEF HandleError, Handle
<1>2. ServedTypes' /\ ServedNumbered' /\ WireTypes'
  BY <1>1, MessageKeeps
<1>3. CASE IsAnswer
  <2>1. Answer("error") /\ UNCHANGED <<markets, books, receiver>>
    BY <1>3 DEF HandleError, Answer
  <2>2. CallTypes' /\ CallOK'  BY <1>1, <2>1, AnswerKeeps
  <2>3. BookTypes' /\ NumberTypes' /\ NoGhostBook'
    BY <1>1, <2>1 DEF FeedInv, BookTypes, NumberTypes, NoGhostBook
  <2> QED  BY <1>2, <2>2, <2>3 DEF FeedInv
<1>4. CASE ~ IsAnswer
  <2>1. ReceiveRaises  BY <1>4 DEF HandleError
  <2>2. BookTypes' /\ CallTypes' /\ NoGhostBook' /\ CallOK' /\ receiver' = FALSE
    BY <1>1, <2>1, RaiseKeeps
  <2>3. NumberTypes'  BY <1>1, <2>2 DEF FeedInv, NumberTypes
  <2> QED  BY <1>2, <2>2, <2>3 DEF FeedInv
<1> QED  BY <1>3, <1>4

LEMMA NoteKeeps ==
  ASSUME FeedInv, HandleNote
  PROVE  FeedInv'
<1>1. /\ TakeMessage
      /\ UNCHANGED <<ranges, server, books, sids, markets, lastSeq, receiver, calling>>
  BY DEF HandleNote, Handle
<1>2. ServedTypes' /\ ServedNumbered' /\ WireTypes'
  BY <1>1, MessageKeeps
<1>3. BookTypes' /\ CallTypes' /\ NoGhostBook' /\ CallOK'
  BY <1>1, BooksSame
<1>4. NumberTypes'  BY <1>1 DEF FeedInv, NumberTypes
<1> QED  BY <1>2, <1>3, <1>4 DEF FeedInv
LEMMA ReceiverKeeps ==
  ASSUME FeedInv, RunForever
  PROVE  FeedInv'
<1>1. ServedTypes' /\ ServedNumbered'
  BY ServedKept DEF RunForever, server
<1>2. BookTypes' /\ CallTypes' /\ NoGhostBook' /\ CallOK'
  BY BooksSame DEF RunForever
<1>3. NumberTypes' /\ WireTypes'
  BY DEF RunForever, server, FeedInv, NumberTypes, WireTypes
<1> QED  BY <1>1, <1>2, <1>3 DEF FeedInv

LEMMA CloseKeeps ==
  ASSUME FeedInv, Close
  PROVE  FeedInv'
<1>1. /\ DOMAIN Without(books, DOMAIN books) = {}
      /\ DOMAIN Without(sids, DOMAIN sids) = {}
      /\ DOMAIN Without(lastSeq, DOMAIN lastSeq) = {}
      /\ DOMAIN Without(served, DOMAIN served) = {}
  BY DEF Without, Restrict
<1>2. DOMAIN books' = {} /\ DOMAIN sids' = {} /\ DOMAIN lastSeq' = {} /\ DOMAIN served' = {}
  BY <1>1 DEF Close
<1>3. ServedTypes' /\ ServedNumbered'
  BY <1>2 DEF Close, FeedInv, ServedTypes, ServedNumbered
<1>4. BookTypes' /\ NumberTypes' /\ NoGhostBook'
  BY <1>2, FeedAssumption DEF Close, FeedInv, BookTypes, NumberTypes, NoGhostBook
<1>5. CallTypes' /\ CallOK'
  BY DEF Close, FeedInv, CallTypes, CallOK
<1>6. WireTypes'
  BY DEF Close, WireTypes
<1> QED  BY <1>3, <1>4, <1>5, <1>6 DEF FeedInv

-----------------------------------------------------------------------------
(* The server.                                                             *)
LEMMA ExchangeKeeps ==
  ASSUME FeedInv, UNCHANGED <<ranges, books, sids, markets, lastSeq, receiver, calling>>,
         ServedTypes', ServedNumbered', WireTypes'
  PROVE  FeedInv'
<1>1. BookTypes' /\ CallTypes' /\ NoGhostBook' /\ CallOK'
  BY BooksSame
<1>2. NumberTypes'
  BY DEF FeedInv, NumberTypes
<1> QED  BY <1>1, <1>2 DEF FeedInv

LEMMA RequestTaken ==
  ASSUME FeedInv, TakeRequest
  PROVE  Request \in Command /\ requests' \in Seq(Command)
BY HeadAndTail DEF FeedInv, WireTypes, TakeRequest, Request

LEMMA OneMessage ==
  ASSUME FeedInv, NEW m \in Control \cup Update, Sent(<<m>>)
  PROVE  wire' \in Seq(Control \cup Update)
BY ConcatProperties DEF FeedInv, WireTypes, Sent

LEMMA ReplyIsControl ==
  ASSUME NEW r \in Command, NEW sid \in Nat, NEW seq \in Nat,
         NEW type \in {"subscribed", "unsubscribed", "ok", "error"}
  PROVE  Reply(type, r, sid, seq) \in Control
BY DEF Reply, Control, Command

LEMMA NumberedSid ==
  ASSUME FeedInv, NEW c \in DOMAIN served, Numbered(served[c].sid)
  PROVE  /\ served[c].sid \in Nat /\ sent' \in Seq(Nat)
         /\ DOMAIN sent' = DOMAIN sent /\ sent'[served[c].sid] \in Nat
<1>1. served[c].sid \in DOMAIN sent /\ served[c].sid \in Nat
  BY DEF FeedInv, ServedTypes, ServedNumbered
<1>2. sent \in Seq(Nat) /\ DOMAIN sent = 1..Len(sent)
  BY DEF FeedInv, ServedTypes
<1>3. sent[served[c].sid] \in Nat
  BY <1>1, <1>2, ElementOfSeq
<1> QED
  BY <1>1, <1>2, <1>3, ExceptSeq DEF Numbered

LEMMA RefuseKeeps ==
  ASSUME FeedInv, Refuse
  PROVE  FeedInv'
<1>1. Request \in Command /\ requests' \in Seq(Command)
  BY RequestTaken DEF Refuse
<1>2. wire' \in Seq(Control \cup Update)
  BY <1>1, ReplyIsControl, OneMessage DEF Refuse, NoSid, NoSeq
<1>3. ServedTypes' /\ ServedNumbered'
  BY ServedKept DEF Refuse, Exchange
<1> QED
  BY <1>1, <1>2, <1>3, ExchangeKeeps DEF Refuse, Exchange, WireTypes

LEMMA ServeSubscribeKeeps ==
  ASSUME FeedInv, ServeSubscribe
  PROVE  FeedInv'
<1> DEFINE sid == Len(sent) + 1
<1>1. Request \in Command /\ requests' \in Seq(Command)
  BY RequestTaken DEF ServeSubscribe
<1>2. sid \in Nat /\ sent \in Seq(Nat) /\ sent' = Append(sent, 0)
  BY DEF FeedInv, ServedTypes, ServeSubscribe
<1>3. sent' \in Seq(Nat) /\ DOMAIN sent' = DOMAIN sent \cup {sid}
  BY <1>2, AppendProperties
<1>4. served' = With(served, Request.channel, [sid |-> sid, tickers |-> Request.tickers])
  BY DEF ServeSubscribe
<1>5. Sent(<<Reply("subscribed", Request, sid, NoSeq)>>)
  BY DEF ServeSubscribe
<1>6. UNCHANGED <<truth, live, ranges, books, sids, markets, lastSeq, receiver, calling>>
  BY DEF ServeSubscribe, Exchange
<1> HIDE DEF sid
<1>7. wire' \in Seq(Control \cup Update)
  BY <1>1, <1>2, <1>5, ReplyIsControl, OneMessage DEF NoSeq
<1>8. Request.channel \in Channels /\ Request.tickers \subseteq Tickers
  BY <1>1 DEF Command
<1>9. /\ DOMAIN served' = DOMAIN served \cup {Request.channel}
      /\ \A c \in DOMAIN served' :
           served'[c] = IF c = Request.channel
                        THEN [sid |-> sid, tickers |-> Request.tickers] ELSE served[c]
  BY <1>4 DEF With
<1>10. ServedTypes'
  BY <1>2, <1>3, <1>6, <1>8, <1>9 DEF FeedInv, ServedTypes
<1>11. ServedNumbered'
  BY <1>3, <1>6, <1>9 DEF FeedInv, ServedNumbered
<1> QED
  BY <1>1, <1>6, <1>7, <1>10, <1>11, ExchangeKeeps DEF WireTypes

(* The answer to a request of a subscription, with its number.             *)
LEMMA NumberedReply ==
  ASSUME FeedInv, TakeRequest, IsServed(Request), Numbered(Request.sid),
         NEW type \in {"ok", "unsubscribed"},
         Sent(<<Reply(type, Request, Request.sid, sent'[Request.sid])>>)
  PROVE  /\ WireTypes' /\ sent' \in Seq(Nat) /\ DOMAIN sent' = DOMAIN sent
         /\ Request.channel \in DOMAIN served
         /\ Request.channel \in Channels /\ Request.tickers \subseteq Tickers
<1>1. Request \in Command /\ requests' \in Seq(Command)
  BY RequestTaken
<1>2. Request.channel \in DOMAIN served /\ served[Request.channel].sid = Request.sid
  BY DEF IsServed
<1>3. /\ Request.sid \in Nat /\ sent'[Request.sid] \in Nat
      /\ sent' \in Seq(Nat) /\ DOMAIN sent' = DOMAIN sent
  BY <1>2, NumberedSid
<1>4. wire' \in Seq(Control \cup Update)
  BY <1>1, <1>3, ReplyIsControl, OneMessage
<1> QED
  BY <1>1, <1>2, <1>3, <1>4 DEF WireTypes, Command

LEMMA ServeAddKeeps ==
  ASSUME FeedInv, ServeAdd
  PROVE  FeedInv'
<1>1. /\ WireTypes' /\ sent' \in Seq(Nat) /\ DOMAIN sent' = DOMAIN sent
      /\ Request.channel \in DOMAIN served
      /\ Request.channel \in Channels /\ Request.tickers \subseteq Tickers
  BY NumberedReply DEF ServeAdd
<1>2. /\ served' = [served EXCEPT ![Request.channel].tickers = @ \cup Request.tickers]
      /\ live' \subseteq live
      /\ UNCHANGED <<truth, ranges, books, sids, markets, lastSeq, receiver, calling>>
  BY DEF ServeAdd, Exchange
<1>3. ServedTypes' /\ ServedNumbered'
  BY <1>1, <1>2 DEF FeedInv, ServedTypes, ServedNumbered
<1> QED  BY <1>1, <1>2, <1>3, ExchangeKeeps

LEMMA ServeDeleteKeeps ==
  ASSUME FeedInv, ServeDelete
  PROVE  FeedInv'
<1>1. /\ WireTypes' /\ sent' \in Seq(Nat) /\ DOMAIN sent' = DOMAIN sent
      /\ Request.channel \in DOMAIN served
      /\ Request.channel \in Channels /\ Request.tickers \subseteq Tickers
  BY NumberedReply DEF ServeDelete
<1>2. /\ served' = [served EXCEPT ![Request.channel].tickers = @ \ Request.tickers]
      /\ live' \subseteq live
      /\ UNCHANGED <<truth, ranges, books, sids, markets, lastSeq, receiver, calling>>
  BY DEF ServeDelete, Exchange
<1>3. ServedTypes' /\ ServedNumbered'
  BY <1>1, <1>2 DEF FeedInv, ServedTypes, ServedNumbered
<1> QED  BY <1>1, <1>2, <1>3, ExchangeKeeps

LEMMA ServeUnsubscribeKeeps ==
  ASSUME FeedInv, NEW type \in {"unsubscribed", "ok"}, ServeUnsubscribe(type)
  PROVE  FeedInv'
<1>1. WireTypes' /\ sent' \in Seq(Nat) /\ DOMAIN sent' = DOMAIN sent
  BY NumberedReply DEF ServeUnsubscribe
<1>2. /\ served' = Without(served, {Request.channel}) /\ live' \subseteq live
      /\ Request.channel = BookChannel => live' = {}
      /\ UNCHANGED <<truth, ranges, books, sids, markets, lastSeq, receiver, calling>>
  BY DEF ServeUnsubscribe, Exchange
<1>3. IsPart(Without(served, {Request.channel}), served, {Request.channel})
  BY WithoutIsPart
<1>4. ServedTypes' /\ ServedNumbered'
  BY <1>1, <1>2, <1>3 DEF IsPart, FeedInv, ServedTypes, ServedNumbered
<1> QED  BY <1>1, <1>2, <1>4, ExchangeKeeps

LEMMA BookMessageSent ==
  ASSUME FeedInv, BookChannel \in DOMAIN served, Numbered(BookSid), UNCHANGED requests,
         NEW type \in {"snapshot", "delta"}, NEW t \in Tickers, NEW n \in Nat,
         Sent(BookMessage(type, t, n)) \/ UNCHANGED wire
  PROVE  WireTypes' /\ sent' \in Seq(Nat) /\ DOMAIN sent' = DOMAIN sent
<1>1. /\ BookSid \in Nat /\ sent' \in Seq(Nat)
      /\ DOMAIN sent' = DOMAIN sent /\ sent'[BookSid] \in Nat
  BY NumberedSid DEF BookSid
<1>2. CASE Sent(BookMessage(type, t, n))
  <2> DEFINE m == [type |-> type, ticker |-> t, upd |-> n, sid |-> BookSid,
                   seq |-> sent'[BookSid]]
  <2>1. m \in Update  BY <1>1 DEF Update
  <2>2. Sent(<<m>>)  BY <1>2 DEF BookMessage
  <2> HIDE DEF m
  <2>3. wire' \in Seq(Control \cup Update)  BY <2>1, <2>2, OneMessage
  <2> QED  BY <1>1, <2>3 DEF FeedInv, WireTypes
<1>3. CASE UNCHANGED wire
  BY <1>1, <1>3 DEF FeedInv, WireTypes
<1> QED  BY <1>2, <1>3

LEMMA SendSnapshotKeeps ==
  ASSUME FeedInv, NEW t \in Tickers, SendSnapshot(t)
  PROVE  FeedInv'
<1>1. /\ BookChannel \in DOMAIN served /\ Numbered(BookSid) /\ live' = live \cup {t}
      /\ Sent(BookMessage("snapshot", t, truth[t])) \/ UNCHANGED wire
      /\ UNCHANGED <<truth, served, requests,
                     ranges, books, sids, markets, lastSeq, receiver, calling>>
  BY DEF SendSnapshot, Exchange
<1>2. truth[t] \in Nat  BY DEF FeedInv, ServedTypes
<1>3. WireTypes' /\ sent' \in Seq(Nat) /\ DOMAIN sent' = DOMAIN sent
  BY <1>1, <1>2, BookMessageSent
<1>4. ServedTypes' /\ ServedNumbered'
  BY <1>1, <1>3 DEF FeedInv, ServedTypes, ServedNumbered
<1> QED  BY <1>1, <1>3, <1>4, ExchangeKeeps
LEMMA MarketMovesKeeps ==
  ASSUME FeedInv, NEW t \in Tickers, MarketMoves(t)
  PROVE  FeedInv'
<1>1. /\ truth' = [truth EXCEPT ![t] = @ + 1]
      /\ UNCHANGED <<served, live, requests,
                     ranges, books, sids, markets, lastSeq, receiver, calling>>
  BY DEF MarketMoves, Exchange
<1>2. truth' \in [Tickers -> Nat] /\ truth'[t] \in Nat
  BY <1>1 DEF FeedInv, ServedTypes
<1>3. WireTypes' /\ sent' \in Seq(Nat) /\ DOMAIN sent' = DOMAIN sent
  <2>1. CASE t \in live
    <3>1. BookChannel \in DOMAIN served
      BY <2>1 DEF FeedInv, ServedNumbered
    <3>2. Numbered(BookSid) /\ (Sent(BookMessage("delta", t, truth'[t])) \/ UNCHANGED wire)
      BY <2>1 DEF MarketMoves
    <3> QED  BY <1>1, <1>2, <3>1, <3>2, BookMessageSent
  <2>2. CASE t \notin live
    <3>1. UNCHANGED <<sent, wire>>  BY <2>2 DEF MarketMoves
    <3> QED  BY <1>1, <3>1 DEF FeedInv, WireTypes, ServedTypes
  <2> QED  BY <2>1, <2>2
<1>4. ServedTypes' /\ ServedNumbered'
  BY <1>1, <1>2, <1>3 DEF FeedInv, ServedTypes, ServedNumbered
<1> QED  BY <1>1, <1>3, <1>4, ExchangeKeeps

LEMMA SendNoteKeeps ==
  ASSUME FeedInv, NEW channel \in Channels, SendNote(channel)
  PROVE  FeedInv'
<1> DEFINE m == [type |-> "note", id |-> 0, channel |-> channel,
                 sid |-> served[channel].sid, seq |-> NoSeq]
<1>1. channel \in DOMAIN served /\ served[channel].sid \in Nat
  BY DEF SendNote, FeedInv, ServedTypes
<1>2. m \in Control  BY <1>1 DEF Control, NoSeq
<1>3. Sent(<<m>>)  BY DEF SendNote
<1>4. UNCHANGED <<truth, served, live, sent, requests,
                  ranges, books, sids, markets, lastSeq, receiver, calling>>
  BY DEF SendNote, Exchange, server
<1> HIDE DEF m
<1>5. WireTypes'  BY <1>2, <1>3, <1>4, OneMessage DEF FeedInv, WireTypes
<1>6. ServedTypes' /\ ServedNumbered'  BY <1>4, ServedKept
<1> QED  BY <1>4, <1>5, <1>6, ExchangeKeeps

-----------------------------------------------------------------------------
LEMMA InitFeed == Init => FeedInv
<1> SUFFICES ASSUME Init PROVE FeedInv
  OBVIOUS
<1>1. BookChannel \in Channels  BY FeedAssumption
<1>2. CallTypes /\ CallOK
  BY <1>1 DEF Init, CallTypes, CallOK, NoCall, NoCommand, Calls, Command, NoSid, Kinds
<1>3. BookTypes /\ NumberTypes /\ NoGhostBook
  BY <1>1 DEF Init, BookTypes, NumberTypes, NoGhostBook
<1>4. ServedTypes /\ ServedNumbered /\ WireTypes
  BY DEF Init, ServedTypes, ServedNumbered, WireTypes
<1> QED  BY <1>2, <1>3, <1>4 DEF FeedInv

LEMMA CallerKeeps ==
  ASSUME FeedInv, Caller
  PROVE  FeedInv'
<1>1. ASSUME NEW T \in SUBSET Tickers, NEW channels \in ChannelTuples,
             Subscribe(T, channels)
      PROVE  FeedInv'
  BY <1>1, CallKeeps DEF Subscribe
<1>2. ASSUME NEW T \in SUBSET Tickers, NEW channels \in ChannelTuples,
             Unsubscribe(T, channels)
      PROVE  FeedInv'
  BY <1>2, CallKeeps DEF Unsubscribe
<1>3. ASSUME NEW channels \in ChannelTuples, UnsubscribeChannels(channels)
      PROVE  FeedInv'
  BY <1>3, CallKeeps DEF UnsubscribeChannels
<1> QED
  BY <1>1, <1>2, <1>3, ReceiverKeeps, CloseKeeps DEF Caller

LEMMA ControllerKeeps ==
  ASSUME FeedInv, Controller
  PROVE  FeedInv'
<1>1. CASE HandleMessage
  BY <1>1, GapKeeps, SnapshotKeeps, DeltaKeeps, SubscribedKeeps, UnsubscribedKeeps,
     OkKeeps, ErrorKeeps, NoteKeeps DEF HandleMessage
<1>2. CASE \E found \in SUBSET call.tickers : LoadPriceRanges(found)
  BY <1>2, RangesKeeps
<1> QED
  BY <1>1, <1>2, NextKeeps, ReturnKeeps, AnsweredKeeps, TimeoutKeeps DEF Controller

LEMMA ServerKeeps ==
  ASSUME FeedInv, Server
  PROVE  FeedInv'
BY RefuseKeeps, ServeSubscribeKeeps, ServeAddKeeps, ServeDeleteKeeps,
   ServeUnsubscribeKeeps, SendSnapshotKeeps, MarketMovesKeeps, SendNoteKeeps DEF Server

LEMMA StutterKeeps ==
  ASSUME FeedInv, UNCHANGED vars
  PROVE  FeedInv'
<1>1. /\ UNCHANGED <<ranges, books, sids, markets, lastSeq, receiver, calling>>
      /\ UNCHANGED <<truth, served, live, sent, requests, wire>>
  BY DEF vars, server
<1>2. ServedTypes' /\ ServedNumbered' /\ WireTypes'
  BY <1>1, ServedKept DEF FeedInv, WireTypes
<1> QED  BY <1>1, <1>2, ExchangeKeeps

(* The parts hold together in every reachable state.                       *)
THEOREM FeedInvariance == Spec => []FeedInv
<1>1. FeedInv /\ [Next]_vars => FeedInv'
  BY CallerKeeps, ControllerKeeps, TickKeeps, ServerKeeps, StutterKeeps DEF Next
<1> QED  BY InitFeed, <1>1, PTL DEF Spec

(* The variables of the controller and of the server keep their types.     *)
THEOREM FeedTypes == Spec => []TypeOK
<1>1. FeedInv => TypeOK  BY PartsAreTypes DEF FeedInv
<1> QED  BY FeedInvariance, <1>1, PTL

(* Whatever was lost, refused, late or rolled back, the controller keeps   *)
(* no book it has no subscription for, and none without price levels.      *)
THEOREM NoBookIsAGhost == Spec => []NoGhostBook
<1>1. FeedInv => NoGhostBook  BY DEF FeedInv
<1> QED  BY FeedInvariance, <1>1, PTL

-----------------------------------------------------------------------------
(* One subscription of a channel at a time.                                *)

(* The controller's subscriptions are those of the server, as long as it   *)
(* serves the channel, and the server knows every one it is asked about.   *)
SidsOK ==
  /\ \A c \in DOMAIN sids : sids[c] \in DOMAIN sent
  /\ \A c, d \in DOMAIN sids : sids[c] = sids[d] => c = d
  /\ \A s \in DOMAIN lastSeq : \E c \in DOMAIN sids : sids[c] = s
  /\ \A c \in DOMAIN sids : c \in DOMAIN served => sids[c] = served[c].sid
  /\ \A k \in DOMAIN requests : requests[k].sid = NoSid \/ requests[k].sid \in DOMAIN sent

(* A subscription that is announced is served, and unknown so far.         *)
Announced(i) == i \in DOMAIN wire /\ wire[i].type = "subscribed"

AnnouncedOK ==
  \A i \in DOMAIN wire : Announced(i) =>
    /\ wire[i].channel \notin DOMAIN sids
    /\ wire[i].channel \in DOMAIN served /\ served[wire[i].channel].sid = wire[i].sid
    /\ \A c \in DOMAIN sids : sids[c] # wire[i].sid
    /\ \A j \in DOMAIN wire : Announced(j) /\ j # i =>
         wire[j].channel # wire[i].channel /\ wire[j].sid # wire[i].sid
    /\ \A k \in DOMAIN requests :
         requests[k].kind # "subscribe" /\ requests[k].channel = wire[i].channel
           => requests[k].sid # wire[i].sid

(* A request to subscribe that comes while the channel is subscribed to or *)
(* announced will be refused: nothing before it ends the subscription.     *)
Begun(c) == c \in DOMAIN sids \/ \E i \in DOMAIN wire : Announced(i) /\ wire[i].channel = c

LateOK ==
  \A k \in DOMAIN requests :
    requests[k].kind = "subscribe" /\ Begun(requests[k].channel) =>
      /\ requests[k].channel \in DOMAIN served
      /\ \A j \in DOMAIN requests :
           j < k /\ requests[j].kind = "unsubscribe" /\ requests[j].channel = requests[k].channel
             => requests[j].sid # served[requests[k].channel].sid

Epoch == SidsOK /\ AnnouncedOK /\ LateOK

(* requests' and wire' are what is left of requests and wire, but for      *)
(* messages that announce nothing.                                         *)
RequestsLeft ==
  \E a \in {0, 1} : \A k \in DOMAIN requests' :
    k + a \in DOMAIN requests /\ requests'[k] = requests[k + a]

WireLeft(types) ==
  \E b \in {0, 1} : \A i \in DOMAIN wire' : wire'[i].type \in types =>
    i + b \in DOMAIN wire /\ wire'[i] = wire[i + b]

ServedAsBefore ==
  DOMAIN served' = DOMAIN served /\ \A c \in DOMAIN served : served'[c].sid = served[c].sid

LEMMA EpochShrinks ==
  ASSUME FeedInv, Epoch, FeedInv',
         DOMAIN sids' \subseteq DOMAIN sids, \A c \in DOMAIN sids' : sids'[c] = sids[c],
         \A s \in DOMAIN lastSeq' : \E c \in DOMAIN sids' : sids'[c] = s,
         DOMAIN sent \subseteq DOMAIN sent',
         RequestsLeft, WireLeft({"subscribed"}), ServedAsBefore
  PROVE  Epoch'
<1>1. PICK a \in {0, 1} : \A k \in DOMAIN requests' :
        k + a \in DOMAIN requests /\ requests'[k] = requests[k + a]
  BY DEF RequestsLeft
<1>2. PICK b \in {0, 1} : \A i \in DOMAIN wire' : wire'[i].type = "subscribed" =>
        i + b \in DOMAIN wire /\ wire'[i] = wire[i + b]
  BY DEF WireLeft
<1>3. /\ DOMAIN wire \subseteq Nat /\ DOMAIN requests \subseteq Nat
      /\ DOMAIN wire' \subseteq Nat /\ DOMAIN requests' \subseteq Nat
  BY DEF FeedInv, WireTypes
<1>4. SidsOK'
  BY <1>1, <1>3 DEF Epoch, SidsOK, ServedAsBefore
<1>5. AnnouncedOK'
  BY <1>1, <1>2, <1>3 DEF Epoch, AnnouncedOK, Announced, ServedAsBefore
<1>6. LateOK'
  <2>1. \A c : Begun(c)' => Begun(c)
    BY <1>2 DEF Begun, Announced
  <2> QED  BY <1>1, <1>3, <2>1 DEF Epoch, LateOK, ServedAsBefore
<1> QED  BY <1>4, <1>5, <1>6 DEF Epoch

(* Messages taken and requests taken leave the others in their order.      *)
LEMMA WireTaken ==
  ASSUME FeedInv, TakeMessage
  PROVE  /\ 1 \in DOMAIN wire /\ Message = wire[1]
         /\ \A i \in DOMAIN wire' :
              i \in Nat /\ i + 1 \in DOMAIN wire /\ wire'[i] = wire[i + 1]
<1>1. wire \in Seq(Control \cup Update) /\ wire # <<>> /\ wire' = Tail(wire)
  BY DEF FeedInv, WireTypes, TakeMessage
<1>2. Len(wire) \in Nat \ {0} /\ DOMAIN wire = 1..Len(wire)
  BY <1>1, EmptySeq, LenProperties
<1> QED
  BY <1>1, <1>2, HeadTailProperties, LenProperties DEF Message

LEMMA RequestsTaken ==
  ASSUME FeedInv, TakeRequest
  PROVE  /\ 1 \in DOMAIN requests /\ Request = requests[1]
         /\ \A k \in DOMAIN requests' :
              k \in Nat /\ k + 1 \in DOMAIN requests /\ requests'[k] = requests[k + 1]
<1>1. requests \in Seq(Command) /\ requests # <<>> /\ requests' = Tail(requests)
  BY DEF FeedInv, WireTypes, TakeRequest
<1>2. Len(requests) \in Nat \ {0} /\ DOMAIN requests = 1..Len(requests)
  BY <1>1, EmptySeq, LenProperties
<1> QED
  BY <1>1, <1>2, HeadTailProperties, LenProperties DEF Request

LEMMA WireSent ==
  ASSUME FeedInv, NEW m, Sent(<<m>>)
  PROVE  /\ DOMAIN wire' = DOMAIN wire \cup {Len(wire) + 1} /\ Len(wire) + 1 \in Nat
         /\ DOMAIN wire = 1..Len(wire)
         /\ \A i \in DOMAIN wire : wire'[i] = wire[i]
         /\ wire'[Len(wire) + 1] = m
BY DEF FeedInv, WireTypes, Sent

LEMMA RequestsLeftIf ==
  ASSUME FeedInv, TakeRequest \/ UNCHANGED requests
  PROVE  RequestsLeft
BY RequestsTaken DEF RequestsLeft, FeedInv, WireTypes

LEMMA WireLeftIf ==
  ASSUME FeedInv, NEW types,
         \/ UNCHANGED wire
         \/ TakeMessage
         \/ \E m : Sent(<<m>>) /\ m.type \notin types
  PROVE  WireLeft(types)
<1>1. CASE UNCHANGED wire
  BY <1>1 DEF WireLeft, FeedInv, WireTypes
<1>2. CASE TakeMessage
  BY <1>2, WireTaken DEF WireLeft
<1>3. CASE \E m : Sent(<<m>>) /\ m.type \notin types
  BY <1>3, WireSent DEF WireLeft
<1> QED  BY <1>1, <1>2, <1>3

(* Steps that leave the subscriptions of both sides alone.                 *)
LEMMA EpochStays ==
  ASSUME FeedInv, Epoch, FeedInv', UNCHANGED <<sids, lastSeq>>,
         DOMAIN sent \subseteq DOMAIN sent', ServedAsBefore,
         TakeRequest \/ UNCHANGED requests,
         \/ UNCHANGED wire
         \/ TakeMessage
         \/ \E m : Sent(<<m>>) /\ m.type # "subscribed"
  PROVE  Epoch'
<1>1. RequestsLeft  BY RequestsLeftIf
<1>2. WireLeft({"subscribed"})  BY WireLeftIf
<1>3. \A s \in DOMAIN lastSeq' : \E c \in DOMAIN sids' : sids'[c] = s
  BY DEF Epoch, SidsOK
<1> QED  BY <1>1, <1>2, <1>3, EpochShrinks

LEMMA EpochNumbers ==
  ASSUME FeedInv, Epoch, FeedInv', TakeMessage, lastSeq' = UpdateSidSequence,
         UNCHANGED <<sids, server>>
  PROVE  Epoch'
<1>1. RequestsLeft  BY RequestsLeftIf DEF server
<1>2. WireLeft({"subscribed"})  BY WireLeftIf
<1>3. \A s \in DOMAIN lastSeq' : \E c \in DOMAIN sids' : sids'[c] = s
  BY DEF Epoch, SidsOK, UpdateSidSequence, With, Known, Range
<1> QED  BY <1>1, <1>2, <1>3, EpochShrinks DEF server, ServedAsBefore

LEMMA EpochCleared ==
  ASSUME FeedInv, Epoch, FeedInv', NEW c \in DOMAIN sids, ClearChannel(c),
         UNCHANGED server, UNCHANGED wire \/ TakeMessage
  PROVE  Epoch'
<1>1. RequestsLeft  BY RequestsLeftIf DEF server
<1>2. WireLeft({"subscribed"})  BY WireLeftIf
<1>3. IsPart(sids', sids, {c}) /\ IsPart(lastSeq', lastSeq, {sids[c]})
  BY WithoutIsPart DEF ClearChannel
<1>4. \A s \in DOMAIN lastSeq' : \E d \in DOMAIN sids' : sids'[d] = s
  BY <1>3 DEF IsPart, Epoch, SidsOK
<1> QED  BY <1>1, <1>2, <1>3, <1>4, EpochShrinks DEF server, ServedAsBefore, IsPart

(* A command is sent.                                                      *)
LEMMA RequestsSent ==
  ASSUME FeedInv, NEW r, requests' = Append(requests, r)
  PROVE  /\ DOMAIN requests = 1..Len(requests) /\ Len(requests) \in Nat
         /\ DOMAIN requests' = DOMAIN requests \cup {Len(requests) + 1}
         /\ \A k \in DOMAIN requests : requests'[k] = requests[k]
         /\ requests'[Len(requests) + 1] = r
BY DEF FeedInv, WireTypes

LEMMA EpochSends ==
  ASSUME FeedInv, Epoch, FeedInv', NEW kind \in Kinds, NEW c \in Channels, NEW T,
         Send(kind, c, T), kind = "subscribe" <=> c \notin DOMAIN sids,
         UNCHANGED <<sids, lastSeq, served, sent, wire>>
  PROVE  Epoch'
<1>1. requests' = Append(requests, cmd')  BY DEF Send
<1>2. /\ cmd'.kind = kind /\ cmd'.channel = c
      /\ cmd'.sid = IF c \in DOMAIN sids THEN sids[c] ELSE NoSid
  BY DEF Send
<1>3. /\ DOMAIN requests = 1..Len(requests) /\ Len(requests) \in Nat
      /\ DOMAIN requests' = DOMAIN requests \cup {Len(requests) + 1}
      /\ \A k \in DOMAIN requests : requests'[k] = requests[k]
      /\ requests'[Len(requests) + 1] = cmd'
  BY <1>1, RequestsSent
<1>4. SidsOK'
  BY <1>2, <1>3 DEF Epoch, SidsOK
<1>5. AnnouncedOK'
  BY <1>2, <1>3 DEF Epoch, AnnouncedOK, Announced
<1>6. LateOK'
  <2>0. \A d : Begun(d)' <=> Begun(d)
    BY DEF Begun, Announced
  <2>1. ASSUME NEW k \in DOMAIN requests', NEW d, d = requests'[k].channel,
               requests'[k].kind = "subscribe", Begun(d)'
        PROVE  /\ d \in DOMAIN served'
               /\ \A j \in DOMAIN requests' :
                    j < k /\ requests'[j].kind = "unsubscribe" /\ requests'[j].channel = d
                      => requests'[j].sid # served'[d].sid
    <3>1. Begun(d)
      BY <2>0, <2>1
    <3>2. CASE k \in DOMAIN requests
      BY <1>2, <1>3, <2>1, <3>1, <3>2 DEF Epoch, LateOK
    <3>3. CASE k = Len(requests) + 1
      <4>1. d = c /\ c \notin DOMAIN sids
        BY <1>2, <1>3, <2>1, <3>3
      <4>2. PICK i \in DOMAIN wire : Announced(i) /\ wire[i].channel = c
        BY <3>1, <4>1 DEF Begun
      <4> QED
        BY <1>3, <3>3, <4>1, <4>2 DEF Epoch, AnnouncedOK
    <3> QED  BY <1>3, <3>2, <3>3
  <2> QED  BY <2>1 DEF LateOK
<1> QED  BY <1>4, <1>5, <1>6 DEF Epoch

LEMMA EpochSubscribed ==
  ASSUME FeedInv, Epoch, FeedInv', HandleSubscribed
  PROVE  Epoch'
<1>1. /\ TakeMessage /\ Message.type = "subscribed"
      /\ sids' = With(sids, Message.channel, Message.sid)
      /\ UNCHANGED <<lastSeq, served, sent, requests>>
  BY DEF HandleSubscribed, Handle, server
<1>2. /\ 1 \in DOMAIN wire /\ Message = wire[1]
      /\ \A i \in DOMAIN wire' :
           i \in Nat \ {0} /\ i + 1 \in DOMAIN wire /\ wire'[i] = wire[i + 1]
  BY <1>1, WireTaken DEF FeedInv, WireTypes
<1> DEFINE c == Message.channel
           s == Message.sid
<1>3. /\ c \notin DOMAIN sids /\ c \in DOMAIN served /\ served[c].sid = s
      /\ \A d \in DOMAIN sids : sids[d] # s
      /\ \A j \in DOMAIN wire : Announced(j) /\ j # 1 =>
           wire[j].channel # c /\ wire[j].sid # s
  BY <1>1, <1>2 DEF Epoch, AnnouncedOK, Announced
<1>4. Announced(1) /\ wire[1].channel = c
  BY <1>1, <1>2 DEF Announced
<1>5. /\ DOMAIN sids' = DOMAIN sids \cup {c}
      /\ \A d \in DOMAIN sids' : sids'[d] = IF d = c THEN s ELSE sids[d]
  BY <1>1 DEF With
<1>6. s \in DOMAIN sent
  BY <1>3 DEF FeedInv, ServedNumbered
<1> HIDE DEF c, s
<1>7. SidsOK'
  BY <1>1, <1>3, <1>5, <1>6 DEF Epoch, SidsOK
<1>8. AnnouncedOK'
  <2>1. ASSUME NEW i \in DOMAIN wire', wire'[i].type = "subscribed"
        PROVE  /\ i + 1 \in DOMAIN wire /\ Announced(i + 1) /\ wire'[i] = wire[i + 1]
               /\ wire'[i].channel # c /\ wire'[i].sid # s
    BY <1>2, <1>3, <2>1 DEF Announced
  <2> QED
    BY <1>1, <1>2, <1>5, <2>1 DEF Epoch, AnnouncedOK, Announced
<1>9. LateOK'
  <2>1. \A d : Begun(d)' => Begun(d)
    BY <1>2, <1>4, <1>5 DEF Begun, Announced
  <2> QED  BY <1>1, <2>1 DEF Epoch, LateOK
<1> QED  BY <1>7, <1>8, <1>9 DEF Epoch

LEMMA EpochServed ==
  ASSUME FeedInv, Epoch, FeedInv', ServeSubscribe
  PROVE  Epoch'
<1> DEFINE c == Request.channel
           s == Len(sent) + 1
           m == Reply("subscribed", Request, s, NoSeq)
<1>1. /\ TakeRequest /\ Request.kind = "subscribe" /\ c \notin DOMAIN served
      /\ served' = With(served, c, [sid |-> s, tickers |-> Request.tickers])
      /\ sent' = Append(sent, 0) /\ Sent(<<m>>)
      /\ UNCHANGED <<sids, lastSeq>>
  BY DEF ServeSubscribe, Exchange
<1>2. /\ 1 \in DOMAIN requests /\ Request = requests[1]
      /\ \A k \in DOMAIN requests' :
           k \in Nat \ {0} /\ k + 1 \in DOMAIN requests /\ requests'[k] = requests[k + 1]
  BY <1>1, RequestsTaken DEF FeedInv, WireTypes
<1>3. /\ DOMAIN wire' = DOMAIN wire \cup {Len(wire) + 1} /\ Len(wire) + 1 \in Nat
      /\ DOMAIN wire = 1..Len(wire)
      /\ \A i \in DOMAIN wire : wire'[i] = wire[i]
      /\ wire'[Len(wire) + 1] = m
  BY <1>1, WireSent
<1>4. m.type = "subscribed" /\ m.channel = c /\ m.sid = s
  BY DEF Reply
<1>5. DOMAIN sent' = DOMAIN sent \cup {s} /\ s \notin DOMAIN sent /\ s # NoSid
  BY <1>1 DEF FeedInv, ServedTypes, NoSid
<1>6. /\ DOMAIN served' = DOMAIN served \cup {c} /\ served'[c].sid = s
      /\ \A d \in DOMAIN served : served'[d] = served[d]
  BY <1>1 DEF With
<1>7. ~ Begun(c)
  BY <1>1, <1>2 DEF Epoch, LateOK
<1> HIDE DEF c, s, m
<1>8. SidsOK'
  BY <1>1, <1>2, <1>5, <1>6, <1>7 DEF Epoch, SidsOK, Begun
<1>9. AnnouncedOK'
  <2>1. \A d \in DOMAIN sids' : sids'[d] # s /\ d # c
    BY <1>1, <1>5, <1>7 DEF Epoch, SidsOK, Begun
  <2>2. \A j \in DOMAIN wire : wire[j].type = "subscribed" =>
          wire[j].channel # c /\ wire[j].sid # s
    BY <1>1, <1>5 DEF Epoch, AnnouncedOK, Announced, FeedInv, ServedNumbered
  <2>3. \A k \in DOMAIN requests' : requests'[k].sid # s
    BY <1>2, <1>5 DEF Epoch, SidsOK
  <2>4. ASSUME NEW i \in DOMAIN wire, wire[i].type = "subscribed"
        PROVE  /\ wire[i].channel \notin DOMAIN sids'
               /\ wire[i].channel \in DOMAIN served'
               /\ served'[wire[i].channel].sid = wire[i].sid
               /\ \A d \in DOMAIN sids' : sids'[d] # wire[i].sid
               /\ \A j \in DOMAIN wire' : wire'[j].type = "subscribed" /\ j # i =>
                    wire'[j].channel # wire[i].channel /\ wire'[j].sid # wire[i].sid
               /\ \A k \in DOMAIN requests' :
                    requests'[k].kind # "subscribe"
                    /\ requests'[k].channel = wire[i].channel
                      => requests'[k].sid # wire[i].sid
    <3>1. Announced(i)  BY <2>4 DEF Announced
    <3>2. /\ wire[i].channel \notin DOMAIN sids' /\ wire[i].channel \in DOMAIN served'
          /\ served'[wire[i].channel].sid = wire[i].sid
          /\ \A d \in DOMAIN sids' : sids'[d] # wire[i].sid
      BY <1>1, <1>6, <3>1 DEF Epoch, AnnouncedOK
    <3>3. \A k \in DOMAIN requests' :
            requests'[k].kind # "subscribe" /\ requests'[k].channel = wire[i].channel
              => requests'[k].sid # wire[i].sid
      BY <1>2, <3>1 DEF Epoch, AnnouncedOK
    <3>4. ASSUME NEW j \in DOMAIN wire', wire'[j].type = "subscribed", j # i
          PROVE  wire'[j].channel # wire[i].channel /\ wire'[j].sid # wire[i].sid
      <4>1. CASE j \in DOMAIN wire
        <5>1. wire'[j] = wire[j] /\ Announced(j)
          BY <1>3, <3>4, <4>1 DEF Announced
        <5>2. wire[j].channel # wire[i].channel /\ wire[j].sid # wire[i].sid
          BY <3>1, <3>4, <4>1, <5>1 DEF Epoch, AnnouncedOK
        <5> QED  BY <5>1, <5>2
      <4>2. CASE j = Len(wire) + 1
        BY <1>3, <1>4, <2>2, <2>4, <4>2
      <4> QED  BY <1>3, <4>1, <4>2
    <3> QED  BY <3>2, <3>3, <3>4
  <2>5. \A i \in DOMAIN wire' : i \in DOMAIN wire \/ i = Len(wire) + 1
    BY <1>3
  <2> QED
    BY <1>3, <1>4, <1>6, <2>1, <2>2, <2>3, <2>4, <2>5 DEF AnnouncedOK, Announced
<1>10. LateOK'
  <2>1. \A d : Begun(d)' => Begun(d) \/ d = c
    BY <1>1, <1>3, <1>4 DEF Begun, Announced
  <2>2. \A k \in DOMAIN requests : requests[k].sid # s
    BY <1>5 DEF Epoch, SidsOK
  <2>3. ASSUME NEW k \in DOMAIN requests', NEW d, d = requests'[k].channel,
               requests'[k].kind = "subscribe", Begun(d)'
        PROVE  /\ d \in DOMAIN served'
               /\ \A j \in DOMAIN requests' :
                    j < k /\ requests'[j].kind = "unsubscribe" /\ requests'[j].channel = d
                      => requests'[j].sid # served'[d].sid
    <3>1. CASE d = c
      BY <1>2, <1>6, <2>2, <2>3, <3>1
    <3>2. CASE d # c
      <4>1. Begun(d)  BY <2>1, <2>3, <3>2
      <4> QED  BY <1>2, <1>6, <2>3, <4>1 DEF Epoch, LateOK
    <3> QED  BY <3>1, <3>2
  <2> QED  BY <2>3 DEF LateOK
<1> QED  BY <1>8, <1>9, <1>10 DEF Epoch

LEMMA EpochUnserved ==
  ASSUME FeedInv, Epoch, FeedInv', NEW type \in {"unsubscribed", "ok"},
         ServeUnsubscribe(type)
  PROVE  Epoch'
<1> DEFINE c == Request.channel
           m == Reply(type, Request, Request.sid, sent'[Request.sid])
<1>1. /\ TakeRequest /\ Request.kind = "unsubscribe" /\ IsServed(Request)
      /\ served' = Without(served, {c}) /\ Numbered(Request.sid) /\ Sent(<<m>>)
      /\ UNCHANGED <<sids, lastSeq>>
  BY DEF ServeUnsubscribe, Exchange
<1>2. /\ 1 \in DOMAIN requests /\ Request = requests[1]
      /\ \A k \in DOMAIN requests' :
           k \in Nat \ {0} /\ k + 1 \in DOMAIN requests /\ requests'[k] = requests[k + 1]
  BY <1>1, RequestsTaken DEF FeedInv, WireTypes
<1>3. /\ DOMAIN wire' = DOMAIN wire \cup {Len(wire) + 1} /\ Len(wire) + 1 \in Nat
      /\ \A i \in DOMAIN wire : wire'[i] = wire[i]
      /\ wire'[Len(wire) + 1] = m
  BY <1>1, WireSent
<1>4. m.type # "subscribed"
  BY DEF Reply
<1>5. DOMAIN sent' = DOMAIN sent
  BY <1>1 DEF Numbered
<1>6. /\ DOMAIN served' = DOMAIN served \ {c}
      /\ \A d \in DOMAIN served' : served'[d] = served[d]
  <2>1. IsPart(served', served, {c})  BY <1>1, WithoutIsPart
  <2> QED  BY <2>1 DEF IsPart
<1>7. /\ c \in DOMAIN served /\ requests[1].sid = served[c].sid
      /\ requests[1].kind = "unsubscribe" /\ requests[1].channel = c
  BY <1>1, <1>2 DEF IsServed
<1> HIDE DEF c, m
<1>8. SidsOK'
  <2>1. \A d \in DOMAIN sids : d \in DOMAIN served' => sids[d] = served'[d].sid
    BY <1>6 DEF Epoch, SidsOK
  <2>2. \A k \in DOMAIN requests' :
          requests'[k].sid = NoSid \/ requests'[k].sid \in DOMAIN sent
    BY <1>2 DEF Epoch, SidsOK
  <2> QED  BY <1>1, <1>5, <2>1, <2>2 DEF Epoch, SidsOK
<1>9. AnnouncedOK'
  <2>1. ASSUME NEW i \in DOMAIN wire', wire'[i].type = "subscribed"
        PROVE  i \in DOMAIN wire /\ wire'[i] = wire[i] /\ Announced(i)
    BY <1>3, <1>4, <2>1 DEF Announced
  <2>2. \A i \in DOMAIN wire : Announced(i) => wire[i].channel # c
    BY <1>2, <1>7 DEF Epoch, AnnouncedOK
  <2>3. ASSUME NEW i \in DOMAIN wire', wire'[i].type = "subscribed"
        PROVE  /\ wire[i].channel \notin DOMAIN sids'
               /\ wire[i].channel \in DOMAIN served'
               /\ served'[wire[i].channel].sid = wire[i].sid
               /\ \A d \in DOMAIN sids' : sids'[d] # wire[i].sid
    BY <1>1, <1>6, <2>1, <2>2, <2>3 DEF Epoch, AnnouncedOK
  <2>4. ASSUME NEW i \in DOMAIN wire', wire'[i].type = "subscribed"
        PROVE  \A k \in DOMAIN requests' :
                 requests'[k].kind # "subscribe" /\ requests'[k].channel = wire[i].channel
                   => requests'[k].sid # wire[i].sid
    BY <1>2, <2>1, <2>4 DEF Epoch, AnnouncedOK
  <2>5. ASSUME NEW i \in DOMAIN wire', wire'[i].type = "subscribed",
               NEW j \in DOMAIN wire', wire'[j].type = "subscribed", j # i
        PROVE  wire[j].channel # wire[i].channel /\ wire[j].sid # wire[i].sid
    BY <2>1, <2>5 DEF Epoch, AnnouncedOK
  <2> QED
    BY <2>1, <2>3, <2>4, <2>5 DEF AnnouncedOK, Announced
<1>10. LateOK'
  <2>1. \A d : Begun(d)' => Begun(d)
    BY <1>1, <1>3, <1>4 DEF Begun, Announced
  <2>2. ASSUME NEW k \in DOMAIN requests', NEW d, d = requests'[k].channel,
               requests'[k].kind = "subscribe", Begun(d)'
        PROVE  /\ d \in DOMAIN served'
               /\ \A j \in DOMAIN requests' :
                    j < k /\ requests'[j].kind = "unsubscribe" /\ requests'[j].channel = d
                      => requests'[j].sid # served'[d].sid
    <3>1. /\ k + 1 \in DOMAIN requests /\ requests[k + 1].kind = "subscribe"
          /\ requests[k + 1].channel = d /\ 1 < k + 1
      BY <1>2, <2>2
    <3>2. Begun(d)  BY <2>1, <2>2
    <3>3. /\ d \in DOMAIN served
          /\ \A j \in DOMAIN requests :
               j < k + 1 /\ requests[j].kind = "unsubscribe" /\ requests[j].channel = d
                 => requests[j].sid # served[d].sid
      BY <3>1, <3>2 DEF Epoch, LateOK
    <3>4. d # c
      BY <1>2, <1>7, <3>1, <3>3
    <3>5. d \in DOMAIN served' /\ served'[d] = served[d]
      BY <1>6, <3>3, <3>4
    <3> QED
      BY <1>2, <2>2, <3>3, <3>5
  <2> QED  BY <2>2 DEF LateOK
<1> QED  BY <1>8, <1>9, <1>10 DEF Epoch

LEMMA EpochEnds ==
  ASSUME Close
  PROVE  Epoch'
<1>1. /\ DOMAIN Without(sids, DOMAIN sids) = {}
      /\ DOMAIN Without(lastSeq, DOMAIN lastSeq) = {}
  BY DEF Without, Restrict
<1>2. /\ DOMAIN sids' = {} /\ DOMAIN lastSeq' = {}
      /\ DOMAIN wire' = {} /\ DOMAIN requests' = {}
  BY <1>1 DEF Close
<1> QED  BY <1>2 DEF Epoch, SidsOK, AnnouncedOK, LateOK, Announced

LEMMA InitEpoch == Init => Epoch
BY DEF Init, Epoch, SidsOK, AnnouncedOK, LateOK, Announced

LEMMA EpochSame ==
  ASSUME FeedInv, Epoch, FeedInv', UNCHANGED <<sids, lastSeq, server>>,
         \/ UNCHANGED wire
         \/ TakeMessage
  PROVE  Epoch'
BY EpochStays DEF server, ServedAsBefore

LEMMA EpochNext ==
  ASSUME FeedInv, Epoch, FeedInv', NextChannel
  PROVE  Epoch'
<1>1. /\ UNCHANGED <<sids, lastSeq, truth, served, live, sent, wire>>
      /\ pc = "next" /\ call.todo # <<>>
  BY DEF NextChannel
<1>2. Todo \in Channels  BY <1>1, NextInCall
<1>3. CASE UNCHANGED requests
  BY <1>1, <1>3, EpochSame DEF server
<1>4. ASSUME NEW kind \in Kinds, NEW T, Send(kind, Todo, T),
             kind = "subscribe" <=> Todo \notin DOMAIN sids
      PROVE  Epoch'
  BY <1>1, <1>2, <1>4, EpochSends
<1>5. CASE SubscribeMarkets
  <2> DEFINE new == call.tickers \ markets[Todo]
             kind == IF Todo \in DOMAIN sids THEN "add" ELSE "subscribe"
  <2>1. kind \in Kinds /\ (kind = "subscribe" <=> Todo \notin DOMAIN sids)
    BY DEF Kinds
  <2>2. UNCHANGED requests \/ Send(kind, Todo, new)
    BY <1>5 DEF SubscribeMarkets, SkipChannel
  <2> HIDE DEF kind, new
  <2> QED  BY <1>3, <1>4, <2>1, <2>2
<1>6. CASE UnsubscribeMarkets
  <2> DEFINE gone == call.tickers \cap markets[Todo]
             kind == IF gone = markets[Todo] THEN "unsubscribe" ELSE "delete"
  <2>1. kind \in Kinds /\ kind # "subscribe"
    BY DEF Kinds
  <2>2. UNCHANGED requests \/ (Todo \in DOMAIN sids /\ Send(kind, Todo, gone))
    BY <1>6 DEF UnsubscribeMarkets, SkipChannel, CallRaises
  <2> HIDE DEF kind, gone
  <2> QED  BY <1>3, <1>4, <2>1, <2>2
<1>7. CASE UnsubscribeChannel
  <2>1. "unsubscribe" \in Kinds  BY DEF Kinds
  <2>2. UNCHANGED requests \/ (Todo \in DOMAIN sids /\ Send("unsubscribe", Todo, {}))
    BY <1>7 DEF UnsubscribeChannel, SkipChannel
  <2> QED  BY <1>3, <1>4, <2>1, <2>2
<1> QED
  BY <1>5, <1>6, <1>7 DEF NextChannel, FeedInv, CallTypes, Calls

LEMMA EpochAnswered ==
  ASSUME FeedInv, Epoch, FeedInv', CommandAnswered
  PROVE  Epoch'
<1>1. UNCHANGED server /\ UNCHANGED wire
  BY DEF CommandAnswered
<1>2. CASE UNCHANGED <<sids, lastSeq>>
  BY <1>1, <1>2, EpochSame
<1>3. CASE cmd.channel \in DOMAIN sids /\ ClearChannel(cmd.channel)
  BY <1>1, <1>3, EpochCleared
<1>4. cmd.kind \in Kinds
  BY DEF FeedInv, CallTypes, Command
<1> QED
  BY <1>2, <1>3, <1>4 DEF CommandAnswered, CommandSucceeds, Subscribing, Kinds

LEMMA EpochHandles ==
  ASSUME FeedInv, Epoch, FeedInv', HandleMessage
  PROVE  Epoch'
<1>1. TakeMessage /\ UNCHANGED server
  BY DEF HandleMessage, GapRaises, HandleSnapshot, HandleDelta, HandleSubscribed,
         HandleUnsubscribed, HandleOk, HandleError, HandleNote, Handle
<1>2. CASE GapRaises \/ HandleError \/ HandleNote
  <2>1. UNCHANGED <<sids, lastSeq>>
    BY <1>2 DEF GapRaises, HandleError, HandleNote
  <2> QED  BY <1>1, <2>1, EpochSame
<1>3. CASE HandleSnapshot \/ HandleDelta \/ HandleOk
  <2>1. lastSeq' = UpdateSidSequence /\ UNCHANGED sids
    BY <1>3 DEF HandleSnapshot, HandleDelta, HandleOk
  <2> QED  BY <1>1, <2>1, EpochNumbers
<1>4. CASE HandleUnsubscribed
  <2>1. CASE UNCHANGED <<sids, lastSeq>>
    BY <1>1, <2>1, EpochSame
  <2>2. CASE \E c \in DOMAIN sids : ClearChannel(c)
    BY <1>1, <2>2, EpochCleared
  <2> QED  BY <1>4, <2>1, <2>2 DEF HandleUnsubscribed
<1> QED
  BY <1>2, <1>3, <1>4, EpochSubscribed DEF HandleMessage

LEMMA EpochServer ==
  ASSUME FeedInv, Epoch, FeedInv', Server
  PROVE  Epoch'
<1>1. UNCHANGED <<sids, lastSeq>>
  BY DEF Server, Refuse, ServeSubscribe, ServeAdd, ServeDelete, ServeUnsubscribe,
         SendSnapshot, MarketMoves, SendNote, Exchange
<1>2. \A s : Numbered(s) => DOMAIN sent' = DOMAIN sent
  BY DEF Numbered
<1>3. CASE Refuse
  BY <1>1, <1>3, EpochStays DEF Refuse, Exchange, ServedAsBefore, Reply
<1>4. CASE ServeAdd
  <2>1. /\ TakeRequest /\ Request.channel \in DOMAIN served /\ Numbered(Request.sid)
        /\ served' = [served EXCEPT ![Request.channel].tickers = @ \cup Request.tickers]
        /\ Sent(<<Reply("ok", Request, Request.sid, sent'[Request.sid])>>)
    BY <1>4 DEF ServeAdd, IsServed
  <2>2. ServedAsBefore
    BY <2>1 DEF ServedAsBefore, FeedInv, ServedTypes
  <2> QED
    BY <1>1, <1>2, <2>1, <2>2, EpochStays DEF Reply
<1>5. CASE ServeDelete
  <2>1. /\ TakeRequest /\ Request.channel \in DOMAIN served /\ Numbered(Request.sid)
        /\ served' = [served EXCEPT ![Request.channel].tickers = @ \ Request.tickers]
        /\ Sent(<<Reply("ok", Request, Request.sid, sent'[Request.sid])>>)
    BY <1>5 DEF ServeDelete, IsServed
  <2>2. ServedAsBefore
    BY <2>1 DEF ServedAsBefore, FeedInv, ServedTypes
  <2> QED
    BY <1>1, <1>2, <2>1, <2>2, EpochStays DEF Reply
<1>6. ASSUME NEW t \in Tickers, SendSnapshot(t)  PROVE Epoch'
  BY <1>1, <1>2, <1>6, EpochStays DEF SendSnapshot, Exchange, ServedAsBefore, BookMessage
<1>7. ASSUME NEW t \in Tickers, MarketMoves(t)  PROVE Epoch'
  BY <1>1, <1>2, <1>7, EpochStays DEF MarketMoves, Exchange, ServedAsBefore, BookMessage
<1>8. ASSUME NEW c \in Channels, SendNote(c)  PROVE Epoch'
  BY <1>1, <1>8, EpochStays DEF SendNote, Exchange, server, ServedAsBefore
<1> QED
  BY <1>3, <1>4, <1>5, <1>6, <1>7, <1>8, EpochServed, EpochUnserved DEF Server

LEMMA EpochKeeps ==
  ASSUME FeedInv, Epoch, FeedInv', [Next]_vars
  PROVE  Epoch'
<1>1. CASE /\ UNCHANGED <<sids, lastSeq>> /\ UNCHANGED server /\ UNCHANGED wire
  BY <1>1, EpochSame
<1>2. CASE Caller
  BY <1>1, <1>2, EpochEnds
     DEF Caller, Subscribe, Unsubscribe, UnsubscribeChannels, Call, RunForever
<1>3. CASE Controller
  BY <1>1, <1>3, EpochNext, EpochAnswered, EpochHandles
     DEF Controller, LoadPriceRanges, CallReturns, CommandTimesOut
<1> QED
  BY <1>1, <1>2, <1>3, EpochServer DEF Next, Tick, vars

-----------------------------------------------------------------------------
(* An answer is to the command that waits for it.                          *)

Replies == {"subscribed", "unsubscribed", "ok", "error"}

Served ==
  cmd.channel \in DOMAIN served /\ cmd.tickers \subseteq served[cmd.channel].tickers

(* The requests on their way are in the order they were sent, the command  *)
(* is the last of them.                                                    *)
RequestsOrdered ==
  \A k \in DOMAIN requests :
    /\ requests[k].id <= cmd.id
    /\ requests[k].id = cmd.id => requests[k] = cmd
    /\ \A j \in DOMAIN requests : j < k => requests[j].id < requests[k].id

(* Who is answered is on its way no more, and is served if it may be.      *)
RepliesTrue ==
  \A i \in DOMAIN wire : wire[i].type \in Replies =>
    /\ wire[i].id <= cmd.id
    /\ \A k \in DOMAIN requests : wire[i].id < requests[k].id
    /\ wire[i].type # "error" /\ wire[i].id = cmd.id /\ Subscribing => Served

AnsweredServed ==
  pc = "waiting" /\ answer = "ok" =>
    DOMAIN requests = {} /\ (Subscribing => Served)

Answers == RequestsOrdered /\ RepliesTrue /\ AnsweredServed

LEMMA Numbers ==
  ASSUME FeedInv
  PROVE  /\ cmd.id \in Nat /\ DOMAIN wire \subseteq Nat /\ DOMAIN requests \subseteq Nat
         /\ \A k \in DOMAIN requests : requests[k] \in Command /\ requests[k].id \in Nat
         /\ \A i \in DOMAIN wire : wire[i] \in Control \cup Update
         /\ \A i \in DOMAIN wire : wire[i].type \in Replies => wire[i].id \in Nat
<1>1. \A k \in DOMAIN requests : requests[k] \in Command
  BY ElementOfSeq DEF FeedInv, WireTypes
<1>2. \A i \in DOMAIN wire : wire[i] \in Control \cup Update
  BY ElementOfSeq DEF FeedInv, WireTypes
<1>3. cmd.id \in Nat /\ DOMAIN wire \subseteq Nat /\ DOMAIN requests \subseteq Nat
  <2>1. wire \in Seq(Control \cup Update) /\ requests \in Seq(Command) /\ cmd \in Command
    BY DEF FeedInv, WireTypes, CallTypes
  <2> QED  BY <2>1 DEF Command
<1>4. \A k \in DOMAIN requests : requests[k].id \in Nat
  BY <1>1 DEF Command
<1>5. \A i \in DOMAIN wire : wire[i].type \in Replies => wire[i].id \in Nat
  BY <1>2 DEF Control, Update, Replies
<1> QED
  BY <1>1, <1>2, <1>3, <1>4, <1>5

LEMMA AnswersSame ==
  ASSUME FeedInv, Answers, UNCHANGED <<cmd, served, requests>>,
         WireLeft(Replies),
         pc' = "waiting" /\ answer' = "ok" => pc = "waiting" /\ answer = "ok"
  PROVE  Answers'
<1>1. PICK b \in {0, 1} : \A i \in DOMAIN wire' : wire'[i].type \in Replies =>
        i + b \in DOMAIN wire /\ wire'[i] = wire[i + b]
  BY DEF WireLeft
<1>2. Served' = Served /\ Subscribing' = Subscribing
  BY DEF Served, Subscribing
<1>3. RequestsOrdered'  BY DEF Answers, RequestsOrdered
<1>4. RepliesTrue'  BY <1>1, <1>2 DEF Answers, RepliesTrue
<1>5. AnsweredServed'  BY <1>2 DEF Answers, AnsweredServed
<1> QED  BY <1>3, <1>4, <1>5 DEF Answers

(* The waiter gets its result.                                             *)
LEMMA AnswersGiven ==
  ASSUME FeedInv, Answers, TakeMessage, UNCHANGED server, NEW result, Answer(result),
         Message.type \in Replies, result = "ok" => Message.type # "error"
  PROVE  Answers'
<1>1. WireLeft(Replies)  BY WireLeftIf
<1>2. UNCHANGED <<cmd, pc, served, requests>>
  BY DEF Answer, server
<1>3. CASE UNCHANGED answer
  BY <1>1, <1>2, <1>3, AnswersSame
<1>4. CASE IsAnswer /\ answer' = result /\ result # "ok"
  BY <1>1, <1>2, <1>4, AnswersSame
<1>5. CASE IsAnswer /\ answer' = result /\ result = "ok"
  <2>1. 1 \in DOMAIN wire /\ Message = wire[1]  BY WireTaken
  <2>2. /\ Message.id = cmd.id /\ Message.type # "error"
    BY <1>5 DEF IsAnswer
  <2>3. /\ \A k \in DOMAIN requests : cmd.id < requests[k].id
        /\ Subscribing => Served
    BY <2>1, <2>2 DEF Answers, RepliesTrue
  <2>4. DOMAIN requests = {}
    <3>1. ASSUME NEW k \in DOMAIN requests  PROVE FALSE
      <4>1. requests[k].id \in Nat /\ cmd.id \in Nat  BY Numbers
      <4>2. requests[k].id <= cmd.id  BY DEF Answers, RequestsOrdered
      <4>3. cmd.id < requests[k].id  BY <2>3
      <4> QED  BY <4>1, <4>2, <4>3
    <3> QED  BY <3>1
  <2>5. PICK b \in {0, 1} : \A i \in DOMAIN wire' : wire'[i].type \in Replies =>
          i + b \in DOMAIN wire /\ wire'[i] = wire[i + b]
    BY <1>1 DEF WireLeft
  <2>6. Served' = Served /\ Subscribing' = Subscribing
    BY <1>2 DEF Served, Subscribing
  <2>7. RequestsOrdered'  BY <1>2 DEF Answers, RequestsOrdered
  <2>8. RepliesTrue'  BY <1>2, <2>5, <2>6 DEF Answers, RepliesTrue
  <2>9. AnsweredServed'  BY <1>2, <2>3, <2>4, <2>6 DEF AnsweredServed
  <2> QED  BY <2>7, <2>8, <2>9 DEF Answers
<1> QED  BY <1>3, <1>4, <1>5 DEF Answer

LEMMA AnswersSent ==
  ASSUME FeedInv, Answers, NEW kind, NEW c, NEW T, Send(kind, c, T),
         UNCHANGED <<served, wire>>
  PROVE  Answers'
<1>1. /\ requests' = Append(requests, cmd') /\ cmd'.id = cmd.id + 1 /\ answer' = "none"
  BY DEF Send, CommandId
<1>2. /\ DOMAIN requests = 1..Len(requests) /\ Len(requests) \in Nat
      /\ DOMAIN requests' = DOMAIN requests \cup {Len(requests) + 1}
      /\ \A k \in DOMAIN requests : requests'[k] = requests[k]
      /\ requests'[Len(requests) + 1] = cmd'
  BY <1>1, RequestsSent
<1>3. RequestsOrdered'
  <2>1. ASSUME NEW k \in DOMAIN requests
        PROVE  requests[k].id \in Nat /\ requests[k].id <= cmd.id /\ cmd.id \in Nat
    BY Numbers DEF Answers, RequestsOrdered
  <2> QED
    BY <1>1, <1>2, <2>1, Numbers DEF Answers, RequestsOrdered
<1>4. RepliesTrue'
  <2>1. ASSUME NEW i \in DOMAIN wire, wire[i].type \in Replies
        PROVE  /\ wire[i].id <= cmd'.id /\ wire[i].id # cmd'.id
               /\ \A k \in DOMAIN requests' : wire[i].id < requests'[k].id
    BY <1>1, <1>2, <2>1, Numbers DEF Answers, RepliesTrue
  <2> QED  BY <2>1 DEF RepliesTrue
<1>5. AnsweredServed'  BY <1>1 DEF AnsweredServed
<1> QED  BY <1>3, <1>4, <1>5 DEF Answers

(* The server answers the request it takes.                                *)
LEMMA AnswersReplied ==
  ASSUME FeedInv, Answers, TakeRequest, UNCHANGED <<cmd, pc, answer>>,
         NEW type \in Replies, NEW sid, NEW seq, Sent(<<Reply(type, Request, sid, seq)>>),
         type # "error" /\ Request.kind \in {"subscribe", "add"} =>
           /\ Request.channel \in DOMAIN served'
           /\ Request.tickers \subseteq served'[Request.channel].tickers
  PROVE  Answers'
<1> DEFINE m == Reply(type, Request, sid, seq)
<1>1. /\ 1 \in DOMAIN requests /\ Request = requests[1]
      /\ \A k \in DOMAIN requests' :
           k \in Nat \ {0} /\ k + 1 \in DOMAIN requests /\ requests'[k] = requests[k + 1]
  BY RequestsTaken DEF FeedInv, WireTypes, TakeRequest
<1>2. /\ DOMAIN wire' = DOMAIN wire \cup {Len(wire) + 1}
      /\ \A i \in DOMAIN wire : wire'[i] = wire[i]
      /\ wire'[Len(wire) + 1] = m
  BY WireSent
<1>3. m.id = Request.id /\ m.type = type
  BY DEF Reply
<1> HIDE DEF m
<1>4. \A k \in DOMAIN requests' : requests[1].id < requests'[k].id
  BY <1>1 DEF Answers, RequestsOrdered
<1>5. RequestsOrdered'
  BY <1>1, Numbers DEF Answers, RequestsOrdered
<1>6. ~ (pc = "waiting" /\ answer = "ok")
  BY <1>1 DEF Answers, AnsweredServed
<1>7. AnsweredServed'
  BY <1>6 DEF AnsweredServed
<1>8. ASSUME NEW i \in DOMAIN wire, wire[i].type \in Replies
      PROVE  /\ wire[i].id <= cmd.id /\ wire[i].id # cmd.id
             /\ \A k \in DOMAIN requests' : wire[i].id < requests'[k].id
  BY <1>1, <1>8, Numbers DEF Answers, RepliesTrue, RequestsOrdered
<1>9. /\ Request.id <= cmd.id
      /\ type # "error" /\ Request.id = cmd.id /\ Subscribing => Served'
  <2>1. Request.id <= cmd.id /\ (Request.id = cmd.id => Request = cmd)
    BY <1>1 DEF Answers, RequestsOrdered
  <2> QED  BY <2>1 DEF Subscribing, Served
<1>10. RepliesTrue'
  <2>1. Subscribing' = Subscribing  BY DEF Subscribing
  <2>2. ASSUME NEW i \in DOMAIN wire', wire'[i].type \in Replies
        PROVE  /\ wire'[i].id <= cmd.id
               /\ \A k \in DOMAIN requests' : wire'[i].id < requests'[k].id
               /\ wire'[i].type # "error" /\ wire'[i].id = cmd.id /\ Subscribing => Served'
    <3>1. CASE i \in DOMAIN wire
      BY <1>2, <1>8, <2>2, <3>1
    <3>2. CASE i = Len(wire) + 1
      BY <1>1, <1>2, <1>3, <1>4, <1>9, <3>2
    <3> QED  BY <1>2, <3>1, <3>2
  <2> QED  BY <2>1, <2>2 DEF RepliesTrue
<1> QED  BY <1>5, <1>7, <1>10 DEF Answers

LEMMA InitAnswers == Init => Answers
BY DEF Init, Answers, RequestsOrdered, RepliesTrue, AnsweredServed

LEMMA AnswersNext ==
  ASSUME FeedInv, Answers, NextChannel
  PROVE  Answers'
<1>1. UNCHANGED <<served, wire>> /\ pc = "next"
  BY DEF NextChannel
<1>2. WireLeft(Replies)  BY <1>1, WireLeftIf
<1>3. CASE UNCHANGED <<cmd, requests>> /\ (pc' = pc \/ pc' = "idle")
  BY <1>1, <1>2, <1>3, AnswersSame
<1>4. CASE \E kind, T : Send(kind, Todo, T)
  BY <1>1, <1>4, AnswersSent
<1> QED
  BY <1>3, <1>4 DEF NextChannel, FeedInv, CallTypes, Calls,
     SubscribeMarkets, UnsubscribeMarkets, UnsubscribeChannel, SkipChannel, CallRaises

LEMMA AnswersHandled ==
  ASSUME FeedInv, Answers, HandleMessage
  PROVE  Answers'
<1>1. TakeMessage /\ UNCHANGED server
  BY DEF HandleMessage, GapRaises, HandleSnapshot, HandleDelta, HandleSubscribed,
         HandleUnsubscribed, HandleOk, HandleError, HandleNote, Handle
<1>2. WireLeft(Replies)  BY <1>1, WireLeftIf
<1>3. CASE UNCHANGED <<cmd, answer>> /\ (pc' = pc \/ pc' = "idle")
  BY <1>1, <1>2, <1>3, AnswersSame DEF server
<1>4. ReceiveRaises => UNCHANGED <<cmd, answer>> /\ (pc' = pc \/ pc' = "idle")
  BY DEF ReceiveRaises, CommandRaises, calling
<1>5. CASE HandleSubscribed \/ HandleUnsubscribed \/ HandleOk
  <2>1. Answer("ok") /\ Message.type \in {"subscribed", "unsubscribed", "ok"}
    BY <1>5 DEF HandleSubscribed, HandleUnsubscribed, HandleOk, Handle
  <2> QED  BY <1>1, <2>1, AnswersGiven DEF Replies
<1>6. CASE HandleError
  <2>1. CASE Answer("error")
    <3>1. Message.type \in Replies  BY <1>6 DEF HandleError, Handle, Replies
    <3> QED  BY <1>1, <2>1, <3>1, AnswersGiven
  <2> QED  BY <1>3, <1>4, <1>6, <2>1 DEF HandleError
<1>7. CASE GapRaises \/ HandleSnapshot \/ HandleDelta \/ HandleNote
  BY <1>3, <1>4, <1>7 DEF GapRaises, HandleSnapshot, HandleDelta, HandleNote, calling
<1> QED  BY <1>5, <1>6, <1>7 DEF HandleMessage

LEMMA AnswersServer ==
  ASSUME FeedInv, Answers, Server
  PROVE  Answers'
<1>1. UNCHANGED <<cmd, pc, answer>>
  BY DEF Server, Refuse, ServeSubscribe, ServeAdd, ServeDelete, ServeUnsubscribe,
         SendSnapshot, MarketMoves, SendNote, Exchange, calling
<1>2. CASE Refuse
  <2>1. TakeRequest /\ Sent(<<Reply("error", Request, NoSid, NoSeq)>>)
    BY <1>2 DEF Refuse
  <2>2. "error" \in Replies  BY DEF Replies
  <2> QED  BY <1>1, <2>1, <2>2, AnswersReplied
<1>3. CASE ServeSubscribe
  <2> DEFINE sid == Len(sent) + 1
  <2>1. /\ TakeRequest /\ Sent(<<Reply("subscribed", Request, sid, NoSeq)>>)
        /\ served' = With(served, Request.channel,
                          [sid |-> sid, tickers |-> Request.tickers])
    BY <1>3 DEF ServeSubscribe
  <2>2. "subscribed" \in Replies  BY DEF Replies
  <2>3. /\ Request.channel \in DOMAIN served'
        /\ Request.tickers \subseteq served'[Request.channel].tickers
    BY <2>1 DEF With
  <2> QED  BY <1>1, <2>1, <2>2, <2>3, AnswersReplied
<1>4. CASE ServeAdd
  <2>1. /\ TakeRequest /\ Sent(<<Reply("ok", Request, Request.sid, sent'[Request.sid])>>)
        /\ Request.channel \in DOMAIN served
        /\ served' = [served EXCEPT ![Request.channel].tickers = @ \cup Request.tickers]
    BY <1>4 DEF ServeAdd, IsServed
  <2>2. "ok" \in Replies  BY DEF Replies
  <2>3. /\ Request.channel \in DOMAIN served'
        /\ Request.tickers \subseteq served'[Request.channel].tickers
    BY <2>1 DEF FeedInv, ServedTypes
  <2> QED  BY <1>1, <2>1, <2>2, <2>3, AnswersReplied
<1>5. ASSUME NEW type \in Replies, NEW sid, NEW seq, TakeRequest,
             Request.kind \notin {"subscribe", "add"}, Sent(<<Reply(type, Request, sid, seq)>>)
      PROVE  Answers'
  BY <1>1, <1>5, AnswersReplied
<1>6. CASE ServeDelete
  <2>1. /\ TakeRequest /\ Sent(<<Reply("ok", Request, Request.sid, sent'[Request.sid])>>)
        /\ Request.kind = "delete" /\ "ok" \in Replies
    BY <1>6 DEF ServeDelete, Replies
  <2> QED  BY <2>1, <1>5
<1>7. ASSUME NEW type \in {"unsubscribed", "ok"}, ServeUnsubscribe(type)
      PROVE  Answers'
  <2>1. /\ TakeRequest /\ Sent(<<Reply(type, Request, Request.sid, sent'[Request.sid])>>)
        /\ Request.kind = "unsubscribe" /\ type \in Replies
    BY <1>7 DEF ServeUnsubscribe, Replies
  <2> QED  BY <2>1, <1>5
<1>8. ASSUME UNCHANGED <<served, requests>>,
             UNCHANGED wire \/ \E m : Sent(<<m>>) /\ m.type \notin Replies
      PROVE  Answers'
  <2>1. WireLeft(Replies)  BY <1>8, WireLeftIf
  <2> QED  BY <1>1, <1>8, <2>1, AnswersSame
<1>9. ASSUME NEW t \in Tickers, SendSnapshot(t)  PROVE Answers'
  BY <1>8, <1>9 DEF SendSnapshot, Exchange, BookMessage, Replies
<1>10. ASSUME NEW t \in Tickers, MarketMoves(t)  PROVE Answers'
  BY <1>8, <1>10 DEF MarketMoves, Exchange, BookMessage, Replies
<1>11. ASSUME NEW c \in Channels, SendNote(c)  PROVE Answers'
  BY <1>8, <1>11 DEF SendNote, Exchange, server, Replies
<1> QED
  BY <1>2, <1>3, <1>4, <1>6, <1>7, <1>9, <1>10, <1>11 DEF Server

LEMMA AnswersKeeps ==
  ASSUME FeedInv, Answers, [Next]_vars
  PROVE  Answers'
<1>1. CASE /\ UNCHANGED <<cmd, answer>> /\ UNCHANGED server /\ UNCHANGED wire
           /\ pc' = pc \/ pc' # "waiting"
  <2>1. WireLeft(Replies)  BY <1>1, WireLeftIf
  <2> QED  BY <1>1, <2>1, AnswersSame DEF server
<1>2. CASE Close
  BY <1>2 DEF Close, Answers, RequestsOrdered, RepliesTrue, AnsweredServed
<1>3. CASE Caller
  BY <1>1, <1>2, <1>3
     DEF Caller, Subscribe, Unsubscribe, UnsubscribeChannels, Call, RunForever, calling
<1>4. CASE CommandAnswered
  BY <1>1, <1>4 DEF CommandAnswered, CommandRaises, CommandSucceeds
<1>5. CASE Controller
  BY <1>1, <1>4, <1>5, AnswersNext, AnswersHandled
     DEF Controller, LoadPriceRanges, CallReturns, CommandTimesOut, CommandRaises
<1> QED
  BY <1>1, <1>3, <1>5, AnswersServer DEF Next, Tick, vars, calling

-----------------------------------------------------------------------------
(* What every number of a subscription stands for.                         *)

(* h[s][q][t]: the updates of market t that the messages 1..q of           *)
(* subscription s tell of.                                                 *)
Histories == [Nat -> [Nat -> [Tickers -> Nat]]]

IsBookUpdate(m) == m.type \in {"snapshot", "delta"}

(* A message that is lost leaves its number untold on the wire, not in h.  *)
Tells(h, m) ==
  /\ m.sid \in DOMAIN sent /\ m.seq \in 1..sent[m.sid]
  /\ \A t \in Tickers :
       IF IsBookUpdate(m) /\ t = m.ticker
       THEN /\ h[m.sid][m.seq][t] = m.upd
            /\ h[m.sid][m.seq - 1][t] <= m.upd
            /\ m.type = "delta" => m.upd = h[m.sid][m.seq - 1][t] + 1
       ELSE h[m.sid][m.seq][t] = h[m.sid][m.seq - 1][t]

ToldByServer(h) ==
  /\ \A s \in DOMAIN sent : \A q \in 0..sent[s], t \in Tickers : h[s][q][t] <= truth[t]
  /\ \A t \in live : h[BookSid][sent[BookSid]][t] = truth[t]

ToldOnWire(h) ==
  \A i \in DOMAIN wire :
    /\ wire[i].seq # NoSeq => Tells(h, wire[i])
    /\ wire[i].type \in {"snapshot", "delta", "ok"} => wire[i].seq # NoSeq

ToldToController(h) ==
  /\ \A s \in DOMAIN lastSeq : s \in DOMAIN sent /\ lastSeq[s] \in 1..sent[s]
  /\ \A t \in DOMAIN books :
       /\ sids[BookChannel] \in DOMAIN lastSeq
       /\ books[t] = 1..h[sids[BookChannel]][lastSeq[sids[BookChannel]]][t]

History(h) == ToldByServer(h) /\ ToldOnWire(h) /\ ToldToController(h)

(* Without a number the message tells nothing.                             *)
Plain(m) == m.seq = NoSeq /\ m.type \notin {"snapshot", "delta", "ok"}

WireFrom ==
  \A i \in DOMAIN wire' : Plain(wire'[i]) \/ \E j \in DOMAIN wire : wire'[i] = wire[j]

LEMMA WireFromIf ==
  ASSUME FeedInv,
         \/ UNCHANGED wire
         \/ TakeMessage
         \/ \E m : Sent(<<m>>) /\ Plain(m)
  PROVE  WireFrom
<1>1. CASE UNCHANGED wire
  BY <1>1 DEF WireFrom
<1>2. CASE TakeMessage
  BY <1>2, WireTaken DEF WireFrom
<1>3. CASE \E m : Sent(<<m>>) /\ Plain(m)
  BY <1>3, WireSent DEF WireFrom
<1> QED  BY <1>1, <1>2, <1>3

(* Markets move that no one is told of.                                    *)
ServerToldLess ==
  /\ UNCHANGED sent
  /\ \A t \in Tickers : truth'[t] >= truth[t]
  /\ \A t \in live' : t \in live /\ truth'[t] = truth[t] /\ BookSid' = BookSid

(* Books and numbers go, none is new.                                      *)
ControllerToldLess ==
  /\ \A s \in DOMAIN lastSeq' : s \in DOMAIN lastSeq /\ lastSeq'[s] = lastSeq[s]
  /\ \A t \in DOMAIN books' :
       /\ t \in DOMAIN books /\ books'[t] = books[t]
       /\ sids'[BookChannel] = sids[BookChannel] /\ sids[BookChannel] \in DOMAIN lastSeq'

LEMMA ServerStays ==
  ASSUME FeedInv, FeedInv', NEW h \in Histories, History(h), ServerToldLess
  PROVE  ToldByServer(h)'
<1>1. ASSUME NEW s \in DOMAIN sent, NEW q \in 0..sent[s], NEW t \in Tickers
      PROVE  h[s][q][t] <= truth'[t]
  <2>1. s \in Nat /\ q \in Nat /\ h[s][q][t] \in Nat
    <3>1. s \in Nat /\ sent[s] \in Nat  BY DEF FeedInv, ServedTypes
    <3>2. q \in Nat  BY <3>1
    <3>3. h[s] \in [Nat -> [Tickers -> Nat]]  BY <3>1 DEF Histories
    <3>4. h[s][q] \in [Tickers -> Nat]  BY <3>2, <3>3
    <3> QED  BY <3>1, <3>2, <3>4
  <2>2. h[s][q][t] <= truth[t] /\ truth[t] <= truth'[t]
    BY DEF History, ToldByServer, ServerToldLess
  <2>3. truth[t] \in Nat /\ truth'[t] \in Nat
    BY DEF FeedInv, ServedTypes
  <2> QED  BY <2>1, <2>2, <2>3
<1>2. \A t \in live' : h[BookSid'][sent'[BookSid']][t] = truth'[t]
  BY DEF ServerToldLess, History, ToldByServer
<1> QED  BY <1>1, <1>2 DEF ServerToldLess, ToldByServer

LEMMA WireStays ==
  ASSUME FeedInv, NEW h \in Histories, History(h), WireFrom, UNCHANGED sent
  PROVE  ToldOnWire(h)'
BY DEF History, ToldOnWire, WireFrom, Plain, Tells

LEMMA ControllerStays ==
  ASSUME FeedInv, NEW h \in Histories, History(h), ControllerToldLess, UNCHANGED sent
  PROVE  ToldToController(h)'
BY DEF History, ToldToController, ControllerToldLess

(* A message is taken in order and its number noted; the books show what   *)
(* it tells.                                                               *)
LEMMA ControllerTold ==
  ASSUME FeedInv, Epoch, NEW h \in Histories, History(h),
         TakeMessage, ~ SequenceGap, lastSeq' = UpdateSidSequence, UNCHANGED <<sids, sent>>,
         Message.type \in {"snapshot", "delta", "ok"},
         \A t \in DOMAIN books' :
           \/ /\ t \in DOMAIN books /\ books'[t] = books[t]
              /\ BookChannel \in DOMAIN sids /\ Message.sid = sids[BookChannel]
                 /\ IsBookUpdate(Message) => t # Message.ticker
           \/ /\ BookChannel \in DOMAIN sids /\ Message.sid = sids[BookChannel]
              /\ IsBookUpdate(Message) /\ t = Message.ticker /\ t \in Tickers
              /\ books'[t] = 1..Message.upd
  PROVE  ToldToController(h)'
<1> DEFINE m == Message
           b == sids[BookChannel]
<1>1. 1 \in DOMAIN wire /\ m = wire[1]
  BY WireTaken
<1>2. m.seq # NoSeq /\ Tells(h, m)
  BY <1>1 DEF History, ToldOnWire
<1>3. /\ m.sid \in DOMAIN sent /\ m.seq \in 1..sent[m.sid] /\ m.sid \in Nat
      /\ m.seq \in Nat /\ sent[m.sid] \in Nat
  BY <1>2 DEF Tells, FeedInv, ServedTypes
<1>4. DOMAIN books \subseteq Tickers /\ (DOMAIN books # {} => BookChannel \in DOMAIN sids)
  BY DEF FeedInv, BookTypes, NoGhostBook
<1>5. CASE Known(m.sid)
  <2>1. /\ DOMAIN lastSeq' = DOMAIN lastSeq \cup {m.sid}
        /\ \A s \in DOMAIN lastSeq' : lastSeq'[s] = IF s = m.sid THEN m.seq ELSE lastSeq[s]
    BY <1>2, <1>5 DEF UpdateSidSequence, With
  <2>2. \A s \in DOMAIN lastSeq' : s \in DOMAIN sent' /\ lastSeq'[s] \in 1..sent'[s]
    BY <1>3, <2>1 DEF History, ToldToController
  <2>3. m.sid \in DOMAIN lastSeq => m.seq = lastSeq[m.sid] + 1 /\ lastSeq[m.sid] \in Nat
    BY <1>2, <1>5 DEF SequenceGap, FeedInv, NumberTypes
  <2> HIDE DEF m
  <2>4. ASSUME NEW t \in DOMAIN books', t \in DOMAIN books, books'[t] = books[t],
               BookChannel \in DOMAIN sids /\ m.sid = b /\ IsBookUpdate(m) => t # m.ticker
        PROVE  b \in DOMAIN lastSeq' /\ books'[t] = 1..h[b][lastSeq'[b]][t]
    <3>1. /\ b \in DOMAIN lastSeq /\ books[t] = 1..h[b][lastSeq[b]][t]
          /\ t \in Tickers /\ BookChannel \in DOMAIN sids
      BY <1>4, <2>4 DEF History, ToldToController
    <3>2. CASE b # m.sid
      BY <2>1, <2>4, <3>1, <3>2
    <3>3. CASE b = m.sid
      <4>1. h[b][m.seq][t] = h[b][m.seq - 1][t]
        BY <1>2, <2>4, <3>1, <3>3 DEF Tells
      <4>2. m.seq - 1 = lastSeq[b]
        BY <2>3, <3>1, <3>3
      <4> QED  BY <2>1, <2>4, <3>1, <3>3, <4>1, <4>2
    <3> QED  BY <3>2, <3>3
  <2>5. ASSUME NEW t \in DOMAIN books', BookChannel \in DOMAIN sids, m.sid = b,
               IsBookUpdate(m), t = m.ticker, t \in Tickers, books'[t] = 1..m.upd
        PROVE  b \in DOMAIN lastSeq' /\ books'[t] = 1..h[b][lastSeq'[b]][t]
    BY <1>2, <2>1, <2>5 DEF Tells
  <2>6. \A t \in DOMAIN books' :
          b \in DOMAIN lastSeq' /\ books'[t] = 1..h[b][lastSeq'[b]][t]
    BY <2>4, <2>5 DEF m
  <2> QED  BY <2>2, <2>6 DEF ToldToController
<1>6. CASE ~ Known(m.sid)
  <2>1. lastSeq' = lastSeq
    BY <1>6 DEF UpdateSidSequence
  <2>2. ~ (BookChannel \in DOMAIN sids /\ m.sid = b)
    BY <1>6 DEF Known, Range
  <2>3. \A t \in DOMAIN books' : t \in DOMAIN books /\ books'[t] = books[t]
    BY <2>2
  <2> QED  BY <2>1, <2>3 DEF History, ToldToController
<1> QED  BY <1>5, <1>6

(* A message is numbered.  g is the history with what it tells.            *)
LEMMA ServerTells ==
  ASSUME FeedInv, FeedInv', Epoch, NEW h \in Histories, History(h),
         NEW s \in DOMAIN sent, Numbered(s), NEW v \in [Tickers -> Nat],
         \A t \in Tickers : truth'[t] >= truth[t] /\ v[t] <= truth'[t],
         \A t \in live' :
           \/ BookSid' = s /\ v[t] = truth'[t]
           \/ BookSid' # s /\ BookSid' = BookSid /\ t \in live /\ truth'[t] = truth[t],
         \/ UNCHANGED wire
         \/ \E m : /\ Sent(<<m>>) /\ m.sid = s /\ m.seq = sent[s] + 1
                  /\ \A t \in Tickers :
                       IF IsBookUpdate(m) /\ t = m.ticker
                       THEN /\ v[t] = m.upd /\ h[s][sent[s]][t] <= m.upd
                            /\ m.type = "delta" => m.upd = h[s][sent[s]][t] + 1
                       ELSE v[t] = h[s][sent[s]][t],
         UNCHANGED <<books, sids, lastSeq>>
  PROVE  \E g \in Histories : History(g)'
<1> DEFINE n == sent[s] + 1
<1>1. s \in Nat /\ sent[s] \in Nat /\ n \in Nat /\ n # NoSeq /\ DOMAIN sent \subseteq Nat
  BY DEF FeedInv, ServedTypes, NoSeq
<1>2. /\ DOMAIN sent' = DOMAIN sent /\ sent'[s] = n
      /\ \A r \in DOMAIN sent : r # s => sent'[r] = sent[r]
      /\ \A r \in DOMAIN sent : sent[r] \in Nat
  BY DEF Numbered, FeedInv, ServedTypes
<1>3. h \in [Nat -> [Nat -> [Tickers -> Nat]]]  BY DEF Histories
<1>4. PICK g \in Histories : g = [h EXCEPT ![s] = [h[s] EXCEPT ![n] = v]]
  BY <1>1, <1>3 DEF Histories
<1>5. \A r \in Nat : \A q \in Nat : g[r][q] = IF r = s /\ q = n THEN v ELSE h[r][q]
  BY <1>1, <1>3, <1>4
<1>6. \A r \in DOMAIN sent : \A q \in 0..sent[r] : g[r][q] = h[r][q]
  <2> TAKE r \in DOMAIN sent
  <2> TAKE q \in 0..sent[r]
  <2>1. r \in Nat /\ q \in Nat /\ ~ (r = s /\ q = n)  BY <1>1, <1>2
  <2> QED  BY <1>5, <2>1
<1>7. g[s][n] = v
  BY <1>1, <1>5
<1>8. ToldByServer(g)'
  <2>1. ASSUME NEW r \in DOMAIN sent', NEW q \in 0..sent'[r], NEW t \in Tickers
        PROVE  g[r][q][t] <= truth'[t]
    <3>1. r \in DOMAIN sent /\ r \in Nat /\ sent'[r] \in Nat /\ q \in Nat
      BY <1>1, <1>2
    <3>2. CASE r = s /\ q = n
      BY <1>7, <3>2
    <3>3. CASE ~ (r = s /\ q = n)
      <4>1. q \in 0..sent[r]  BY <1>1, <1>2, <3>1, <3>3
      <4>2. g[r][q] = h[r][q] /\ h[r][q][t] <= truth[t]
        BY <1>6, <3>1, <4>1 DEF History, ToldByServer
      <4>3. h[r][q][t] \in Nat
        <5>1. h[r] \in [Nat -> [Tickers -> Nat]]  BY <1>3, <3>1
        <5>2. h[r][q] \in [Tickers -> Nat]  BY <3>1, <5>1
        <5> QED  BY <5>2
      <4>4. truth[t] \in Nat /\ truth'[t] \in Nat /\ truth[t] <= truth'[t]
        BY DEF FeedInv, ServedTypes
      <4> QED  BY <4>2, <4>3, <4>4
    <3> QED  BY <3>2, <3>3
  <2>2. ASSUME NEW t \in live'
        PROVE  g[BookSid'][sent'[BookSid']][t] = truth'[t]
    <3>1. CASE BookSid' = s /\ v[t] = truth'[t]
      BY <1>2, <1>7, <3>1
    <3>2. CASE BookSid' # s /\ BookSid' = BookSid /\ t \in live /\ truth'[t] = truth[t]
      <4>1. BookSid \in DOMAIN sent
        BY <3>2 DEF FeedInv, ServedNumbered, BookSid
      <4>2. sent'[BookSid'] = sent[BookSid] /\ sent[BookSid] \in 0..sent[BookSid]
        BY <1>2, <3>2, <4>1
      <4>3. g[BookSid][sent[BookSid]] = h[BookSid][sent[BookSid]]
        BY <1>6, <4>1, <4>2
      <4> QED  BY <3>2, <4>2, <4>3 DEF History, ToldByServer
    <3> QED  BY <3>1, <3>2
  <2> QED  BY <2>1, <2>2 DEF ToldByServer
<1>9. ASSUME NEW m, m.sid \in DOMAIN sent, m.seq \in 1..sent[m.sid], Tells(h, m)
      PROVE  Tells(g, m)'
  <2>1. /\ m.seq \in 0..sent[m.sid] /\ m.seq - 1 \in 0..sent[m.sid]
        /\ m.sid \in DOMAIN sent' /\ m.seq \in 1..sent'[m.sid]
    BY <1>1, <1>2, <1>9
  <2>2. g[m.sid][m.seq] = h[m.sid][m.seq] /\ g[m.sid][m.seq - 1] = h[m.sid][m.seq - 1]
    BY <1>6, <1>9, <2>1
  <2> QED  BY <1>9, <2>1, <2>2 DEF Tells
<1>10. ToldOnWire(g)'
  <2>1. ASSUME NEW i \in DOMAIN wire
        PROVE  /\ \A m : m = wire[i] /\ m.seq # NoSeq => Tells(g, m)'
               /\ wire[i].type \in {"snapshot", "delta", "ok"} => wire[i].seq # NoSeq
    <3>1. wire[i].seq # NoSeq => Tells(h, wire[i])
      BY DEF History, ToldOnWire
    <3>2. Tells(h, wire[i]) => wire[i].sid \in DOMAIN sent /\ wire[i].seq \in 1..sent[wire[i].sid]
      BY DEF Tells
    <3>3. wire[i].type \in {"snapshot", "delta", "ok"} => wire[i].seq # NoSeq
      BY DEF History, ToldOnWire
    <3>4. \A m : m = wire[i] /\ m.seq # NoSeq => Tells(g, m)'
      BY <1>9, <3>1, <3>2
    <3> QED  BY <3>3, <3>4
  <2>2. CASE UNCHANGED wire
    <3>1. UNCHANGED wire  BY <2>2
    <3> QED  BY <2>1, <3>1 DEF ToldOnWire
  <2>3. CASE ~ UNCHANGED wire
    <3>1. PICK m : /\ Sent(<<m>>) /\ m.sid = s /\ m.seq = n
                  /\ \A t \in Tickers :
                       IF IsBookUpdate(m) /\ t = m.ticker
                       THEN /\ v[t] = m.upd /\ h[s][sent[s]][t] <= m.upd
                            /\ m.type = "delta" => m.upd = h[s][sent[s]][t] + 1
                       ELSE v[t] = h[s][sent[s]][t]
      BY <2>3
    <3>2. /\ DOMAIN wire' = DOMAIN wire \cup {Len(wire) + 1}
          /\ \A i \in DOMAIN wire : wire'[i] = wire[i]
          /\ wire'[Len(wire) + 1] = m
      BY <3>1, WireSent
    <3>3. Tells(g, m)'
      <4>1. m.seq - 1 = sent[s] /\ sent[s] \in 0..sent[s]  BY <1>1, <3>1
      <4>2. g[m.sid][m.seq] = v /\ g[m.sid][m.seq - 1] = h[s][sent[s]]
        BY <1>6, <1>7, <3>1, <4>1
      <4>3. m.sid \in DOMAIN sent' /\ m.seq \in 1..sent'[m.sid]
        BY <1>1, <1>2, <3>1
      <4> QED  BY <3>1, <4>2, <4>3 DEF Tells
    <3> QED
      BY <1>1, <2>1, <3>1, <3>2, <3>3 DEF ToldOnWire
  <2> QED  BY <2>2, <2>3
<1>11. ToldToController(g)'
  <2>1. \A r \in DOMAIN lastSeq :
          /\ r \in DOMAIN sent /\ lastSeq[r] \in 1..sent[r] /\ lastSeq[r] \in 1..sent'[r]
          /\ g[r][lastSeq[r]] = h[r][lastSeq[r]]
    <3> TAKE r \in DOMAIN lastSeq
    <3>1. r \in DOMAIN sent /\ lastSeq[r] \in 1..sent[r]
      BY DEF History, ToldToController
    <3>2. lastSeq[r] \in 1..sent'[r] /\ lastSeq[r] \in 0..sent[r]
      BY <1>1, <1>2, <3>1
    <3> QED  BY <1>6, <3>1, <3>2
  <2>2. \A t \in DOMAIN books :
          /\ sids[BookChannel] \in DOMAIN lastSeq
          /\ books[t] = 1..g[sids[BookChannel]][lastSeq[sids[BookChannel]]][t]
    BY <2>1 DEF History, ToldToController
  <2> QED  BY <1>2, <2>1, <2>2 DEF ToldToController
<1> QED  BY <1>4, <1>8, <1>10, <1>11 DEF History

(* A subscription begins.                                                  *)
LEMMA HistoryBegins ==
  ASSUME FeedInv, FeedInv', NEW h \in Histories, History(h), ServeSubscribe
  PROVE  \E g \in Histories : History(g)'
<1> DEFINE s == Len(sent) + 1
           c == Request.channel
           zero == [t \in Tickers |-> 0]
<1>1. /\ c \notin DOMAIN served /\ UNCHANGED <<truth, live, books, sids, lastSeq>>
      /\ served' = With(served, c, [sid |-> s, tickers |-> Request.tickers])
      /\ sent' = Append(sent, 0) /\ Sent(<<Reply("subscribed", Request, s, NoSeq)>>)
  BY DEF ServeSubscribe, Exchange
<1>2. /\ s \in Nat /\ s \notin DOMAIN sent /\ DOMAIN sent \subseteq Nat
      /\ DOMAIN sent' = DOMAIN sent \cup {s} /\ sent'[s] = 0
      /\ \A r \in DOMAIN sent : sent'[r] = sent[r] /\ sent[r] \in Nat
  BY <1>1 DEF FeedInv, ServedTypes
<1>3. h \in [Nat -> [Nat -> [Tickers -> Nat]]] /\ zero \in [Tickers -> Nat]
  BY DEF Histories
<1>4. PICK g \in Histories : g = [h EXCEPT ![s] = [h[s] EXCEPT ![0] = zero]]
  BY <1>2, <1>3 DEF Histories
<1>5. /\ \A r \in DOMAIN sent : g[r] = h[r]
      /\ g[s][0] = zero
  BY <1>2, <1>3, <1>4
<1>6. ASSUME NEW t \in live
      PROVE  /\ BookChannel \in DOMAIN served /\ BookSid' = BookSid /\ BookSid \in DOMAIN sent
  <2>1. BookChannel \in DOMAIN served /\ served[BookChannel].sid \in DOMAIN sent
    BY DEF FeedInv, ServedNumbered
  <2> QED  BY <1>1, <2>1 DEF BookSid, With
<1> HIDE DEF s, zero
<1>7. ToldByServer(g)'
  <2>1. ASSUME NEW r \in DOMAIN sent', NEW q \in 0..sent'[r], NEW t \in Tickers
        PROVE  g[r][q][t] <= truth'[t]
    <3>1. CASE r = s
      <4>1. q = 0  BY <1>2, <3>1
      <4>2. g[r][q][t] = 0 /\ truth'[t] \in Nat
        BY <1>5, <3>1, <4>1 DEF zero, FeedInv, ServedTypes
      <4> QED  BY <4>2
    <3>2. CASE r \in DOMAIN sent
      BY <1>1, <1>2, <1>5, <3>2 DEF History, ToldByServer
    <3> QED  BY <1>2, <3>1, <3>2
  <2>2. ASSUME NEW t \in live'
        PROVE  g[BookSid'][sent'[BookSid']][t] = truth'[t]
    BY <1>1, <1>2, <1>5, <1>6 DEF History, ToldByServer
  <2> QED  BY <2>1, <2>2 DEF ToldByServer
<1>8. ASSUME NEW m, Tells(h, m)
      PROVE  Tells(g, m)'
  BY <1>2, <1>5, <1>8 DEF Tells
<1>9. ToldOnWire(g)'
  <2>1. WireFrom
    <3>1. Plain(Reply("subscribed", Request, s, NoSeq))  BY DEF Plain, Reply
    <3>2. \E m : Sent(<<m>>) /\ Plain(m)  BY <1>1, <3>1 DEF s
    <3> QED  BY <3>2, WireFromIf
  <2>2. ASSUME NEW m, \E j \in DOMAIN wire : m = wire[j]
        PROVE  /\ m.seq # NoSeq => Tells(g, m)'
               /\ m.type \in {"snapshot", "delta", "ok"} => m.seq # NoSeq
    BY <1>8, <2>2 DEF History, ToldOnWire
  <2>3. ASSUME NEW i \in DOMAIN wire', NEW m, m = wire'[i]
        PROVE  /\ m.seq # NoSeq => Tells(g, m)'
               /\ m.type \in {"snapshot", "delta", "ok"} => m.seq # NoSeq
    <3>1. Plain(m) \/ \E j \in DOMAIN wire : m = wire[j]
      BY <2>1, <2>3 DEF WireFrom
    <3> QED  BY <2>2, <3>1 DEF Plain
  <2> QED  BY <2>3 DEF ToldOnWire
<1>10. ToldToController(g)'
  <2>1. \A r \in DOMAIN lastSeq : r \in DOMAIN sent /\ lastSeq[r] \in 1..sent[r]
    BY DEF History, ToldToController
  <2>2. \A t \in DOMAIN books :
          /\ sids[BookChannel] \in DOMAIN lastSeq
          /\ books[t] = 1..g[sids[BookChannel]][lastSeq[sids[BookChannel]]][t]
    BY <1>5, <2>1 DEF History, ToldToController
  <2> QED  BY <1>1, <1>2, <2>1, <2>2 DEF ToldToController
<1> QED  BY <1>4, <1>7, <1>9, <1>10 DEF History

(* The steps of the controller.                                            *)
LEMMA HistorySame ==
  ASSUME FeedInv, FeedInv', NEW h \in Histories, History(h),
         ServerToldLess, WireFrom, ControllerToldLess
  PROVE  History(h)'
BY ServerStays, WireStays, ControllerStays DEF ServerToldLess, History

LEMMA ServerIdle ==
  ASSUME FeedInv, UNCHANGED server
  PROVE  ServerToldLess
BY DEF server, ServerToldLess, BookSid, FeedInv, ServedTypes

LEMMA FewerBooks ==
  ASSUME FeedInv, NEW h \in Histories, History(h), UNCHANGED <<sids, lastSeq>>,
         \A t \in DOMAIN books' : t \in DOMAIN books /\ books'[t] = books[t]
  PROVE  ControllerToldLess
BY DEF ControllerToldLess, History, ToldToController

LEMMA DroppedBooks ==
  ASSUME NEW c, NEW S, books' = DropBooks(c, S)
  PROVE  \A t \in DOMAIN books' : t \in DOMAIN books /\ books'[t] = books[t]
<1>1. BooksLess(DropBooks(c, S), c, S)  BY BooksDropped
<1> QED  BY <1>1 DEF BooksLess

LEMMA RaisedBooks ==
  ASSUME CommandRaises \/ ReceiveRaises
  PROVE  \A t \in DOMAIN books' : t \in DOMAIN books /\ books'[t] = books[t]
<1>1. UNCHANGED books \/ \E c, S : books' = DropBooks(c, S)
  BY DEF CommandRaises, ReceiveRaises
<1> QED  BY <1>1, DroppedBooks

LEMMA ClearedBooks ==
  ASSUME FeedInv, Epoch, NEW h \in Histories, History(h), NEW c \in DOMAIN sids,
         ClearChannel(c)
  PROVE  ControllerToldLess
<1>1. IsPart(sids', sids, {c}) /\ IsPart(lastSeq', lastSeq, {sids[c]})
  BY WithoutIsPart DEF ClearChannel
<1>2. books' = DropBooks(c, markets[c])  BY DEF ClearChannel
<1>3. BooksLess(books', c, markets[c])
  <2>1. BooksLess(DropBooks(c, markets[c]), c, markets[c])  BY BooksDropped
  <2> QED  BY <1>2, <2>1
<1>4. ASSUME NEW t \in DOMAIN books'
      PROVE  /\ t \in DOMAIN books /\ books'[t] = books[t]
             /\ BookChannel \in DOMAIN sids /\ c # BookChannel
  BY <1>3 DEF BooksLess, FeedInv, NoGhostBook
<1>5. ASSUME NEW t \in DOMAIN books'
      PROVE  sids'[BookChannel] = sids[BookChannel] /\ sids[BookChannel] \in DOMAIN lastSeq'
  <2>1. /\ BookChannel \in DOMAIN sids /\ c # BookChannel /\ t \in DOMAIN books
    BY <1>4
  <2>2. sids[BookChannel] # sids[c]  BY <2>1 DEF Epoch, SidsOK
  <2>3. sids[BookChannel] \in DOMAIN lastSeq  BY <2>1 DEF History, ToldToController
  <2> QED  BY <1>1, <2>1, <2>2, <2>3 DEF IsPart
<1> QED  BY <1>1, <1>4, <1>5 DEF ControllerToldLess, IsPart

LEMMA HistoryHandles ==
  ASSUME FeedInv, Epoch, FeedInv', NEW h \in Histories, History(h), HandleMessage
  PROVE  History(h)'
<1>1. TakeMessage /\ UNCHANGED server
  BY DEF HandleMessage, GapRaises, HandleSnapshot, HandleDelta, HandleSubscribed,
         HandleUnsubscribed, HandleOk, HandleError, HandleNote, Handle
<1>2. ServerToldLess /\ WireFrom
  BY <1>1, ServerIdle, WireFromIf
<1>3. CASE ControllerToldLess
  BY <1>2, <1>3, HistorySame
<1>4. ASSUME ToldToController(h)'  PROVE History(h)'
  BY <1>2, <1>4, ServerStays, WireStays DEF ServerToldLess, History
<1>5. ASSUME UNCHANGED <<sids, lastSeq>>, UNCHANGED books \/ CommandRaises \/ ReceiveRaises
      PROVE  History(h)'
  BY <1>3, <1>5, RaisedBooks, FewerBooks
<1>6. CASE GapRaises \/ HandleError \/ HandleNote
  BY <1>5, <1>6 DEF GapRaises, HandleError, HandleNote
<1>7. CASE HandleUnsubscribed
  BY <1>3, <1>5, <1>7, ClearedBooks DEF HandleUnsubscribed
<1>8. CASE HandleSubscribed
  <2>1. /\ sids' = With(sids, Message.channel, Message.sid) /\ UNCHANGED <<books, lastSeq>>
        /\ Message.type = "subscribed"
    BY <1>8 DEF HandleSubscribed, Handle
  <2>2. Message.channel \notin DOMAIN sids
    <3>1. 1 \in DOMAIN wire /\ Message = wire[1]  BY <1>1, WireTaken
    <3> QED  BY <2>1, <3>1 DEF Epoch, AnnouncedOK, Announced
  <2>3. ASSUME NEW t \in DOMAIN books
        PROVE  sids'[BookChannel] = sids[BookChannel] /\ sids[BookChannel] \in DOMAIN lastSeq
    <3>1. BookChannel \in DOMAIN sids /\ BookChannel # Message.channel
      BY <2>2 DEF FeedInv, NoGhostBook
    <3> QED  BY <2>1, <3>1 DEF With, History, ToldToController
  <2> QED  BY <1>3, <2>1, <2>3 DEF ControllerToldLess
<1>9. ASSUME ~ SequenceGap, lastSeq' = UpdateSidSequence, UNCHANGED sids,
             IsBookUpdate(Message) \/ Message.type = "ok",
             \A t \in DOMAIN books' :
               \/ /\ t \in DOMAIN books /\ books'[t] = books[t]
                  /\ IsBookUpdate(Message) /\ Followed => t # Message.ticker
               \/ Followed /\ IsBookUpdate(Message) /\ t = Message.ticker
                  /\ books'[t] = 1..Message.upd
      PROVE  History(h)'
  <2>1. ASSUME NEW t \in DOMAIN books, BookChannel \in DOMAIN sids,
               Message.sid = sids[BookChannel], t = Message.ticker
        PROVE  Followed
    BY <2>1 DEF Followed, FeedInv, NoGhostBook
  <2>2. Followed => BookChannel \in DOMAIN sids /\ Message.sid = sids[BookChannel]
    BY DEF Followed
  <2>3. DOMAIN books' \subseteq Tickers
    BY DEF FeedInv, BookTypes
  <2>4. UNCHANGED sent  BY <1>1 DEF server
  <2>5. Message.type \in {"snapshot", "delta", "ok"}  BY <1>9 DEF IsBookUpdate
  <2>6. \A t \in DOMAIN books' :
           \/ /\ t \in DOMAIN books /\ books'[t] = books[t]
              /\ BookChannel \in DOMAIN sids /\ Message.sid = sids[BookChannel]
                 /\ IsBookUpdate(Message) => t # Message.ticker
           \/ /\ BookChannel \in DOMAIN sids /\ Message.sid = sids[BookChannel]
              /\ IsBookUpdate(Message) /\ t = Message.ticker /\ t \in Tickers
              /\ books'[t] = 1..Message.upd
    BY <1>9, <2>1, <2>2, <2>3
  <2>7. ToldToController(h)'
    BY <1>1, <1>9, <2>4, <2>5, <2>6, ControllerTold
  <2> QED  BY <1>4, <2>7
<1>10. CASE HandleOk
  BY <1>9, <1>10 DEF HandleOk, Handle, IsBookUpdate
<1>11. CASE HandleSnapshot
  <2>1. /\ ~ SequenceGap /\ lastSeq' = UpdateSidSequence /\ UNCHANGED sids
        /\ IsBookUpdate(Message)
    BY <1>11 DEF HandleSnapshot, Handle, IsBookUpdate
  <2>2. Followed => Message.ticker \in ranges
    BY DEF Followed, FeedInv, NoGhostBook
  <2>3. CASE Followed
    <3>1. books' = With(books, Message.ticker, 1..Message.upd)
      BY <1>11, <2>2, <2>3 DEF HandleSnapshot
    <3>2. \A t \in DOMAIN books' :
            \/ t \in DOMAIN books /\ books'[t] = books[t] /\ t # Message.ticker
            \/ t = Message.ticker /\ books'[t] = 1..Message.upd
      BY <3>1 DEF With
    <3> QED  BY <1>9, <2>1, <2>3, <3>2
  <2>4. CASE ~ Followed
    <3>1. books' = books  BY <1>11, <2>4 DEF HandleSnapshot
    <3> QED  BY <1>9, <2>1, <2>4, <3>1
  <2> QED  BY <2>3, <2>4
<1>12. CASE HandleDelta
  <2>1. /\ ~ SequenceGap /\ lastSeq' = UpdateSidSequence /\ UNCHANGED sids
        /\ Message.type = "delta" /\ IsBookUpdate(Message)
    BY <1>12 DEF HandleDelta, Handle, IsBookUpdate
  <2>2. CASE ~ Followed
    <3>1. books' = books  BY <1>12, <2>2 DEF HandleDelta
    <3> QED  BY <1>9, <2>1, <2>2, <3>1
  <2>3. CASE Followed /\ Message.ticker \notin DOMAIN books
    <3>1. ReceiveRaises  BY <1>12, <2>3 DEF HandleDelta
    <3>2. \A t \in DOMAIN books' : t \in DOMAIN books /\ books'[t] = books[t]
      BY <3>1, RaisedBooks
    <3> QED  BY <1>9, <2>1, <2>3, <3>2
  <2>4. CASE Followed /\ Message.ticker \in DOMAIN books
    <3> DEFINE x == Message.ticker
               s == Message.sid
               q == Message.seq
    <3>1. books' = [books EXCEPT ![x] = @ \cup {Message.upd}]
      BY <1>12, <2>4 DEF HandleDelta
    <3>2. 1 \in DOMAIN wire /\ Message = wire[1]  BY <1>1, WireTaken
    <3>3. q # NoSeq /\ Tells(h, Message)
      BY <2>1, <3>2 DEF History, ToldOnWire
    <3>4. /\ s = sids[BookChannel] /\ s \in DOMAIN lastSeq
          /\ books[x] = 1..h[s][lastSeq[s]][x] /\ x \in Tickers
      BY <2>4 DEF Followed, History, ToldToController, FeedInv, BookTypes
    <3>5. lastSeq[s] = q - 1
      <4>1. Known(s)  BY <2>4 DEF Followed, Known, Range
      <4>2. q = lastSeq[s] + 1  BY <2>1, <3>3, <3>4, <4>1 DEF SequenceGap
      <4>3. lastSeq[s] \in Nat  BY <3>4 DEF FeedInv, NumberTypes
      <4> QED  BY <4>2, <4>3
    <3>6. Message.upd = h[s][q - 1][x] + 1
      BY <2>1, <3>3, <3>4 DEF Tells
    <3>7. h[s][q - 1][x] \in Nat
      <4>1. s \in Nat /\ q - 1 \in Nat  BY <3>4, <3>5 DEF FeedInv, NumberTypes
      <4>2. h[s] \in [Nat -> [Tickers -> Nat]]  BY <4>1 DEF Histories
      <4>3. h[s][q - 1] \in [Tickers -> Nat]  BY <4>1, <4>2
      <4> QED  BY <3>4, <4>3
    <3>8. books[x] \cup {Message.upd} = 1..Message.upd
      BY <3>4, <3>5, <3>6, <3>7
    <3> HIDE DEF x, s, q
    <3>9. \A t \in DOMAIN books' :
            \/ t \in DOMAIN books /\ books'[t] = books[t] /\ t # x
            \/ t = x /\ books'[t] = 1..Message.upd
      BY <3>1, <3>8
    <3> QED  BY <1>9, <2>1, <2>4, <3>9 DEF x
  <2> QED  BY <2>2, <2>3, <2>4
<1> QED
  BY <1>6, <1>7, <1>8, <1>10, <1>11, <1>12 DEF HandleMessage

LEMMA HistoryAnswered ==
  ASSUME FeedInv, Epoch, FeedInv', NEW h \in Histories, History(h), CommandAnswered
  PROVE  History(h)'
<1>1. UNCHANGED server /\ UNCHANGED wire  BY DEF CommandAnswered
<1>2. ServerToldLess /\ WireFrom  BY <1>1, ServerIdle, WireFromIf
<1>3. CASE ControllerToldLess  BY <1>2, <1>3, HistorySame
<1>4. ASSUME UNCHANGED <<sids, lastSeq>>,
             UNCHANGED books \/ CommandRaises \/ \E c, S : books' = DropBooks(c, S)
      PROVE  History(h)'
  BY <1>3, <1>4, RaisedBooks, DroppedBooks, FewerBooks
<1>5. CASE cmd.channel \in DOMAIN sids /\ ClearChannel(cmd.channel)
  BY <1>3, <1>5, ClearedBooks
<1>6. cmd.kind \in Kinds  BY DEF FeedInv, CallTypes, Command
<1>7. CASE CommandRaises /\ UNCHANGED <<sids, lastSeq>>
  BY <1>4, <1>7
<1>8. CASE CommandSucceeds
  BY <1>4, <1>5, <1>6, <1>8 DEF CommandSucceeds, Subscribing, Kinds
<1> QED  BY <1>7, <1>8 DEF CommandAnswered

(* The steps of the server.                                                *)
LEMMA HistoryNumbered ==
  ASSUME FeedInv, FeedInv', Epoch, NEW h \in Histories, History(h),
         UNCHANGED <<truth, books, sids, lastSeq>>,
         TakeRequest, IsServed(Request), Numbered(Request.sid), NEW type,
         Sent(<<Reply(type, Request, Request.sid, sent'[Request.sid])>>),
         type \in {"ok", "unsubscribed"}, live' \subseteq live,
         live' # {} => BookSid' = BookSid
  PROVE  \E g \in Histories : History(g)'
<1> DEFINE s == Request.sid
           v == h[s][sent[s]]
           m == Reply(type, Request, s, sent'[s])
<1>1. s \in DOMAIN sent /\ s \in Nat /\ sent[s] \in Nat
  BY DEF IsServed, FeedInv, ServedNumbered, ServedTypes
<1>2. v \in [Tickers -> Nat]
  <2>1. h[s] \in [Nat -> [Tickers -> Nat]]  BY <1>1 DEF Histories
  <2> QED  BY <1>1, <2>1
<1>3. \A t \in Tickers : truth'[t] >= truth[t] /\ v[t] <= truth'[t]
  <2>1. sent[s] \in 0..sent[s]  BY <1>1
  <2> QED  BY <1>1, <2>1 DEF History, ToldByServer, FeedInv, ServedTypes
<1>4. \A t \in live' :
        \/ BookSid' = s /\ v[t] = truth'[t]
        \/ BookSid' # s /\ BookSid' = BookSid /\ t \in live /\ truth'[t] = truth[t]
  BY DEF History, ToldByServer
<1>5. /\ Sent(<<m>>) /\ m.sid = s /\ m.seq = sent[s] + 1 /\ ~ IsBookUpdate(m)
  BY <1>1 DEF Reply, Numbered, IsBookUpdate
<1>6. \A t \in Tickers : IF IsBookUpdate(m) /\ t = m.ticker
                         THEN /\ v[t] = m.upd /\ h[s][sent[s]][t] <= m.upd
                              /\ m.type = "delta" => m.upd = h[s][sent[s]][t] + 1
                         ELSE v[t] = h[s][sent[s]][t]
  BY <1>5
<1> HIDE DEF v, m, s
<1>7. Numbered(s)  BY DEF s
<1>8. \/ UNCHANGED wire
      \/ \E x : /\ Sent(<<x>>) /\ x.sid = s /\ x.seq = sent[s] + 1
               /\ \A t \in Tickers :
                    IF IsBookUpdate(x) /\ t = x.ticker
                    THEN /\ v[t] = x.upd /\ h[s][sent[s]][t] <= x.upd
                         /\ x.type = "delta" => x.upd = h[s][sent[s]][t] + 1
                    ELSE v[t] = h[s][sent[s]][t]
  BY <1>5, <1>6
<1> QED  BY <1>1, <1>2, <1>3, <1>4, <1>7, <1>8, ServerTells

(* A message about the book of t, with n updates, sent or lost.            *)
LEMMA HistoryUpdated ==
  ASSUME FeedInv, FeedInv', Epoch, NEW h \in Histories, History(h),
         UNCHANGED <<served, books, sids, lastSeq>>, BookChannel \in DOMAIN served,
         Numbered(BookSid), NEW t \in Tickers, truth'[t] >= truth[t],
         \A u \in Tickers \ {t} : truth'[u] = truth[u],
         NEW type \in {"snapshot", "delta"},
         type = "delta" => t \in live /\ truth'[t] = truth[t] + 1,
         live' \subseteq live \cup {t},
         Sent(BookMessage(type, t, truth'[t])) \/ UNCHANGED wire
  PROVE  \E g \in Histories : History(g)'
<1> DEFINE s == BookSid
           old == h[s][sent[s]]
           v == [old EXCEPT ![t] = truth'[t]]
           m == [type |-> type, ticker |-> t, upd |-> truth'[t], sid |-> s,
                 seq |-> sent'[s]]
<1>1. s \in DOMAIN sent /\ s \in Nat /\ sent[s] \in Nat /\ BookSid' = s
  BY DEF BookSid, FeedInv, ServedNumbered, ServedTypes
<1>2. old \in [Tickers -> Nat]
  <2>1. h[s] \in [Nat -> [Tickers -> Nat]]  BY <1>1 DEF Histories
  <2> QED  BY <1>1, <2>1
<1>3. truth \in [Tickers -> Nat] /\ truth' \in [Tickers -> Nat]
  BY DEF FeedInv, ServedTypes
<1>4. /\ \A u \in Tickers : old[u] <= truth[u]
      /\ \A u \in live : old[u] = truth[u]
  <2>1. sent[s] \in 0..sent[s]  BY <1>1
  <2> QED  BY <1>1, <2>1 DEF History, ToldByServer
<1> HIDE DEF old
<1>5. v \in [Tickers -> Nat] /\ \A u \in Tickers : v[u] = IF u = t THEN truth'[t] ELSE old[u]
  BY <1>2, <1>3
<1> HIDE DEF v
<1>6. \A u \in Tickers : truth'[u] >= truth[u] /\ v[u] <= truth'[u]
  BY <1>2, <1>3, <1>4, <1>5
<1>7. \A u \in live' : u \in Tickers /\ v[u] = truth'[u]
  <2>1. live' \subseteq Tickers  BY DEF FeedInv, ServedTypes
  <2> QED  BY <1>4, <1>5, <2>1
<1>8. m.sid = s /\ m.seq = sent[s] + 1 /\ m.type = type /\ m.ticker = t /\ m.upd = truth'[t]
  BY <1>1 DEF Numbered
<1>9. \A u \in Tickers : IF IsBookUpdate(m) /\ u = m.ticker
                         THEN /\ v[u] = m.upd /\ old[u] <= m.upd
                              /\ m.type = "delta" => m.upd = old[u] + 1
                         ELSE v[u] = old[u]
  BY <1>2, <1>3, <1>4, <1>5, <1>8 DEF IsBookUpdate
<1>10. UNCHANGED wire \/ Sent(<<m>>)
  BY DEF BookMessage
<1> HIDE DEF m, s
<1>11. Numbered(s)  BY DEF s
<1>12. \/ UNCHANGED wire
      \/ \E x : /\ Sent(<<x>>) /\ x.sid = s /\ x.seq = sent[s] + 1
               /\ \A u \in Tickers :
                    IF IsBookUpdate(x) /\ u = x.ticker
                    THEN /\ v[u] = x.upd /\ h[s][sent[s]][u] <= x.upd
                         /\ x.type = "delta" => x.upd = h[s][sent[s]][u] + 1
                    ELSE v[u] = h[s][sent[s]][u]
  BY <1>8, <1>9, <1>10 DEF old
<1>13. \A u \in live' :
         \/ BookSid' = s /\ v[u] = truth'[u]
         \/ BookSid' # s /\ BookSid' = BookSid /\ u \in live /\ truth'[u] = truth[u]
  BY <1>1, <1>7
<1> QED
  BY <1>1, <1>5, <1>6, <1>11, <1>12, <1>13, ServerTells

LEMMA HistoryServer ==
  ASSUME FeedInv, FeedInv', Epoch, NEW h \in Histories, History(h), Server
  PROVE  \E g \in Histories : History(g)'
<1>1. UNCHANGED <<books, sids, lastSeq>>
  BY DEF Server, Refuse, ServeSubscribe, ServeAdd, ServeDelete, ServeUnsubscribe,
         SendSnapshot, MarketMoves, SendNote, Exchange
<1>2. ControllerToldLess
  BY <1>1, FewerBooks
<1>3. CASE Refuse
  <2>1. ServerToldLess
    BY <1>3 DEF Refuse, Exchange, ServerToldLess, BookSid, FeedInv, ServedTypes
  <2>2. Plain(Reply("error", Request, NoSid, NoSeq))  BY DEF Plain, Reply
  <2>3. WireFrom
    BY <1>3, <2>2, WireFromIf DEF Refuse
  <2> QED  BY <1>2, <2>1, <2>3, HistorySame
<1>4. CASE ServeAdd
  <2>1. /\ TakeRequest /\ IsServed(Request) /\ Numbered(Request.sid) /\ UNCHANGED truth
        /\ Sent(<<Reply("ok", Request, Request.sid, sent'[Request.sid])>>)
        /\ live' \subseteq live
        /\ served' = [served EXCEPT ![Request.channel].tickers = @ \cup Request.tickers]
    BY <1>4 DEF ServeAdd, Exchange
  <2>2. live' # {} => BookSid' = BookSid
    BY <2>1 DEF BookSid, FeedInv, ServedNumbered, ServedTypes
  <2> QED  BY <1>1, <2>1, <2>2, HistoryNumbered
<1>5. CASE ServeDelete
  <2>1. /\ TakeRequest /\ IsServed(Request) /\ Numbered(Request.sid) /\ UNCHANGED truth
        /\ Sent(<<Reply("ok", Request, Request.sid, sent'[Request.sid])>>)
        /\ live' \subseteq live
        /\ served' = [served EXCEPT ![Request.channel].tickers = @ \ Request.tickers]
    BY <1>5 DEF ServeDelete, Exchange
  <2>2. live' # {} => BookSid' = BookSid
    BY <2>1 DEF BookSid, FeedInv, ServedNumbered, ServedTypes
  <2> QED  BY <1>1, <2>1, <2>2, HistoryNumbered
<1>6. ASSUME NEW type \in {"unsubscribed", "ok"}, ServeUnsubscribe(type)
      PROVE  \E g \in Histories : History(g)'
  <2>1. /\ TakeRequest /\ IsServed(Request) /\ Numbered(Request.sid) /\ UNCHANGED truth
        /\ Sent(<<Reply(type, Request, Request.sid, sent'[Request.sid])>>)
        /\ live' = IF Request.channel = BookChannel THEN {} ELSE live
        /\ served' = Without(served, {Request.channel})
    BY <1>6 DEF ServeUnsubscribe, Exchange
  <2>2. IsPart(served', served, {Request.channel})  BY <2>1, WithoutIsPart
  <2>3. live' # {} => BookSid' = BookSid
    BY <2>1, <2>2 DEF IsPart, BookSid, FeedInv, ServedNumbered
  <2>4. live' \subseteq live  BY <2>1
  <2> QED  BY <1>1, <2>1, <2>3, <2>4, HistoryNumbered
<1>7. ASSUME NEW t \in Tickers, SendSnapshot(t)
      PROVE  \E g \in Histories : History(g)'
  <2>1. /\ BookChannel \in DOMAIN served /\ Numbered(BookSid) /\ live' = live \cup {t}
        /\ Sent(BookMessage("snapshot", t, truth[t])) \/ UNCHANGED wire
        /\ UNCHANGED <<truth, served>>
    BY <1>7 DEF SendSnapshot, Exchange
  <2>2. truth'[t] >= truth[t] /\ truth'[t] = truth[t]
    BY <2>1 DEF FeedInv, ServedTypes
  <2> QED  BY <1>1, <2>1, <2>2, HistoryUpdated
<1>8. ASSUME NEW t \in Tickers, MarketMoves(t)
      PROVE  \E g \in Histories : History(g)'
  <2>1. truth' = [truth EXCEPT ![t] = @ + 1] /\ UNCHANGED <<served, live>>
    BY <1>8 DEF MarketMoves, Exchange
  <2>2. /\ truth'[t] = truth[t] + 1 /\ truth'[t] >= truth[t]
        /\ \A u \in Tickers : truth'[u] >= truth[u]
        /\ \A u \in Tickers \ {t} : truth'[u] = truth[u]
    BY <2>1 DEF FeedInv, ServedTypes
  <2>3. CASE t \in live
    <3>1. Numbered(BookSid) /\ (Sent(BookMessage("delta", t, truth'[t])) \/ UNCHANGED wire)
      BY <1>8, <2>3 DEF MarketMoves
    <3>2. BookChannel \in DOMAIN served  BY <2>3 DEF FeedInv, ServedNumbered
    <3> QED  BY <1>1, <2>1, <2>2, <2>3, <3>1, <3>2, HistoryUpdated
  <2>4. CASE t \notin live
    <3>1. UNCHANGED <<sent, wire>>  BY <1>8, <2>4 DEF MarketMoves
    <3>2. live \subseteq Tickers  BY DEF FeedInv, ServedTypes
    <3>3. ServerToldLess
      BY <2>1, <2>2, <2>4, <3>1, <3>2 DEF ServerToldLess, BookSid
    <3>4. WireFrom  BY <3>1, WireFromIf
    <3> QED  BY <1>2, <3>3, <3>4, HistorySame
  <2> QED  BY <2>3, <2>4
<1>9. ASSUME NEW c \in Channels, SendNote(c)
      PROVE  \E g \in Histories : History(g)'
  <2> DEFINE m == [type |-> "note", id |-> 0, channel |-> c,
                   sid |-> served[c].sid, seq |-> NoSeq]
  <2>1. Sent(<<m>>) /\ UNCHANGED server  BY <1>9 DEF SendNote, Exchange
  <2>2. Plain(m)  BY DEF Plain
  <2> HIDE DEF m
  <2>3. WireFrom  BY <2>1, <2>2, WireFromIf
  <2>4. ServerToldLess  BY <2>1, ServerIdle
  <2> QED  BY <1>2, <2>3, <2>4, HistorySame
<1> QED
  BY <1>3, <1>4, <1>5, <1>6, <1>7, <1>8, <1>9, HistoryBegins DEF Server

LEMMA HistoryKeeps ==
  ASSUME FeedInv, FeedInv', Epoch, NEW h \in Histories, History(h), [Next]_vars
  PROVE  \E g \in Histories : History(g)'
<1>1. CASE /\ UNCHANGED <<sids, lastSeq>> /\ UNCHANGED server /\ UNCHANGED wire
           /\ UNCHANGED books \/ CommandRaises
  <2>1. ControllerToldLess  BY <1>1, RaisedBooks, FewerBooks
  <2> QED  BY <1>1, <2>1, ServerIdle, WireFromIf, HistorySame
<1>2. CASE Close
  <2>1. /\ DOMAIN Without(books, DOMAIN books) = {}
        /\ DOMAIN Without(lastSeq, DOMAIN lastSeq) = {}
    BY DEF Without, Restrict
  <2>2. /\ DOMAIN books' = {} /\ DOMAIN lastSeq' = {} /\ live' = {} /\ DOMAIN wire' = {}
        /\ UNCHANGED <<truth, sent>>
    BY <1>2, <2>1 DEF Close
  <2>3. ServerToldLess /\ ControllerToldLess /\ WireFrom
    BY <2>2 DEF ServerToldLess, ControllerToldLess, WireFrom, FeedInv, ServedTypes
  <2> QED  BY <2>3, HistorySame
<1>3. CASE Caller
  BY <1>1, <1>2, <1>3
     DEF Caller, Subscribe, Unsubscribe, UnsubscribeChannels, Call, RunForever
<1>4. CASE NextChannel
  <2>1. UNCHANGED <<sids, lastSeq, books, truth, served, live, sent, wire>>
    BY <1>4 DEF NextChannel
  <2>2. ControllerToldLess /\ WireFrom  BY <2>1, FewerBooks, WireFromIf
  <2>3. ServerToldLess
    BY <2>1 DEF ServerToldLess, BookSid, FeedInv, ServedTypes
  <2> QED  BY <2>2, <2>3, HistorySame
<1>5. CASE Controller
  BY <1>1, <1>4, <1>5, HistoryAnswered, HistoryHandles
     DEF Controller, LoadPriceRanges, CallReturns, CommandTimesOut
<1> QED
  BY <1>1, <1>3, <1>5, HistoryServer DEF Next, Tick, vars

LEMMA InitHistory == Init => \E h \in Histories : History(h)
<1> SUFFICES ASSUME Init PROVE \E h \in Histories : History(h)
  OBVIOUS
<1> DEFINE h == [s \in Nat |-> [q \in Nat |-> [t \in Tickers |-> 0]]]
<1>1. h \in Histories  BY DEF Histories
<1> HIDE DEF h
<1>2. History(h)
  BY DEF Init, History, ToldByServer, ToldOnWire, ToldToController
<1> QED  BY <1>1, <1>2

-----------------------------------------------------------------------------
(* What the controller reports and shows.                                  *)
Told == \E h \in Histories : History(h)

FollowInv == FeedInv /\ Epoch /\ Answers /\ Told

LEMMA FollowKeeps ==
  ASSUME FollowInv, [Next]_vars
  PROVE  FollowInv'
<1>1. FeedInv'
  BY CallerKeeps, ControllerKeeps, TickKeeps, ServerKeeps, StutterKeeps DEF Next, FollowInv
<1>2. Epoch' /\ Answers'
  BY <1>1, EpochKeeps, AnswersKeeps DEF FollowInv
<1>3. Told'
  <2>1. PICK h \in Histories : History(h)  BY DEF FollowInv, Told
  <2>2. \E g \in Histories : History(g)'  BY <1>1, <2>1, HistoryKeeps DEF FollowInv
  <2> QED  BY <2>2 DEF Told
<1> QED  BY <1>1, <1>2, <1>3 DEF FollowInv

(* In every reachable state each subscription, announcement, answer and    *)
(* number goes with the command and the updates it stands for.             *)
THEOREM FollowInvariance == Spec => []FollowInv
<1>1. Init => FollowInv
  BY InitFeed, InitEpoch, InitAnswers, InitHistory DEF FollowInv, Told
<1>2. FollowInv /\ [Next]_vars => FollowInv'
  BY FollowKeeps
<1> QED  BY <1>1, <1>2, PTL DEF Spec

(* No answer to an earlier command is taken for a subscription that is     *)
(* reported to have succeeded: the server serves it.                       *)
THEOREM SuccessesAreServed == Spec => []SuccessIsServed
<1>1. FollowInv => SuccessIsServed
  BY DEF FollowInv, Answers, AnsweredServed, Served, SuccessIsServed
<1> QED  BY FollowInvariance, <1>1, PTL

LEMMA BooksOfHistory ==
  ASSUME FeedInv, Epoch, NEW h \in Histories, History(h), NEW t \in DOMAIN books
  PROVE  LET s == sids[BookChannel]
         IN  /\ BookChannel \in DOMAIN sids /\ s \in DOMAIN lastSeq /\ s \in DOMAIN sent
             /\ s \in Nat /\ lastSeq[s] \in 1..sent[s] /\ lastSeq[s] \in Nat
             /\ t \in Tickers /\ h[s][lastSeq[s]][t] \in 0..truth[t]
             /\ books[t] = 1..h[s][lastSeq[s]][t]
<1> DEFINE s == sids[BookChannel]
<1>1. /\ BookChannel \in DOMAIN sids /\ t \in Tickers
      /\ s \in DOMAIN lastSeq /\ s \in DOMAIN sent /\ lastSeq[s] \in 1..sent[s]
      /\ books[t] = 1..h[s][lastSeq[s]][t]
  BY DEF FeedInv, NoGhostBook, BookTypes, History, ToldToController
<1>2. s \in Nat /\ sent[s] \in Nat /\ lastSeq[s] \in Nat /\ truth[t] \in Nat
  BY <1>1 DEF FeedInv, NumberTypes, ServedTypes
<1> HIDE DEF s
<1>3. h[s][lastSeq[s]][t] \in Nat
  <2>1. h[s] \in [Nat -> [Tickers -> Nat]]  BY <1>2 DEF Histories
  <2>2. h[s][lastSeq[s]] \in [Tickers -> Nat]  BY <1>2, <2>1
  <2> QED  BY <1>1, <2>2
<1>4. h[s][lastSeq[s]][t] <= truth[t]
  <2>1. lastSeq[s] \in 0..sent[s]  BY <1>1, <1>2
  <2> QED  BY <1>1, <2>1 DEF History, ToldByServer
<1> QED  BY <1>1, <1>2, <1>3, <1>4 DEF s

(* Every book shown is one the market had, and a controller that has every *)
(* number has every update, whatever was lost, late, refused or given up.  *)
THEOREM GenuineBooks == Spec => []BooksAreGenuine
<1>1. FollowInv => BooksAreGenuine
  <2> SUFFICES ASSUME FollowInv PROVE BooksAreGenuine
    OBVIOUS
  <2>1. PICK h \in Histories : History(h)  BY DEF FollowInv, Told
  <2>2. NoneMissing
    BY <2>1, BooksOfHistory DEF FollowInv, NoneMissing
  <2>3. ASSUME NEW t \in DOMAIN books \cap live, lastSeq[sids[BookChannel]] = sent[sids[BookChannel]]
        PROVE  books[t] = 1..truth[t]
    <3>1. /\ BookChannel \in DOMAIN sids
          /\ books[t] = 1..h[sids[BookChannel]][lastSeq[sids[BookChannel]]][t]
      BY <2>1, BooksOfHistory DEF FollowInv
    <3>2. BookChannel \in DOMAIN served
      BY DEF FollowInv, FeedInv, ServedNumbered
    <3>3. sids[BookChannel] = BookSid
      BY <3>1, <3>2 DEF FollowInv, Epoch, SidsOK, BookSid
    <3>4. h[BookSid][sent[BookSid]][t] = truth[t]
      BY <2>1 DEF History, ToldByServer
    <3> QED  BY <2>3, <3>1, <3>3, <3>4
  <2>4. NumbersCoverBooks
    BY <2>3 DEF NumbersCoverBooks
  <2> QED  BY <2>2, <2>4 DEF BooksAreGenuine
<1> QED  BY FollowInvariance, <1>1, PTL

-----------------------------------------------------------------------------
(* The feed is a mirror of the markets.                                    *)

(* t is shown anew, with n updates.                                        *)
Renewed(t, n) ==
  /\ DOMAIN books' = DOMAIN books \cup {t}
  /\ \A u \in DOMAIN books' : books'[u] = IF u = t THEN 1..n ELSE books[u]

BooksStep ==
  \/ UNCHANGED <<truth, books>>
  \/ UNCHANGED books /\ \E t \in Tickers : truth' = [truth EXCEPT ![t] = @ + 1]
  \/ UNCHANGED truth /\ \A t \in DOMAIN books' : t \in DOMAIN books /\ books'[t] = books[t]
  \/ /\ UNCHANGED truth
     /\ \E t \in Tickers : \E n \in 0..truth[t] :
          Renewed(t, n) /\ (t \in DOMAIN books => \E k \in 0..n : books[t] = 1..k)

(* A message that comes in order tells of the book that is shown, and more.*)
LEMMA Newer ==
  ASSUME FeedInv, Epoch, NEW h \in Histories, History(h), TakeMessage, ~ SequenceGap,
         IsBookUpdate(Message), Followed
  PROVE  /\ Message.ticker \in Tickers /\ Message.upd \in 0..truth[Message.ticker]
         /\ Message.ticker \in DOMAIN books =>
              \E k \in 0..Message.upd :
                /\ books[Message.ticker] = 1..k
                /\ Message.type = "delta" => Message.upd = k + 1
<1> DEFINE x == Message.ticker
           s == Message.sid
           q == Message.seq
<1>1. 1 \in DOMAIN wire /\ Message = wire[1]  BY WireTaken
<1>2. q # NoSeq /\ Tells(h, Message)
  BY <1>1 DEF IsBookUpdate, History, ToldOnWire
<1>3. x \in Tickers /\ Message.upd \in Nat
  BY MessageTaken DEF FeedInv, IsBookUpdate
<1>4. /\ s \in DOMAIN sent /\ q \in 1..sent[s]
      /\ h[s][q][x] = Message.upd /\ h[s][q - 1][x] <= Message.upd
      /\ Message.type = "delta" => Message.upd = h[s][q - 1][x] + 1
  BY <1>2, <1>3 DEF Tells
<1>5. s \in Nat /\ sent[s] \in Nat /\ q \in Nat
  BY <1>4 DEF FeedInv, ServedTypes
<1>6. Message.upd \in 0..truth[x]
  <2>1. q \in 0..sent[s] /\ truth[x] \in Nat
    BY <1>3, <1>4, <1>5 DEF FeedInv, ServedTypes
  <2>2. h[s][q][x] <= truth[x]
    BY <1>3, <1>4, <2>1 DEF History, ToldByServer
  <2> QED  BY <1>3, <1>4, <2>1, <2>2
<1>7. ASSUME x \in DOMAIN books
      PROVE  \E k \in 0..Message.upd :
               books[x] = 1..k /\ (Message.type = "delta" => Message.upd = k + 1)
  <2>1. /\ s = sids[BookChannel] /\ s \in DOMAIN lastSeq
        /\ books[x] = 1..h[s][lastSeq[s]][x] /\ h[s][lastSeq[s]][x] \in 0..truth[x]
        /\ lastSeq[s] \in Nat
    BY <1>7, BooksOfHistory DEF Followed
  <2>2. Known(s)  BY DEF Followed, Known, Range
  <2>3. q = lastSeq[s] + 1  BY <1>2, <2>1, <2>2 DEF SequenceGap
  <2>4. lastSeq[s] = q - 1  BY <2>1, <2>3
  <2>5. truth[x] \in Nat  BY <1>3 DEF FeedInv, ServedTypes
  <2>6. h[s][q - 1][x] \in 0..Message.upd
    BY <1>3, <1>4, <2>1, <2>4, <2>5
  <2> QED  BY <1>4, <2>1, <2>4, <2>6
<1> QED  BY <1>3, <1>6, <1>7

LEMMA BooksSteps ==
  ASSUME FollowInv, [Next]_vars
  PROVE  BooksStep
<1>1. PICK h \in Histories : History(h)  BY DEF FollowInv, Told
<1>2. FeedInv /\ Epoch  BY DEF FollowInv
<1>3. ASSUME UNCHANGED truth,
             \/ UNCHANGED books
             \/ CommandRaises
             \/ ReceiveRaises
             \/ \E c, S : books' = DropBooks(c, S)
      PROVE  BooksStep
  BY <1>3, RaisedBooks, DroppedBooks DEF BooksStep
<1>4. CASE HandleSnapshot
  <2>1. /\ TakeMessage /\ ~ SequenceGap /\ IsBookUpdate(Message) /\ UNCHANGED truth
    BY <1>4 DEF HandleSnapshot, Handle, IsBookUpdate, server
  <2>2. CASE Followed /\ Message.ticker \in ranges
    <3>1. books' = With(books, Message.ticker, 1..Message.upd)
      BY <1>4, <2>2 DEF HandleSnapshot
    <3>2. Renewed(Message.ticker, Message.upd)  BY <3>1 DEF Renewed, With
    <3> QED  BY <1>1, <1>2, <2>1, <2>2, <3>2, Newer DEF BooksStep
  <2>3. CASE ~ (Followed /\ Message.ticker \in ranges)
    BY <1>3, <1>4, <2>1, <2>3 DEF HandleSnapshot
  <2> QED  BY <2>2, <2>3
<1>5. CASE HandleDelta
  <2>1. /\ TakeMessage /\ ~ SequenceGap /\ IsBookUpdate(Message) /\ UNCHANGED truth
        /\ Message.type = "delta"
    BY <1>5 DEF HandleDelta, Handle, IsBookUpdate, server
  <2>2. CASE Followed /\ Message.ticker \in DOMAIN books
    <3>1. books' = [books EXCEPT ![Message.ticker] = @ \cup {Message.upd}]
      BY <1>5, <2>2 DEF HandleDelta
    <3>2. PICK k \in 0..Message.upd : books[Message.ticker] = 1..k /\ Message.upd = k + 1
      BY <1>1, <1>2, <2>1, <2>2, Newer
    <3>3. Message.upd \in Nat
      BY <1>2, <2>1, MessageTaken DEF FeedInv
    <3>4. books[Message.ticker] \cup {Message.upd} = 1..Message.upd
      BY <3>2, <3>3
    <3>5. Renewed(Message.ticker, Message.upd)
      BY <2>2, <3>1, <3>4 DEF Renewed
    <3> QED  BY <1>1, <1>2, <2>1, <2>2, <3>2, <3>5, Newer DEF BooksStep
  <2>3. CASE ~ (Followed /\ Message.ticker \in DOMAIN books)
    BY <1>3, <1>5, <2>1, <2>3 DEF HandleDelta
  <2> QED  BY <2>2, <2>3
<1>6. CASE HandleMessage
  BY <1>3, <1>4, <1>5, <1>6
     DEF HandleMessage, GapRaises, HandleSubscribed, HandleUnsubscribed, HandleOk,
         HandleError, HandleNote, Handle, ClearChannel, server
<1>7. CASE CommandAnswered
  <2>1. cmd.kind \in Kinds  BY <1>2 DEF FeedInv, CallTypes, Command
  <2> QED
    BY <1>3, <1>7, <2>1
       DEF CommandAnswered, CommandSucceeds, ClearChannel, Subscribing, Kinds, server
<1>8. CASE Close
  <2>1. DOMAIN Without(books, DOMAIN books) = {}  BY DEF Without, Restrict
  <2>2. DOMAIN books' = {} /\ UNCHANGED truth  BY <1>8, <2>1 DEF Close
  <2> QED  BY <2>2 DEF BooksStep
<1>9. CASE Caller
  BY <1>3, <1>8, <1>9
     DEF Caller, Subscribe, Unsubscribe, UnsubscribeChannels, Call, RunForever, server
<1>10. CASE Controller
  BY <1>3, <1>6, <1>7, <1>10
     DEF Controller, LoadPriceRanges, NextChannel, CallReturns, CommandTimesOut, server
<1>11. CASE Server
  <2>1. UNCHANGED books
    BY <1>11 DEF Server, Refuse, ServeSubscribe, ServeAdd, ServeDelete, ServeUnsubscribe,
                 SendSnapshot, MarketMoves, SendNote, Exchange
  <2>2. UNCHANGED truth \/ \E t \in Tickers : MarketMoves(t)
    BY <1>11 DEF Server, Refuse, ServeSubscribe, ServeAdd, ServeDelete, ServeUnsubscribe,
                 SendSnapshot, SendNote, Exchange, server
  <2> QED  BY <2>1, <2>2 DEF BooksStep, MarketMoves
<1> QED
  BY <1>3, <1>9, <1>10, <1>11 DEF Next, Tick, vars, server

LEMMA ShownIs ==
  ASSUME NEW t \in DOMAIN books, NEW n \in Nat, books[t] = 1..n
  PROVE  Shown[t] = n
<1>1. Cardinality(1..n) = n
  BY FS_Interval
<1> QED  BY <1>1 DEF Shown

(* Of every book that stays as it is the same is shown.                    *)
LEMMA ShownSame ==
  ASSUME NEW t \in DOMAIN books', t \in DOMAIN books, books'[t] = books[t]
  PROVE  Shown'[t] = Shown[t]
BY DEF Shown

LEMMA ShownDomains == DOMAIN Shown = DOMAIN books /\ DOMAIN Shown' = DOMAIN books'
BY DEF Shown

LEMMA StepIsAbstract ==
  ASSUME FollowInv, BooksStep, DOMAIN books \subseteq Tickers, truth \in [Tickers -> Nat],
         truth' \in [Tickers -> Nat]
  PROVE  [Abstract!Next]_<<truth, Shown>>
<1>1. CASE UNCHANGED <<truth, books>>
  BY <1>1 DEF Shown
<1>2. CASE UNCHANGED books /\ \E t \in Tickers : truth' = [truth EXCEPT ![t] = @ + 1]
  <2>1. UNCHANGED Shown  BY <1>2 DEF Shown
  <2> QED  BY <1>2, <2>1 DEF Abstract!Next, Abstract!Move
<1>3. CASE /\ UNCHANGED truth
           /\ \A t \in DOMAIN books' : t \in DOMAIN books /\ books'[t] = books[t]
  <2> DEFINE S == DOMAIN books \ DOMAIN books'
  <2>1. S \in SUBSET Tickers  OBVIOUS
  <2>2. Shown' = [u \in DOMAIN Shown \ S |-> Shown[u]]
    <3>1. DOMAIN Shown' = DOMAIN Shown \ S  BY <1>3, ShownDomains
    <3>2. \A u \in DOMAIN Shown' : Shown'[u] = Shown[u]
      BY <1>3, ShownSame, ShownDomains
    <3>3. Shown' = [u \in DOMAIN Shown' |-> Shown'[u]]  BY DEF Shown
    <3> QED  BY <3>1, <3>2, <3>3
  <2> HIDE DEF S
  <2>3. Abstract!Hide(S)  BY <1>3, <2>2 DEF Abstract!Hide
  <2> QED  BY <2>1, <2>3 DEF Abstract!Next
<1>4. ASSUME UNCHANGED truth, NEW t \in Tickers, NEW n \in 0..truth[t], Renewed(t, n),
             t \in DOMAIN books => \E k \in 0..n : books[t] = 1..k
      PROVE  Abstract!Next
  <2>1. n \in Nat /\ n <= truth[t]  BY <1>4
  <2>2. Shown'[t] = n
    <3>1. t \in DOMAIN books' /\ books'[t] = 1..n  BY <1>4 DEF Renewed
    <3>2. Cardinality(1..n) = n  BY <2>1, FS_Interval
    <3> QED  BY <3>1, <3>2 DEF Shown
  <2>3. t \in DOMAIN Shown => Shown[t] <= n
    <3>1. ASSUME t \in DOMAIN books  PROVE Shown[t] <= n
      <4>1. PICK k \in 0..n : books[t] = 1..k  BY <1>4, <3>1
      <4>2. k \in Nat /\ k <= n  BY <2>1, <4>1
      <4>3. Shown[t] = k  BY <3>1, <4>1, <4>2, ShownIs
      <4> QED  BY <4>2, <4>3
    <3> QED  BY <3>1, ShownDomains
  <2>4. Shown' = [u \in DOMAIN Shown \cup {t} |-> IF u = t THEN n ELSE Shown[u]]
    <3>1. DOMAIN Shown' = DOMAIN Shown \cup {t}  BY <1>4, ShownDomains DEF Renewed
    <3>2. \A u \in DOMAIN Shown' : u # t => Shown'[u] = Shown[u]
      <4>1. ASSUME NEW u \in DOMAIN books', u # t
            PROVE  u \in DOMAIN books /\ books'[u] = books[u]
        BY <1>4, <4>1 DEF Renewed
      <4> QED  BY <4>1, ShownSame, ShownDomains
    <3>3. Shown' = [u \in DOMAIN Shown' |-> Shown'[u]]  BY DEF Shown
    <3> QED  BY <2>2, <3>1, <3>2, <3>3
  <2>5. Abstract!Show(t, n)
    BY <1>4, <2>1, <2>3, <2>4 DEF Abstract!Show
  <2> QED  BY <2>5 DEF Abstract!Next
<1> QED  BY <1>1, <1>2, <1>3, <1>4 DEF BooksStep

(* The controller implements the mirror: what it shows of a market is a    *)
(* state the market had, never an earlier one than it showed before, until *)
(* the book is dropped.                                                    *)
THEOREM FeedMirrors == Spec => ImplementsMirror
<1>1. Init => Abstract!Init
  <2> SUFFICES ASSUME Init PROVE Abstract!Init
    OBVIOUS
  <2>1. DOMAIN books = {}  BY DEF Init
  <2>2. Shown = [t \in {} |-> 0]  BY <2>1 DEF Shown
  <2> QED  BY <2>2 DEF Init, Abstract!Init
<1>2. FollowInv /\ FollowInv' /\ [Next]_vars => [Abstract!Next]_<<truth, Shown>>
  <2> SUFFICES ASSUME FollowInv, FollowInv', [Next]_vars
               PROVE  [Abstract!Next]_<<truth, Shown>>
    OBVIOUS
  <2>1. BooksStep  BY BooksSteps
  <2>2. /\ DOMAIN books \subseteq Tickers /\ truth \in [Tickers -> Nat]
        /\ truth' \in [Tickers -> Nat]
    BY DEF FollowInv, FeedInv, BookTypes, ServedTypes
  <2> QED  BY <2>1, <2>2, StepIsAbstract
<1> QED
  BY FollowInvariance, <1>1, <1>2, PTL DEF Spec, ImplementsMirror, Abstract!Spec
=============================================================================
