----------------------------- MODULE QuoteFeed -----------------------------
(* WsFixedTokenQuoteFeed over MarketWsClient, without parse workers (nobody    *)
(* but btc_poly_runner asks for them): feeds that follow one token each of the *)
(* current market, as seen by their socket threads, the thread that switches   *)
(* them from token to token, and the server.  The token of bucket b is b.      *)
EXTENDS Naturals

CONSTANTS
  Feed,       \* the feeds
  LastBucket, \* bound: buckets
  Price,      \* a best bid with its best ask
  MaxEvents   \* bound: messages with a price and connections lost

Bucket == 0..LastBucket
None == [none |-> TRUE]
Quotes == [token : Bucket, epoch : Bucket, price : Price]

VARIABLES
  linked,    \* the connection is up
  subs,      \* the server's subscriptions of this connection
  snapshot,  \* snapshot_ids
  token,     \* token_id_
  label,     \* quote_market_bucket_epoch_ and the slug
  last,      \* last_emitted_bid_ and ask_, None without have_last_emitted_quote_
  at,        \* where the socket thread is
  ids,       \* the ids it is about to send
  quote,     \* q of emit_quote
  joined,    \* stop() has joined the socket thread
  events,    \* so far
  heard      \* history: the last price read for its token

feed == <<linked, subs, snapshot, token, label, last, at, ids, quote, joined, events, heard>>

FeedInit ==  \* started with token 0, labelled 0 before that, and connected
  /\ linked = [f \in Feed |-> TRUE] /\ subs = [f \in Feed |-> {0}]
  /\ snapshot = [f \in Feed |-> 0] /\ token = [f \in Feed |-> 0]
  /\ label = [f \in Feed |-> 0] /\ last = [f \in Feed |-> None]
  /\ at = [f \in Feed |-> "reading"] /\ joined = [f \in Feed |-> FALSE]
  /\ ids = [f \in Feed |-> {}] /\ quote = [f \in Feed |-> None]
  /\ events = 0
  /\ heard = [f \in Feed |-> None]

Goes(f, place) == at' = [at EXCEPT ![f] = place]
Forgets(f) == last' = [last EXCEPT ![f] = None]

----------------------------------------------------------------------------
(* The connection.  A lost one takes its subscriptions with it.                *)
Drop(f) ==
  /\ linked[f] /\ events < MaxEvents
  /\ linked' = [linked EXCEPT ![f] = FALSE] /\ subs' = [subs EXCEPT ![f] = {}]
  /\ events' = events + 1
  /\ UNCHANGED <<snapshot, token, label, last, at, ids, quote, joined, heard>>

(* What is sent while the connection is down is lost.                          *)
Sends(f, asked) == IF linked[f] THEN asked ELSE subs[f]

(* The socket opens (again): send_snapshot_subscribe_if_any copies the snapshot *)
(* under its lock and sends the copy later; on_ws_open forgets the last quote. *)
Open(f) ==
  /\ at[f] = "reading" /\ ~linked[f] /\ ~joined[f]
  /\ linked' = [linked EXCEPT ![f] = TRUE]
  /\ Goes(f, "subscribing")
  /\ ids' = [ids EXCEPT ![f] = {snapshot[f]}]
  /\ UNCHANGED <<subs, snapshot, token, label, last, quote, joined, events, heard>>
SendSnapshot(f) ==
  /\ at[f] = "subscribing" /\ Goes(f, "reading")
  /\ subs' = [subs EXCEPT ![f] = Sends(f, @ \union ids[f])]
  /\ ids' = [ids EXCEPT ![f] = {}]
  /\ Forgets(f)
  /\ UNCHANGED <<linked, snapshot, token, label, quote, joined, events, heard>>

----------------------------------------------------------------------------
(* A message of the server with a quote of an asset it was asked for, up to    *)
(* the first section of emit_quote: of this token, and not the last one again. *)
Fresh(f, t, p) == t = token[f] /\ last[f] # [price |-> p]
Receive(f, t, p) ==
  /\ at[f] = "reading" /\ linked[f] /\ events < MaxEvents
  /\ t \in subs[f]
  /\ IF Fresh(f, t, p)
     THEN /\ quote' = [quote EXCEPT ![f] = [token |-> t, epoch |-> label[f], price |-> p]]
          /\ Goes(f, "calling")
     ELSE UNCHANGED <<quote, at>>
  /\ heard' = [heard EXCEPT ![f] = IF t = token[f] THEN [token |-> t, price |-> p] ELSE @]
  /\ events' = events + 1
  /\ UNCHANGED <<linked, subs, snapshot, token, label, last, ids, joined>>

(* on_quote_ runs between the two; then the quote is the last one, if the      *)
(* token is still its own.                                                     *)
Remember(f) ==
  /\ at[f] = "called" /\ Goes(f, "reading")
  /\ last' = [last EXCEPT ![f] =
       IF quote[f].token = token[f] THEN [price |-> quote[f].price] ELSE @]
  /\ quote' = [quote EXCEPT ![f] = None]
  /\ UNCHANGED <<linked, subs, snapshot, token, label, ids, joined, events, heard>>

Socket(f) == Open(f) \/ SendSnapshot(f) \/ Remember(f)

----------------------------------------------------------------------------
(* The caller: switch_token(b) in its four steps, set_market_context, stop.    *)
Unsubscribe(f) ==
  /\ subs' = [subs EXCEPT ![f] = Sends(f, @ \ {token[f]})]
  /\ UNCHANGED <<linked, snapshot, token, label, last, at, ids, quote, joined, events, heard>>
SetTokenOnly(f, b) ==
  /\ token' = [token EXCEPT ![f] = b]
  /\ UNCHANGED <<linked, subs, snapshot, label, last, at, ids, quote, joined, events, heard>>
SetToken(f, b) ==
  /\ token' = [token EXCEPT ![f] = b] /\ Forgets(f)
  /\ UNCHANGED <<linked, subs, snapshot, label, at, ids, quote, joined, events, heard>>
SetSnapshot(f, b) ==
  /\ snapshot' = [snapshot EXCEPT ![f] = b]
  /\ UNCHANGED <<linked, subs, token, label, last, at, ids, quote, joined, events, heard>>
Subscribe(f, b) ==
  /\ subs' = [subs EXCEPT ![f] = Sends(f, @ \union {b})]
  /\ UNCHANGED <<linked, snapshot, token, label, last, at, ids, quote, joined, events, heard>>
KeepMarketContext(f, b) == UNCHANGED feed
SetMarketContext(f, b) ==
  /\ label' = [label EXCEPT ![f] = b]
  /\ UNCHANGED <<linked, subs, snapshot, token, last, at, ids, quote, joined, events, heard>>

(* ws.stop waits for the callback under way and joins the socket thread; the   *)
(* token is cleared then too, and nobody reads it again.                       *)
StopFeed(f) ==
  /\ at[f] = "reading"
  /\ joined' = [joined EXCEPT ![f] = TRUE]
  /\ linked' = [linked EXCEPT ![f] = FALSE] /\ subs' = [subs EXCEPT ![f] = {}]
  /\ Forgets(f)
  /\ UNCHANGED <<snapshot, token, label, at, ids, quote, events, heard>>
=============================================================================
