---------------------------- MODULE ExchangeFeed ----------------------------
(***************************************************************************)
(* What the four exchanges send and how the adapters normalise it          *)
(* (market_data/exchanges: ws.py and rest.py of each).  The exchanges are  *)
(* outside the repository: a history truth assigns the full book to every  *)
(* update id, and the adapters turn the message that covers the ids in     *)
(* (a, b] into an event.                                                   *)
(***************************************************************************)
EXTENDS L2Book

CONSTANTS
    Feed,        \* "binance", "okx", "deribit" or "bybit"
    SnapDepth,   \* levels per side of a REST answer
    StreamDepth  \* levels per side of Bybit's stream: orderbook.50

ASSUME FeedAssumption == Feed \in {"binance", "okx", "deribit", "bybit"}
ASSUME DepthsAssumption == SnapDepth \in Nat /\ StreamDepth \in Nat

\* Binance has no full-book message on the stream; the others open every
\* subscription with one.
SendsFullBook == Feed # "binance"

\* The part of a book that a stream keeps its subscribers up to date with.  At
\* Bybit it is shallower than what a REST answer may list.
Shown(lv) == IF Feed = "bybit" THEN Top(lv, StreamDepth) ELSE lv

\* The levels that were touched in (a, b], with their quantity at b.
Delta(truth, a, b) ==
    [s \in Slots |-> IF \E i \in a..b : Shown(truth[i])[s] # Shown(truth[a])[s]
                     THEN Shown(truth[b])[s] ELSE None]

\* The levels of a book as a list, absent ones left out.
Listed(lv) == [s \in Slots |-> IF lv[s] = 0 THEN None ELSE lv[s]]

\* What stands for the previous id where a message names none: the first update
\* of a subscription may do so at OKX and Deribit.
Unnamed == CASE Feed = "okx" -> {-1} [] Feed = "deribit" -> {None} [] OTHER -> {}

----------------------------------------------------------------------------
(* parse_depth of the four adapters, for a message over (a, b] with levels  *)
(* d that names prev as the previous id; full marks the full book that      *)
(* opens a subscription.                                                    *)

\* Mutant: the previous event's id is not passed on.
BinanceDepthNoPrev(a, b, prev, d) ==
    [first |-> a + 1, last |-> b, prev |-> None, since |-> a, d |-> d]

\* Binance names both ends of the range and the previous id.
BinanceDepth(a, b, prev, d) ==
    [first |-> a + 1, last |-> b, prev |-> prev, since |-> a, d |-> d]

\* A message with one id; since is a for an update, None for a full book.
SingleId(full, a, b, prev, d) ==
    [first |-> b, last |-> b, prev |-> prev, since |-> IF full THEN None ELSE a, d |-> d]

\* Bybit names the last id only: the adapter supplies the last one it has seen.
BybitDepth(full, a, b, d, lastSeq) ==
    SingleId(full, a, b, IF full THEN None ELSE lastSeq, d)

\* OKX and Deribit name the last id and the previous message's, or none.  All
\* three leave prev unset for a full book and pass its levels on like a diff's.
OkxDepth(full, a, b, prev, d) ==
    SingleId(full, a, b, IF full \/ prev = -1 THEN None ELSE prev, d)
DeribitDepth(full, a, b, prev, d) ==
    SingleId(full, a, b, IF full THEN None ELSE prev, d)

ParseDepth(full, a, b, prev, d, lastSeq) ==
    CASE Feed = "binance" -> BinanceDepth(a, b, prev, d)
      [] Feed = "bybit"   -> BybitDepth(full, a, b, d, lastSeq)
      [] Feed = "okx"     -> OkxDepth(full, a, b, prev, d)
      [] Feed = "deribit" -> DeribitDepth(full, a, b, prev, d)

\* fetch_snapshot answered at id k.  Bybit's adapter reads the answer's u where
\* its stream reads seq; the two are taken to be one counter.
FetchSnapshot(truth, k) == [id |-> k, d |-> Listed(Top(truth[k], SnapDepth))]
=============================================================================
