# A formal model of the Options Hedger

TLA+ models, TLC checks and TLAPS proofs for the box-spread detector of this
repository, its start, its FIX session and its order sender (`cmd/`, `internal/`).
Paths and line numbers below are relative to `src/`.

## 1. The system

`cmd/hedger/main.go` picks a universe of at most 40 BTC options, hands the list to
three packages that each index it by position, starts the strategy, and opens a
FIX session. From then on three goroutines work without locks:

```
 venue --FIX--> FromApp (goroutine of the session)
                  | parse, merge one side of the entry, store it field by field
                  v
            SharedBook.Books, IndexPrice ----------------+-----------------+
                  |                                      | loads           | loads
                  | Update, non-blocking, cap 2048       v                 v
                  +----------------------------> BoxSpreadHFT.Run --> alert consumer --> Telegram
                                                        signals, non-blocking, cap 128
```

Before that, `main` authenticates and builds the universe over REST, looks for a
notifier and chooses the strategy; after it, it waits for a signal to end.

Two parts are dormant. The order sender (`fix/sender.go`) has no caller. The hedge
HTTP API (`servers/hedge_http.go`) has handlers, one goroutine per request, that
de-duplicate by sequence number and call an engine; `main.go` does not start it and
nothing implements its engine interface. Both are modelled from the code they have.

### Inventory

| part | state | operations | what makes it correct | what is hard |
| --- | --- | --- | --- | --- |
| symbol table (`InitializeHFT`, `SetOptionSymbols`, `InitOrderBooks`) | names, expiry numbers, strike, type per index | cut at `MaxOptions`, parse, number expiries, pair table | the three tables agree on what an index means | names that do not parse leave a zero option in the table |
| shared book and channel (`internal/data`) | `Books`, `IndexPrice`, `updatesCh` | `WriteDepthFast`, `ReadDepthFast`, `ApplyUpdateFast`, `SetIndexPrice` | an entry at rest shows the venue's last quote; a wake-up follows its quote | each field is atomic, an entry is not; the channel drops when full |
| FIX parser (`fastParseHFT`, `parseIndexPriceFast`) | none | message to best bid, best ask, delete flags, index | what is kept is what the venue means | bounded tables (32 entries, 16 levels, 8 increments), deletes, groups that a template does not fit |
| FIX callback (`FromApp`) | the message being applied | index from tag 810 or from the message, then up to two `ApplyUpdateFast` | bid and ask of one message both land | two separate writes and two wake-ups for one message |
| box strategy (`strategy/box_spread_hft.go`) | `lastCheck`, `recentSignals`, `signals` | `Run`, `processUpdateHFT`, `checkBoxFast`, `ResetSignalMask` | signals name real boxes, are worth the floor, are sent once and never lost | torn snapshot of 16 loads, dedup mask with 64 bits set before the quotes are read, debounce |
| alert consumer (`StartEngine`) | the alert being sent | take a signal, re-read quotes, log, `Send` with a 2 s deadline | every signal reaches the operator, and says the right trade | slow `Send`, text that ignores the side |
| hedge API (`servers/hedge_http.go`) | `lastSeq`, `lastMMSeq` | the two handlers | one request per number, newest target wins, no wake-up lost | compare-and-swap loops, calls to the engine after the swap |
| universe (`app/universe.go`) | the list being built | price, instruments, near and far expiry, ±20 % filter, caps, merge | the nearest options, each once, calls with their puts | requests that fail or are refused, ties in an unstable sort, one expiry that is both near and far |
| session (`OnLogon`, `ToAdmin`, `InitFIXEngine`, `StopFIXEngine`) | the initiator; quickfix's session | start, subscribe at each logon, reset sequence numbers, stop | the book is the venue's again after a reconnect | messages lost with the connection, sides that emptied meanwhile, a subscription that is refused |
| order sender (`fix/sender.go`) | `seq`; `errs` and a wait group for each call | `SendOrder`, `SendBatch`, `newClOrdID` | unique order ids, an answer for each leg, every call returns | a goroutine for each leg, restarts, some legs failing |
| start and end (`main`, `ChooseStrategy`, `NewTelegramFromEnv`, `FetchJWTToken`) | the environment, what has been started | ten steps, then a signal | nothing runs before what it uses; the process starts and ends | each step may fail, wait or be interrupted; some failures are fatal, some ignored |
| `main_notify`, config, `model`, `quote_store`, `greeks`, `index_stub`, `helpers` | none or unused | not reached from `main.go` | – | – |

The hazards behind these rows are listed one by one, with their lines, in
`PROJECT.json`.

## 2. The modules

Each line's right-hand side is what the definitions are translated from; the
`map` of `PROJECT.json` gives the lines of every definition.

| module | what it models | code |
| --- | --- | --- |
| `SymbolTable` | the option table of all three packages | `InitializeHFT`, `SetOptionSymbols` |
| `SharedBook` | book, index, clock, update channel | `data/shared.go`, `ApplyUpdateFast` |
| `FixParse` | the parser on message entries, and what the venue means by them | `fastParseHFT`, `parseIndexPriceFast` |
| `FixFeed` | the callback, one store at a time | `FromApp`, `ApplyUpdateFast`, `WriteDepthFast` |
| `BoxMath` | pairs, legs, dedup hash, gates, profit floor | the pure part of `checkBoxFast` and its helpers |
| `BoxEngine` | the engine's goroutine, one load or send at a time | `Run`, `processUpdateHFT`, `checkBoxFast`, `ResetSignalMask` |
| `SignalConsumer` | the alert goroutine | `StartEngine` |
| `Hedger` | composition of the three goroutines and the clock; its properties | `main.go`, `StartEngine` |
| `SignalLedger` | abstract: what the detector promises about signals | implemented by `Hedger` |
| `AtomicFeed` | abstract: a callback that applies each message at once | implemented by `Hedger` |
| `BookReplay` | one option's messages in sequence, venue's book next to ours | `FromApp`, `fastParseHFT` |
| `HedgeServer` | the handlers of the hedge API | `ServeHedgeHTTP` |
| `SeqGate` | abstract: requests decided one at a time | implemented by `HedgeServer` |
| `FixSession` | the session's life: logon, subscription, lost connections, with the venue at the other end | `InitFIXEngine`, `OnLogon`, `ToAdmin`, `FromApp`, `StopFIXEngine` |
| `Universe` | the choice of options | `BuildUniverse` and its helpers |
| `Lifecycle` | `main` from the environment to exit, composed with `FixSession` | `main`, `FetchJWTToken`, `NewTelegramFromEnv`, `ChooseStrategy` |
| `OrderSender` | the goroutines that send orders | `SendOrder`, `SendBatch`, `newClOrdID` |
| `MC*` | instances for TLC | – |
| `*Proofs` | theorems | – |

How state and actions correspond:

* **`FixFeed`.** `FromApp` parses the message and shares the index; `job.todo` holds
  the one or two calls of `ApplyUpdateFast` still to be made. Each is `BeginApply`
  (read the entry, replace a side, take the time), five `StoreField` steps in the
  order of `WriteDepthFast`, and `Publish` (index again, non-blocking send). The
  five loads at the beginning are one step because this goroutine is the only
  writer. `quoted` is a history variable: the book the venue means.
* **`BoxEngine`.** `pc = "wait"` is the receive in `Run`; `SkipUpdate` is the
  debounce. `scan` is the loop variable of `processUpdateHFT`; `PassOver` is every
  way out of `checkBoxFast` before the mask is set, `MarkPair` sets the bit and
  looks for the legs; `LoadField` is one of the 16 loads; `DecideLong` and
  `DecideShort` are the two blocks that may send. `Advance` also clears the
  locals, so that two states that differ only in dead locals are one state.
* **Test and set of the mask** are two instructions in the code and one step here.
  Only `ResetSignalMask` can come between them, after a test that found the bit
  clear; a reset just before the test gives the same test and the same mask, so
  the step loses no behaviour.
* **`FixFeed`'s messages.** Of a message that is neither snapshot nor increment
  `FromApp` reads tag 810 only; such messages have a type of their own.
* **`HedgeServer`.** Both endpoints have the same loop. `LoadSeq` is the load and both comparisons that follow it,
  `SwapSeq` the compare-and-swap, `SetTarget`/`Wake`/`UpdateMainMarketPNL` the calls.
* **`FixSession`.** `wire` holds the messages under way in order; `request` follows
  the market data request of the current logon: refused by `SendToTarget`, or
  queued, sent, answered. The steps between the handlers stand for the vendored
  quickfix: the initiator's loop over connections, the session's over its events,
  and what of its queue is lost with a connection. `FromApp` here takes a message in one step, by the parser
  of `FixParse` that `FixFeed` uses too. `sure` is a history variable: the sides of
  which the venue has told a level since its answer, or of which nothing was kept.
* **`Universe`.** One action for each function of `BuildUniverse`, one for each round of
  the loop that merges the two lists, and one for each
  round of the loop over the sorted options, because `sort.Slice` may put options at
  the same distance in any order. It does so deterministically: when near and far
  are one expiry the second list equals the first, and the model does not choose again.
* **`OrderSender`.** Each goroutine of a batch goes through `DrawSeq`, `Stamp`,
  `Send`, `Done`; `Return` is the wait group letting the caller pass. `Restart` kills
  the process between any two steps. `ids`, `life`, `born` and `out` are history
  variables. The constant `Added` is what the sender adds to the header of an order:
  nothing in the code, so that `quickfix.Send` finds no session (`Queueable`). With
  the two names of a session added, each order is queued or refused on its own.
* **`Lifecycle`.** `at` is the step of `main`; `ready` the steps done. A step may end
  as its function may: fatally, with an error that is ignored, or by waiting. The
  step `fix` is `InitFIXEngine` of `FixSession`, whose steps then interleave with
  `main`'s; the deferred `StopFIXEngine` ends both, and so does a signal that comes
  before `main` asks for it. `Exit` takes the logout and the wait for the session's
  goroutine as one step.

Abstractions. Floating point becomes an exact grid: prices and fee rates in ticks
of 1/10000 BTC, quantities in lots of 1/10 BTC, USD in whole dollars, so that
rounding is not modelled. A symbol is what is parsed out of it. A message is a
sequence of entries and the set of group templates that quickfix can read it with
(it gives up on a group with a foreign tag before the last entry). The alert is
the set of legs to buy and the set to sell. The amounts of a hedge target travel
with its side. The clock counts debounce windows of 10 µs.

Definitions marked *Fault* in the modules are plausible bugs, used by no
specification: each stands next to the definition it would replace, and
`PROJECT.json` pairs it with the property that notices.

## 3. What the runs check

Run one with `tlc -config <cfg> <module>`. `CHECK_DEADLOCK` is off wherever the
venue, the clock or the main market may simply stop: their inputs are finite in a
model and owed by nobody in reality.

### Runs that pass

**`race`** (`MCHedger`, `Race.cfg`). All interleavings of callback, engine, consumer
and clock on six options: one box, 64000/65000, and two options of another expiry
without counterparts, as the universe's caps can leave them. The venue quotes three
legs and then chooses between messages that make the low call cheap or fair, then
rich or one-sided, or move the index. The update channel has two places and
overflows; the index is lost to a tag 810 of 0 and set again.
* `TypeOK`: the type invariant.
* `QuietBookExact`: an entry the callback is done with shows exactly what the
  venue's messages add up to, while readers run and wake-ups are dropped.
* `WakeAfterWrite`: a wake-up is sent only when its quote is completely stored, with
  a time not before that of the quote and the index that is shared.
* `WakeupsInOrder`: last processed time, waiting wake-ups and the clock are in order,
  so the debounce never sees time run backwards.
* `SignalsWellFormed`: a signal names call and put of the low and of the high strike,
  all parsed and of one expiry, though the legs are looked up after the pair was
  admitted to the mask.
* `BothSidesOnlyIfCrossed`: one snapshot gives a long and a short signal only if it
  shows a crossed leg. It happens here, though the venue never sends a crossed quote:
  the engine reads torn.

**`ledger`** (`MCHedger`, `Ledger.cfg`). A mask of one bit, one reset, a signal
channel of four: exactly the room the argument needs.
* `SignalBudget`: signals sent, and those the running evaluation may still send, are
  at most two for each bit of the mask, plus two for each bit and each reset.
* `NoSignalDropped`: the select-default around the sends never drops.
* `ImplementsLedger`: the process implements `SignalLedger`: a key is judged once per
  epoch, gets at most one signal per side, long before short, and the operator gets
  all of them in order.
* `ImplementsAtomicFeed`: the callback of five stores and a wake-up for each side implements
  one that applies a message to both sides at once. It is why `BookReplay` and
  `FixSession` may take a message in one step.
* `SignalsReachOperator`, `EngineDrains`: liveness, see section 4.

**`replay`** (`MCBookReplay`, `Replay.cfg`). Every snapshot and increment of up to
four entries, against a parser that looks at 3 entries, 2 levels, 2 increments.
* `SyncedSidesExact`: a side that was in a snapshot whose best level is among those
  looked at, and of which each later increment had at most one entry, is kept as the
  venue means it. The conditions are the boundary of what the parser gets right. They are
  stated by what the venue sends and the limits, not by what the parser does: a
  level at a limit counts. An increment that deletes a level and gives its
  replacement is outside.
* `KeptWasNamed`: on any messages, ordinary or not, what is kept is a price with the
  quantity the venue named with it, in an entry that did not delete it. The quotes of
  `torn_snapshot` are therefore torn by the readers, not by the parser.

**`hedge_api`** (`MCHedgeServer`, `Hedge.cfg`). Six requests: an older and a newer
target, the newer one repeated, a close without a number, a PnL update, an
unreadable one; all interleavings of the handlers.
* `OncePerNumber`: of one endpoint's requests with one number, one gets through.
* `TargetsAreSeen`: once all is quiet, a target that calls for a wake-up was seen by
  an engine that was woken.
* `ImplementsGate`: the compare-and-swap loop decides as `SeqGate` does, at once.
* `EveryRequestAnswered`: liveness, see section 4.

**`universe`** (`MCUniverse`, `Universe.cfg`). Chains of up to five strikes about two
prices with ties in distance, in one or two expiries, with options missing or
complete, some of them amid instruments that are inactive, expired, too late, too
far, or badly named.
* `DistinctSymbols`: no name twice and never more than the tables hold, also when
  near and far are one expiry.
* `NearestOfEachKind`: no option is passed over for a farther one of its expiry and
  kind, and none at all while the kind has room.
* `OnlyEdgeUnpaired`: on a complete board each kind and expiry has at most one option
  without its counterpart, at the edge and only in a tie. (It is why `race` has
  unmatched options.)

**`send`** (`MCOrderSender`, `Send.cfg`). Two callers, a batch of two or a single
order, two processes, two days of two milliseconds. The headers name a session here,
which those of the code do not: a batch whose orders are all refused is then one of
the outcomes, next to those of which some go out.
* `IdsUniqueWithinDay`: an order gets an identifier that none had before that day.
* `AnswersComplete`: when `SendBatch` returns none of its goroutines is left, and
  a leg has an error exactly if its order did not go out.
* `CallsReturn`: liveness, see section 4.

**`lifecycle`** (`MCLifecycle`, `Lifecycle.cfg`). `main` with its session: three
environments, each value usable or not, every failure of the start, a signal at any
time; one option whose sides come and go at the venue, two lost connections, a
request that may be refused.
* `CaughtUpExact`: when the subscription is answered and nothing is under way, the
  book shows the venue's level on each side that is sure, whatever was lost before.
* `CallbacksFindTables`: when the session may call back, symbols, books and strategy
  are there.
* `CatchesUp`, `SignalEndsIt`, `StartEnds`: liveness, see section 4.

### Runs that are violated: where the code and its texts disagree

* **`torn_snapshot`** (`SnapshotWasQuoted`). "Top-of-book snapshot"
  (`internal/strategy/box_spread_hft.go:318`), "Shared memory with atomic
  writes/reads of order book and index price" (`README.md:19`, also `:67`). Fields
  are atomic, entries are not: the engine pairs the new price of a leg with its old
  quantity, which the venue never quoted.
* **`dedup_hides`** (`DedupSuppressesRepeatsOnly`). "It emits signals when worst-case
  profit floor exceeds minProfitUSD" (`box_spread_hft.go:255`); the mask is set at
  `:277`, before a leg is looked for or a quote read, and the reset that `:471` says
  to call periodically is never called. A pair judged worthless once, for instance
  before its legs were quoted, is never looked at again.
* **`alert_side`** (`AlertMatchesSide`). Side -1 is a short box
  (`box_spread_hft.go:36`, `:350`), the alert always tells the long one's trade
  (`internal/app/strategy_factory.go:107-110`).
* **`stale_target`** (`NewestTargetStays`). Stale requests are said to be ignored
  (`README.md:201`). The numbers are ordered by compare-and-swap
  (`internal/servers/hedge_http.go:83-93`), the calls of `SetTarget` that follow are
  not: an older target can overwrite a newer one and be answered ok.
* **`unsent_orders`** (`SomeOrderSent`), with the headers of the code. `SendOrder`
  "sends a NewOrderSingle" (`internal/fix/sender.go:23`), `SendBatch` "sends multiple
  IOC orders ... nil if success" (`:77-78`). `quickfix.Send` finds the session by
  three header fields; the orders carry the first only, and each is answered with
  an error.

Other disagreements have no run, because nothing that is checked depends on them or
because the code's side of them is one line:

* `SendBatch` "sends multiple IOC orders" (`sender.go:77`, also `:59`); an unset time in
  force becomes good till cancel (`:93-98`), and is logged as IOC (`:117`).
* "Consumes real-time order book data" (`README.md:22`). A side that empties while the
  connection is down keeps its old quote: the new snapshot has no entry for it
  (`client.go:179-184`), and nothing clears the book. This is why `CaughtUpExact` is
  about sides that are `sure`.
* A comment speaks of a window of freshness that matches the strategy's
  (`internal/data/orderbook.go:59`); the strategy has none.
* "Falls back to 65000 if fetch or decode fails" (`internal/app/universe.go:69`). An error
  reply is JSON too and decodes to 0, which `FetchBTCPrice` has as an outcome.
* "Returns the access token string, or terminates with log.Fatal on failure"
  (`internal/auth/token.go:13`). A refusal gives ""; `main` drops the token anyway.
* `README.md:115-117` names `TELEGRAM_TOKEN`; `telegram.go:29` reads `TELEGRAM_BOT_TOKEN`.
* "The binary will: ... Start the strategy engine and HTTP endpoints"
  (`README.md:142-145`); `main` starts no server.
* `cmd/hedger/main.go:76` says that OnLogon does not subscribe to market data; it does,
  and the rest depends on it.
* The percentage fee is said to take precedence over the fixed one
  (`box_spread_hft.go:65`); the code adds both (`:406-409`), but the fixed one is 0 in
  every configuration.
* The floor is said to be the worst case (`:34`); with the band enabled it need not be,
  see `FloorIsWorstCase`, but it is enabled nowhere.

### Bounds

| bound | where | why it is enough |
| --- | --- | --- |
| one box of 4 options, or 6 options with a ragged expiry | `Ledger`; `Race` | every pair with the updated option is walked; a second box would only share the mask, which `ledger` forces with one bit |
| 5 or 6 messages (`Feed`) | `MCHedger` | three to give the box its legs, two to change a quote while it is being read; each message can be met at every point of the engine's 16 loads |
| `MaxClock` 2 (1 in `Ledger`) | | wake-ups inside and outside one debounce window, and a second evaluation; in `Ledger` the first wake-up is processed, at any time until all messages are in, and the rest fall to the debounce; the loop over the table meets the pair of strikes twice, so that the key is judged again after the reset |
| `UpdateCap` 2 in `Race` | | makes the channel overflow; elsewhere the code's 2048 never fills |
| `DedupBits` 1, `SignalCap` 4, `MaxResets` 1 in `Ledger` | | room for two signals per bit and epoch and not one more; the theorems cover 64, 128 and no reset |
| `MaxEntriesW/MaxLevels/MaxEntriesX` 3/2/2, `MaxLen` 4 in `Replay` | | messages exceed each limit; the theorem covers 32/16/8 and all lengths |
| 6 requests in `Hedge` | | two rival numbers, a repeat, a request without number, a second endpoint; the theorems cover any number |
| one option, one level, `MaxMoves` 3, `MaxDrops` 2 in `Lifecycle` | | options are independent of each other; a side can go and come back before, between and after two lost connections; what messages do to a level is the subject of `replay` |
| three environments in `Lifecycle` | | a variable that is missing, one that may be unusable, somebody to ask and nobody |
| `MaxOptions` 8, up to 5 strikes, prices 98, 100, 65000 and 0 | `Universe` | two options per kind and expiry: the caps bite, with ties at the cut and without; no option is in the band of the last two prices |
| 2 callers, batches of 2, `MaxLives` 2, `MaxDays` 2, `MsPerDay` 2, `MaxOrders` 3 | `Send`, `Unsent` | every order of two goroutines drawing and stamping, in one call and in two, over a restart and over midnight; the theorem covers all numbers |

## 4. Fairness

* `Hedger`: weak fairness of the callback once it holds a message, of the engine,
  and of the consumer. The Go scheduler runs a runnable goroutine again, also with
  `GOMAXPROCS(1)` (`main.go`), since it preempts; none of the three waits for a lock;
  `Send` has a deadline of two seconds and its error is ignored, so `AlertDone` is
  owed. The venue owes no message, the clock no tick, and `ResetSignalMask` is owed
  by no one.
* `HedgeServer`: a handler that began its work runs on. A failed compare-and-swap
  means that another request was let in, which happens once per request, so the loop
  ends under weak fairness.
* `Lifecycle`, the session: the initiator connects again whenever the connection is lost
  (`ReconnectInterval`), the session's goroutine sends what is queued and hands over
  what it received, and the venue answers a request. Nobody owes a market move, a
  lost connection or a stop; connections are lost finitely often (`MaxDrops`).
* `OrderSender`: a goroutine that can run runs; none waits for a lock, and
  `quickfix.Send` returns. Nobody owes a call or a restart.
* `Lifecycle`, `main`: it runs on, except where it waits for others: the REST requests have
  no deadline and the operator may never press enter, so neither is fair. The two
  properties say what is left: the start ends unless it waits for the REST service,
  and a signal `main` asked for ends the process.

Under it: `SignalsReachOperator` (every signal is taken by the consumer),
`EngineDrains` (again and again the engine is back at an empty channel),
`EveryRequestAnswered`, `CatchesUp` (the book catches up again unless a subscription
was refused), `CallsReturn`, `SignalEndsIt`, `StartEnds`.

## 5. What is proved

All theorems hold for every value of the constants that satisfies the modules'
named assumptions (table sizes, feeds, limits, capacities, parameters). Every safety
invariant and every action property of the runs that pass is proved; of
`ImplementsLedger`, the safety part. Some theorems have a hypothesis beyond these
assumptions. Each is a named definition, and an `MC` module asserts it of its instance,
so that no run shows the property where the theorem says nothing:

| hypothesis | of | why the code or the venue grants it | asserted in |
| --- | --- | --- | --- |
| `RoomForAll`: two places in the signal channel for each bit and mask epoch | `NothingDropped`, `ImplementsLedgerSafety` | capacity 128, 64 bits, no reset (`NothingDroppedAsBuilt` is the case) | – (`Ledger.cfg` has exactly that room) |
| `OrdinaryFeed`: of each option, on both sides, the parser reads what the venue means | `QuietBook` | a subscription of depth 1 (`client.go:62`) is answered with one level a side, and what changes of a side is one entry; an option with an empty side falls outside, for the parser keeps that side: `SyncedExact` and `BookCaughtUp` say what holds then, and `ImplementsAtomic` holds without the hypothesis | `MCHedger` |
| `PositiveStrikes`: an option whose name parses has a strike above 0 | `SignalsFormed` | the zero strike marks the place of a name that does not parse, and no exchange lists an option at 0 | `MCHedger` |
| `RoomForTop`: the parser looks at two entries and a level at least | `BookCaughtUp` | the limits are 32, 8 and 16 (`client.go:274-337`) | `MCLifecycle` |
| `NamesIdentify`: traded options of one expiry, strike and kind are one | `EdgeUnpaired` | Deribit's names consist of these | `MCUniverse` |

| theorem | module | argument |
| --- | --- | --- |
| `TypeCorrect` | `HedgerProofs` | `TypeOK` is inductive. It carries the control facts that make each access legal: legs are in the table once loads begin, a pending call has a symbol, fewer than 16 loads are done in `"load"`. The parser's lemmas (`FixParseProofs`) say that it returns a quote of natural numbers for every message. |
| `SignalsBounded` | `SignalProofs` | `SignalBudget` is inductive given types: `MarkPair` adds a bit that was clear, which pays for the two signals that may follow; a reset turns bits of the mask into its epoch's allowance. |
| `NothingDropped`, `NothingDroppedAsBuilt` | `SignalProofs` | `NoSignalDropped` is not inductive: a send could find the channel full. `SignalBudget` excludes it, for what is in the channel is part of what was sent, and that is below the budget while a side is still to be decided. |
| `SixteenSignals` | `SignalProofs` | The hash is `(low*1000 + high) % 64`; `1000*1000` and `64` share a factor 64, so on strikes that are multiples of 1000 the low strike drops out (`HashOnGrid`) and 8 values are left. With no reset the budget is 16 for the life of the process. |
| `LongAndShortNeedCrossing`, `BothSidesNeedCrossing` | `SignalProofs` | The profits of both sides of one unit add up to minus the spreads times the settlement minus fees, if settled at the index or at the worst end of the band (`WorstIsWorst`, `UnitGain`); both can only be positive if a spread is negative. |
| `FloorIsWorstCase` | `SignalProofs` | The profit of a unit falls with the settlement price at the rate net price plus four fee rates; the code picks the end of the band by the sign of the net price alone. The signs agree, or the band is a point, except for a credit smaller than the four fees. |
| `DistinctIds` | `OrderSenderProofs` | `IdsUniqueWithinDay` is not inductive. A number waiting to be stamped waits in one goroutine only and is in no identifier of the running process (`NumbersOK`), since the counter has passed all numbers of this process (`CounterOK`); the identifiers of earlier processes are older than `born`, and no identifier is later than now (`PastOK`). A restart takes at least a millisecond (authentication and logon come first) and the wall clock is not set back: both are in the model. |
| `ImplementsLedgerSafety` | `SignalProofs` | Step by step: `MarkPair` is `Judge`, `DecideLong`/`DecideShort` are `Settle`, `TakeSignal` is `ReceiveNext` (here `NoSignalDropped` is needed), the reset is `Forget`, all else stutters. The key of the legs equals that of the pair because the lookup returns options of exactly those strikes (`LegsKey`). |
| `KeptNamed` | `BookReplayProofs` | What the parser makes of a side has no quantity or is one entry's (`FromOneEntry`): the best kept level of a snapshot, or the entry an increment is reduced to, if that does not delete. |
| `SyncedExact` | `BookReplayProofs` | For a snapshot the best kept level equals the best offered one if the latter is within the limits, and so kept (`BestKept`); an ordinary increment has one entry, which parser and venue read alike (`IncrementExact`). |
| `DeDupe` | `HedgeServerProofs` | `OncePerNumber` needs `SwapsUpwards` (who is about to swap holds a number above the one it loaded) and `LetInBelow` (what was let in is not above the counter): a swap that succeeds lets in a number above all that were let in. |
| `HandlersImplementGate` | `HedgeServerProofs` | From the same invariant: a load that finds the number stale is `Refuse`, one without number and a successful swap are `Admit`, the rest stutters. |
| `ImplementsAtomic` | `HedgerProofs` | The quotes of `AtomicFeed` are those the entries will show when the callback has returned (`Settled`). Only a message received changes them: a store does not touch the other side, because `neu` repeats it and only this goroutine writes (`Storing`); when a call returns, all of `neu` is stored (`AllStored`); and there is one call for a side (`Once`). |
| `QuietBook` | `HedgerProofs` | `Settled` shows what the venue means (`SettledExact`): each message is applied as in `ImplementsAtomic`, and an ordinary one keeps parser and venue together (`OrdinaryExact`, as in `SyncedExact`). An entry without a pending call shows what is settled. |
| `WakeupsOrdered`, `WakesAfterWrites` | `HedgerProofs` | `Ordered`: every waiting time is between `lastCheck` and the clock. `Storing`: at the end of the stores the entry is `neu`, which holds the side applied, under a time that is past; the callback's index is the shared one. |
| `SignalsFormed` | `SignalProofs` | The lookup returns options of exactly the two strikes of the pair, far enough apart, and of the expiry of the updated option (`LegsAre`, `FirstOptionIs`). What a name that does not parse leaves in the table is a put of strike 0; so the calls are parsed, their strikes are above 0, and the puts, of the same strikes, are parsed too. `BoxesFormed` says it of the box under evaluation and of all signals sent. |
| `NoWakeLost` | `HedgeServerProofs` | A target the engine has not seen is that of a handler about to wake it (`WakeToCome`); whoever replaces it owes a wake-up too, unless it is a close. |
| `ReturnsComplete` | `OrderSenderProofs` | `WaitInv`: the wait group counts the goroutines that have not called `Done`, so it is 0 only when none is left, and each past its send has stored an error if and only if its order is not out. |
| `TablesFirst` | `LifecycleProofs` | `StartInv`: the steps before the one `main` is at are done, the initiator was started at its step only, and no session is up without it. |
| `BookCaughtUp` | `LifecycleProofs` | `SessionInv` says what `CaughtUpExact` leaves open while messages are under way: on a sure side the last message on the wire that touches it shows what the venue has, and if none does the entry shows it already (`Arriving`). A snapshot names every side with a level, so it makes sides sure; the loss of a connection empties the wire and the claim with it. |
| `SymbolsDistinct` | `UniverseProofs` | `UniverseInv`: the lists are without repetition, each within its cap, and while they are merged together no longer than `MaxOptions` (`BothFit`); if near and far are one expiry, what is merged was seen before. |
| `NearestSelected` | `UniverseProofs` | In the loop (`Filling`) the options taken are the nearest of their kind, those not looked at are no nearer, and of a kind that was passed over there are as many as its cap. At the end (`Chosen`) none is left, or both kinds are full; the merge keeps both lists whole (`BothIn`). |
| `EdgeUnpaired` | `UniverseProofs` | Let a call be taken without its put. The puts are then full, and since the calls are no more than the cap, counting gives a put without its call (`LonelyMet`). Each of the two is passed over for the other's kind, so they are equally far and farthest (`LonelyApart`), at different strikes; as there are only two strikes at a distance, a second such call would have the strike of the first (`LonelyOne`). |

Only model-checked: the liveness properties (`SignalsReachOperator`, `EngineDrains`,
`EveryRequestAnswered`, `CallsReturn`, `CatchesUp`, `SignalEndsIt`, `StartEnds`) and the
fairness part of `ImplementsLedger`, since the prover handles neither liveness under
fairness nor `ENABLED`. Induction over data needs an operator
as a parameter of the induction theorem, which the installed provers cannot
instantiate; where a least or greatest element is needed (`LeastIndex`,
`GreatestValue`) it comes from well-foundedness. No module declares a
`RECURSIVE` operator.

## 6. What is not modelled

* Rounding of floating point, log texts, latencies inside a debounce window.
* The signature of the logon (`ToAdmin`), heartbeats, and quickfix's own recovery,
  which the reset at each logon rules out.
* What a batch leaves in the market: fills are the venue's, and no execution report is
  read by `FromApp`.
* The figures in the alert, which are read again when the signal is consumed: no text
  says as of when they are.
* `NotifyMainClose`, environment helpers, `model`, `quote_store`, `greeks`,
  `index_stub`, `helpers`: not reached from `main.go`, and none keeps state that
  another part reads.
* Third-party code, except for the steps of quickfix that the session and the sender
  rest on, which are mapped to its vendored source; its reading of groups is modelled
  from how the code uses it. The engine behind the hedge API is
  external: it keeps the last target and looks at it when woken.

## 7. Plan

Done, in this order: table, book, feed, engine, consumer and their composition
(the path of a quote to an alert is what the program is for); the ledger; the
parser's replay; the hedge API; the proofs of these; the order sender with its
theorem, the session's life, the universe, the start, and the two composed; the floor with the band.

Then the proofs of all safety properties, the callback as an atomic one among them.

Next:

1. The arithmetic of `UnitProfit` against the payoff of the four legs at every
   settlement price, from the definition of an option's payoff.
2. That the update channel, however full, delays a wake-up but never reorders it with
   the store of a later quote of the same option.
3. The boundary of `SyncedExact`: which increments, besides the ordinary ones, keep a side.
