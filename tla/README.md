# binglib in TLA+

binglib is a C++ library for Bitcoin wallets: it talks to an Electrum server
and to a libbitcoin server, keeps the histories of a wallet's addresses,
calculates balances, chooses funds, and builds transactions that pay, lock
funds until a time, and unlock them. This directory models its logic in TLA+,
checks the models with TLC and proves the main results with TLAPS.

Line numbers below are those of the files under `src/src/`.

## 1. The system

| Part | State it keeps | Operations | Uses |
|---|---|---|---|
| `RonghuaClient` | `id_counter` (atomic), `mutex_`, `interrupt_requested_`, `io_context_`, the error callbacks | `init`, one function per Electrum method, bulk versions of two, `get_subscription_event`, `stop`, `do_interrupt` | `RonghuaSocketClient` |
| `RonghuaSocketClient` | the TLS socket, `buf`, `oss`, the queue | `connect`/`handshake`, `send_request`, `receive_response*`, `run_receiving_loop`, `async_read`/`do_read` | `RonghuaInputQueue` |
| `RonghuaInputQueue` | a deque, a mutex, a condition variable | `push`, `pop_reply`, `pop_reply_bulk`, `pop_eat_reply` | |
| `WalletState` | caches of histories and transactions, three blocking queues | `get_history`, `refresh_all_history*`, `clear_caches*`, subscriptions | an `ElectrumInterface` |
| `HistoryInspector` | none | balances, history rows, subscriptions | `WalletState` |
| `FundsFinder` | none | `find_funds` (two overloads) | |
| `PurseAccessor` | none; two maps of the caller | `look_for_*`, `scan_balances`, `find_utxos` | both servers |
| `OnlineP2pkhTxCreator`, `OnlineLockTxCreator` | none | construct a payment, a locking transaction | `FundsFinder`, both servers |
| `OfflineUnlockTxCreator`, `RedeemScript` | none | construct an unlocking transaction, the script | |
| `LibbClient` | a connection | queries of a libbitcoin server | |
| `BingWallet`, `AddressConverter` | none | derivation and conversion of addresses | |
| `blocking_queue` | a deque, a mutex, a condition variable | `push`, `pop` | |

Threads: any number of application threads call `RonghuaClient`; `init` runs
`io_context_` on its caller's thread until the connection stands or has failed,
then one thread of its own runs it and with it `do_read`. They meet in
`RonghuaInputQueue`, in `id_counter`, in the state of `io_context_` and on the
socket. One application thread listens for notifications in the same queue.
`WalletState` has no lock; its queues hand rows and balances to other threads.

What is hard to get right here, and hard to test:

* an id is allocated and then read again from the shared counter;
* two of the three ways to send a request take a lock, one keeps it while it
  waits, one does not take it at all;
* a bulk wait times out, takes a prefix, and asks again for the rest while late
  replies still come in;
* the byte stream is cut into messages by trying to parse all that has come;
* `init` leaves `io_context_` stopped, issues a read and restarts it, while
  `stop` and `do_interrupt` may stop it at any moment;
* the listener and the requests sleep on one condition variable, and a queue
  that wakes one thread per value does so after the lock is released;
* cached histories are valid only until a notification, and an error reply, an
  empty history and "not asked yet" are told apart by two maps;
* every choice of funds works with an answer that may be out of date;
* sums of satoshis and lock times live in fixed width integers.

`PROJECT.json` lists these hazards at their lines with the properties that
cover them.

## 2. The modules

| Module | Models | State and actions |
|---|---|---|
| `RonghuaClient` | the request/reply exchange | One program counter per caller: `AllocateId` (`++id_counter`), `ReadBackId` (its second read), `Lock`, `Write`, `ReceiveOne`, `ReceiveBulk`, `ReceiveBulkTimeout`; `DoRead` is the io thread; `Disconnect`, `stop`, `do_interrupt`. A thread is inside `boost::asio::write` from `Lock` to `Write` or `WriteThrows`. After the peer has closed, a write may throw or seem to succeed; after `stop` it throws. An operation is a record of the helper it uses, what it makes of an error reply, the length of its vector, which may be 0, and its chunk. |
| `SocketReader` | the receiving loop | Bytes are positions in the stream; `oss` is the stretch between `start` and `rpos`. |
| `Session` | the life of a client from `init` to its end | Extends `SocketReader` by where `init` is, the link, whether `io_context_` is stopped and whether the loop's thread is inside `run`. One step per handler of the context; `stop` and `do_interrupt` are two steps each and may come at any time once `client_` exists. |
| `ReplyBox` | what the queue promises | An abstract specification: a set of replies, a stack of notifications. |
| `InputQueue` | `RonghuaInputQueue` | One step per critical section; `push` and its `notify_all` are two steps; timeouts and spurious wake-ups. |
| `Channel` | what `blocking_queue` promises | An abstract specification: a first-in first-out channel, each value of which goes to one thread. |
| `BlockingQueue` | `blocking_queue` | `push` and its `notify_one` are two steps; spurious wake-ups. |
| `Updates` | the way of a notification to the screen | Composes `InputQueue` (the io thread and `do_interrupt` push; the listener and a request pop) and an instance of `BlockingQueue` (the listener pushes balances, viewers pop them). |
| `TimeLock` | `RedeemScript`, `OfflineUnlockTxCreator`, the script of `OnlineLockTxCreator` | Locked outputs on a chain with Bitcoin's locktime rules (external). |
| `FundsFinder` | `FundsFinder` | Operators only. |
| `Payments` | the two online creators | `Fetch` (the answer of a server), `Construct`, `Broadcast`; other wallets and payments act in between. |
| `Purse` | `PurseAccessor` | One step per address and request of a call; the chain may change between two steps. `confirmed` and `listed` are what the Electrum server, asked for balances, and the libbitcoin server, asked for outputs, know of it: `Confirm` and `List` bring them up to date one output at a time. |
| `HistoryInspector` | its calculations | Operators only. |
| `WalletState` | the history caches and the calls of `HistoryInspector` | One step per history that is read, per subscription and per bulk request; the server changes and notifies in between, and any request may fail. |
| `MC...` | | Instances for TLC. |
| `RonghuaClientProofs`, `SessionProofs`, `BlockingQueueProofs`, `UpdatesProofs`, `WalletStateProofs`, `PurseProofs`, `PaymentsProofs`, `TimeLockProofs` | | Theorems about the module they are named after, with their proofs; `SessionProofs` also has those about `SocketReader`. |

How they fit together: `InputQueue` implements `ReplyBox`, and `RonghuaClient`
uses the queue only through what `ReplyBox` says (an id takes its reply, a
timed out bulk wait takes a prefix). `SocketReader` delivers each message once,
which is `DoRead` of `RonghuaClient` and `Receive` of `Updates`. `Session` says
when the loop runs. `Updates` shows that the listener gets every notification
and hands on what it calculated; what that is, is the subject of `WalletState`.
`WalletState` uses of `RonghuaClient` that
a bulk call returns one history per address in their order (`OwnReply`), that
an error reply to `getHistory` reads as an empty history, that a subscription
ignores its reply, and that `scripthashSubscribeBulk` throws. `Payments` and
`Purse` share `FundsFinder`; `WalletState` extends `HistoryInspector`.

Definitions named after a function model that function. Definitions called a
"faulty variant" are not part of any specification: each changes one definition
the way a plausible mistake would, and is used to confirm that a property
notices.

### Abstractions

* A request is its id, the call that wrote it and the position of the item it
  asks about; a reply is a request with "result" or "error". That is all that
  tells whether a caller got its own answer.
* JSON, base58, hashes, signatures and encodings are left out, except for what
  they do to control: no proper prefix of an object parses, an error has a null
  result, `AddressConverter` ignores the checksum, a push of four bytes has a
  sign.
* `txid_2_txhex_cache_` maps an id to the content that the id is the hash of, so
  reading it or asking the server gives the same transaction.
  A call that needs a transaction that does not exist throws: the input of a
  coinbase names one (`NoTx`).
* `all_history_` is rebuilt by every call that reads it; it is `call.seen`.
* `fresh` is not modelled. `refresh_all_history_bulk` copies items whose `fresh`
  was never set; only the display uses it.

### What is assumed of the surroundings

* `RecordAligned` (`SocketReader`): `async_read_some` on a TLS stream returns
  bytes of one record. A server that writes one message per record therefore
  never gives two messages to one read. A server that packs two messages into a
  record does; `reader_coalesced` shows what happens then.
* `Serial` (`RonghuaClient`): the application does not overlap calls. The class
  does not say whether it may; runs and theorems exist for both cases.
* The caller of `WalletState` subscribes to all addresses before it asks for
  histories (`tried`), and handles notifications between calls: the order in
  which the library's functions are meant to be used. Nothing in `WalletState`
  enforces it. The caller is not told when a subscription failed.
* The application (`Session`) registers error callbacks before `init`, and calls
  `stop` and `do_interrupt` only when `client_` exists: `init` has resolved the
  host. Both dereference it without a check.
* One thread listens (`Updates`). `do_interrupt` pushes one message, which would
  end only one of two listeners.
* The server does not send an id twice, nor an id that nobody asked for.
* Ids are compared as `Hash` (`HistoryInspector`) numbers them, in any order: the
  code compares strings of random digits.
* The server lists the transactions of its mempool after the confirmed ones and
  in any order; the Electrum protocol promises no more. It never has two
  transactions that spend the same output: a replacement comes when what it
  replaces has dropped out.
* `MoneyAssumption` (`HistoryInspector`): the outputs of the transactions a wallet
  is about are together worth less than 2^64 satoshis, 8000 times all the bitcoin
  there will ever be. The sums of `HistoryInspector` are `uint64_t`.

## 3. The runs

| Run | Checks | Bounds |
|---|---|---|
| `client_serial` | `TypeOK`, `OwnReply`, `WaitsForWritten`, `CallsReturn`: one call after the other, with an operation of every shape, a bulk call of two chunks, a timeout, and the link going down, stopped or interrupted. | 2 callers, 2 calls, vectors of 3 in chunks of 2 or 3, 1 timeout |
| `client_overlap` | `UniqueIds`, `WritesExcluded`, `NoResidue`, `QueueMoves` when locked, unlocked and bulk calls overlap and queue for `mutex_`, and the peer may close the connection. | 2 callers, 3 calls, vectors of 2 |
| `client_race` | finds `BulkOneToOne` violated. | 2 callers, 2 calls |
| `session` | `SessionTypeOK`, `ParsedInOrder`, `NotYetParsable`, `EveryMessageParsed` of the loop; `NoSilentFailure`, `InitReturns`, `InterruptEnds`, `StopEnds` of its beginning and end. | 2 messages, shorter than, as long as and longer than the buffer; 2 failed reads; `stop` and `do_interrupt` once each |
| `reader_coalesced` | finds `NotYetParsable` violated without `RecordAligned`. | 2 messages |
| `updates` | `ImplementsReplyBox` and `ImplementsChannel` (liveness included), `Accounted`, `UpdatesShown`, `PoisonEndsListener`. | a listener and a timed bulk request, 2 pushers, 2 viewers; two replies, an update and the poison message |
| `lock_until` | `TypeOK`, `UnlockableAfter`, `LockedUntil`. | 4 bit lock times, 2 keys, 2 locks |
| `lock_sign` | finds `UnlockableAfter` violated above the sign bit. | the 4 bit lock times above it |
| `pay_exact` | `TypeOK`, `ConstructedIsValid`, `EmptyMeansInsufficient`, `ExactPayment`. | satoshis modulo 16, 4 outputs, sums of nothing, that fit, that need two outputs and that wrap |
| `purse_backed` | `TypeOK`, `FundsAreBacked`, `FirstOrRichest`, `SufficientOutputFound`. | 2 addresses, 4 initial wallets, 2 changes of the chain |
| `history_exact` | `TypeOK`, `CacheFresh`, `BalancesExact`, `RowsExact`, `RowsOnce`, `BlockBalances`, `SplitExact`, `CoinbaseThrows`. Deadlock is checked. | 2 addresses, 6 transactions of which two spend the same output, 2 blocks, 1 failed request |
| `history_flag` | finds `BalanceMatchesHistory` violated. | as above, no failed request |

Several properties say precisely how far a comment, a document or a name goes:

* `EmptyMeansInsufficient`: an empty choice means insufficient funds
  (`funds_finder.hpp:35`) in what the address held when the server was asked,
  except for a request of nothing and for an error reply that `getUtxos` reads as
  an empty list.
* `SufficientOutputFound`: the purse finds an output that is worth the request, at
  whichever address, if the chain is at rest and both servers know it. It does
  less than `src/README.md:17` says, "chooses a set of UTXOs which satisfy funding
  requirement at wallet (set of addresses) scope": `obtain_funds` asks for outputs
  that are each worth the whole request (`purse_accessor.cpp:35`), so two outputs
  of 1, at one address or at two, do not satisfy a request of 2. One of the
  wallets of `purse_backed` is such a one.
* `SplitExact` divides what the wallet holds as the code does: height 0 is
  unconfirmed, everything else confirmed. An unconfirmed child of an unconfirmed
  transaction, at height -1, therefore counts as confirmed
  (`history_inspector.cpp:253`), where `calculate_address_balance` takes it as
  unconfirmed (`history_inspector.cpp:63`).
* `BalancesExact`: `balance_items` "have to be in order of real time appearance"
  (`history_inspector.cpp:152`), and nothing sorts them. An unconfirmed child
  that the server lists before its parent is not taken off, so the balance is
  never too low, and exact when no unconfirmed transaction spends from an
  unconfirmed one.
* `BlockBalances`: the ids that order the rows within a block do not follow the
  chain, so a running balance is only right on the topmost row of its block; and
  height -1, which sorts below every block, makes the others wrong. The newest
  row is right even then (`RowsExact`).
* `RowsOnce` holds also when the chain changes between two histories of a call,
  so that one transaction comes at two heights; which of them the row shows is
  not said.
* `CoinbaseThrows`: each balance and each list of rows of a wallet that was paid
  by a coinbase ends in an exception, and no other confirmed or unconfirmed
  transaction causes one.
* `CallsReturn`: a call that waits over a link that is no longer up is the only one
  that may never return; `pop_reply` has no timeout and the poison message is no
  reply. It can also be a call that began later, if its write did not notice that
  the peer had closed.
* `QueueMoves`: a request that queues for `mutex_` gets it, unless the one in front
  waits for a reply that cannot come. That it may then wait for ever is said, not
  excluded: the link is down, or the id that was read back (see `client_race`) is
  one whose reply another call takes, or one whose request another call would
  only write after it got `mutex_` itself.
* `WritesExcluded`: `scripthashSubscribe` and `ping` write without `mutex_`. Two
  writes at once on a TLS stream are undefined behaviour of boost::asio; the model
  goes on as if each had written its request whole and says nothing of what really happens.
* `CacheFresh` excepts addresses whose history came from an error reply, whose
  subscription failed unseen, or whose notification lost its params. Nothing in
  the library promises more; clearing the address is what repairs it.
* `FirstOrRichest` is about the balances as they are stored; how old they are is
  up to the caller who owns the map.
* `NoSilentFailure`: `init` returns true when connecting failed; only error
  callbacks are told.
* `InterruptEnds` and `StopEnds`: once `init` has returned, both end the loop. A
  `stop` or `do_interrupt` during `init` that comes after the first read and
  before the restart is undone by the restart (`ronghua_socket_client.cpp:123`).
  The second conjunct of each is about every moment at which they may come: after
  `do_interrupt` the thread ends or is waiting for the server to send or close;
  after `stop` it ends or goes round on failing reads, each of which the callbacks
  are told of (in the model until `MaxErrors`).
* `InitReturns`: a silent handshake keeps `init` from returning, until `stop` or
  `do_interrupt` is called.

Why the bounds are enough. Two calls are what a race on the counter takes; calls
that overlap on more threads are covered by theorems. A vector of three in chunks
of two has a full chunk, a short one and a repeated one. Of the six transactions
one pays the wallet, one stays within it with change, one leaves it, so that each
address is funded and spent from, one replaces the payment within the wallet
after it dropped out, and one is a coinbase of the wallet; a block after the first
leaves room for a transaction that is unconfirmed, has an unconfirmed parent,
drops out again, moves up when its parent is confirmed, and is confirmed with its
parent or after it. In `updates`
two viewers and two values (the first balances and the update) are what a lost
notification takes, and the listener, the request and both pushers meet in every
order on one condition variable. Four bits with the threshold at 4 and the sign
at 8 have every order of a lock time to both. The `history_*` runs
check for deadlock, where a caller can always begin another call; in the other
instances the callers, the chain or the server may stop, and in `client_serial`
`CallsReturn` says that no call is stuck.

### Fairness

* `client_serial`: each caller's steps are weakly fair (a thread that can run
  runs), and so is `Reading`: a connected server answers. Timeouts and the start
  of calls are not fair. `Lock` is weakly fair only; with the bounded number of
  calls it cannot be overtaken for ever.
* `client_overlap`: the same fairness. With callers that never stop calling,
  `std::mutex` does not exclude that one of them is overtaken again and again;
  the run does not say anything about that.
* `session`: a thread inside `init`, `run`, `stop` or `do_interrupt` goes on, the
  handler of a completed or failed read is run by `io_context_->run`, and an
  attempt to connect ends (the operating system gives up; on a socket that `stop`
  has closed, also a handshake does). The server is not
  fair, and nothing bounds the handshake, so `InitReturns` excepts it.
* `updates`: a thread that can take a queue's mutex takes it, a push is followed
  by its notification, and the loops of the listener and the viewers go round.
  Wake-ups without a cause and timeouts are not fair. `ReplyBox` and `Channel`
  then ask that a call whose messages are there returns. They write weak fairness
  of taking as `[]<>~Ready(t)`: taking is enabled exactly while `Ready(t)` holds
  and makes it false.

### What the runs that find a violation show

`PROJECT.json` quotes for each the line of the repository it disagrees with.

* `client_race`: caller 1 allocates id 1, caller 2 allocates id 2, caller 1 reads
  back 2 and waits for the reply of caller 2.
* `reader_coalesced`: the end of one message and the start of the next in one
  read leave a text in `oss` that never becomes one JSON value.
* `lock_sign`: lock times above 2^31 (year 2038) are negative script numbers,
  which OP_CHECKLOCKTIMEVERIFY refuses whatever time it is; the funds are lost.
  2^31 itself is pushed as a negative zero. The chain reads 0, so it refuses the
  transaction of `construct_unlock_tx`, whose locktime is in seconds, but the
  holder of the key can spend at once with locktime 0. (Nodes may decline to
  relay a number that is not written in the shortest way; blocks may contain it.)
* `history_flag`: an address is read while empty, which sets its flag, and receives
  a payment; a bulk refresh shows it in the rows and leaves the flag set, so that
  the balances stay at 0 until the address is cleared. The property leaves height
  -1 aside, so the order of the mempool, which `BalancesExact` is about, has no
  part in it.

## 4. The proofs

All theorems hold for every value of the constants that satisfies the named
assumptions of the module (`ConstantsAssumption`, `ReaderAssumption`,
`LockAssumption`, `QueueAssumption`, `UpdatesAssumption`,
`TransactionAssumption`, `MoneyAssumption`, `StateAssumption`,
`ModulusAssumption`, `PurseAssumption`, `PaymentAssumption`); further hypotheses are in the
statement. The inductive invariants were first checked as invariants with TLC.

`RonghuaClientProofs`

* `TypeCorrect`: `TypeInv` is the type invariant strengthened by
  `ChunkProgress`, which says for each program counter how many ids of the chunk
  have been allocated; without it the length of `ids` has no bound.
* `IdsAreUnique`: `IdInv` adds that no id in use exceeds `id_counter` and that a
  request still to be written (`Numbered`) has an id that no other has.
* `WritesAreExcluded`: `LockInv` says that the holder of `mutex_` is exactly the
  thread between `Lock` and the end of its critical section (`Holds`).
* `LockedCallsGetOwnReply` (all operations use `send_request` or throw at once):
  an id that was read back may belong to another call, but then the reply cannot
  come before that call has `mutex_`. `LockedInv` says that every request in
  flight was written by the holder, so the only reply there is to take is one's
  own.
* `SerialCallsGetOwnReply` (no two calls overlap): `SerialInv` says that the
  counter does not move between `AllocateId` and `ReadBackId`, that the i-th id
  is the id of the request for the i-th item of the chunk (`Asks`), and that
  what is left of earlier calls or abandoned batches has smaller ids.
  `SerialCallsWaitForWritten` follows from the same invariant.
* `NothingIsLeftBehind` (calls of every kind, overlapping as they like): a call
  may wait for an id that is not its own and take another call's reply, so no
  invariant relates a request to its caller. What is kept is a number:
  `CountInv` says that as long as nothing timed out and neither end has closed
  the connection there are as many requests and replies in flight as running calls have written and
  not been given (`Owed`). `AscendInv` (the ids a call waits for ascend, since it
  advances the counter itself between two reads) gives that a bulk wait takes as
  many replies as it has ids.

`SessionProofs`

* `ReaderTypeCorrect`: of `SocketReader` alone; `Laid` says that the ends of
  messages increase.
* `AlignedReadsAreParsed` (`RecordAligned`): `ReadInv` says that the parsed
  messages are the first ones and that `oss` starts at the end of the last of
  them or at its newline, and has not reached the text's end of the next.
* `SessionReadsInOrder` (`RecordAligned`): a step of the whole session is a step of
  `SocketReader` or leaves the reader alone (`ReaderStep`), so `TypeInv` and
  `ReadInv` carry over to `init`, failures, `stop` and `do_interrupt`.
* `SessionTypeCorrect`: of the reader by `TypeInv`, and of the life of the session
  by `LifeInv`, whose first conjunct it is: that nothing is read, stopped or
  interrupted before there is a client.
* `FailuresAreTold`: `LifeInv` says when the context can be stopped while `init`
  runs it. `NoSilentFailure` alone does not survive the step in which the
  context's run ends: it has to be known that somebody stopped the context, which
  before the thread of the loop exists can only have been `stop` or
  `do_interrupt`.

`BlockingQueueProofs`

* `QueueIsChannel`: the initial states and steps of `BlockingQueue` are those of
  `Channel` under `Reverse` of the deque, since `push` adds at the front and
  `pop` takes from the back.

`UpdatesProofs`

* `QueueAccounts`, `UpdatesAccounted`: `QueueInv` adds to `Accounted` that a
  thread holds messages only between its return and the end of its use of them,
  that only a call with a timeout expires and that the threads in the wait set
  are asleep.
* `QueueIsReplyBox`, `UpdatesReplyBox`: each critical section is a step of
  `ReplyBox` or a stutter. A return takes the replies to a beginning of the ids
  (`TakenIs`), and erasing them one by one from the deque leaves what `ReplyBox`
  keeps (`LeftIs`).
* `UpdatesChannel`: with `ListenerInv` (a listener that has returned holds one
  message), the listener's and the viewers' steps are steps of `Channel`.

What `Keep` computes for every sequence is induction over data. It is had from
one first-order fact of the library, that a set of naturals has a least element
(`WFMin`): `NatMin` gives induction for sets of naturals, `SeqSetInduction` for
sets of sequences, and the `Keep...` lemmas instantiate it with the set of
sequences for which the claim holds.

`WalletStateProofs`

* `WalletTypeCorrect`, `CachesAreFresh`: `StateInv` is the conjunction of what is
  known of the chain (`ChainInv`), the sets of addresses (`ServerInv`), the call
  in progress (`CallInv`), the histories a bulk call holds but has not stored
  (`BulkInv`) and the caches (`CacheInv`). `CacheFresh` is not inductive without
  `BulkInv`: `refresh_all_history_bulk` writes its histories into the cache
  without a look at what happened while it waited, and it is right only because
  whatever made one of them stale is also on its way as a notification.
* `OnlyCoinbasesThrow`: `CalmInv` says that, while nothing changes, a call has
  seen exactly what the server lists for the addresses it is past (`UpTo`), so
  that what it could not read is what nobody can. That a reply lists exactly the
  history of its address (`ReplyFresh`) is a count: it has as many items, all of
  the history and all different.
* `BalancesAreExact`, `RowsAreExact`, `SplitIsExact`: what `HistoryInspector`
  adds up item by item, against the unspent outputs of the chain. `WholeInv`
  adds three invariants. `LinkInv` is about the chain: what a transaction spends
  from is present, not in a later block, and confirmed if the transaction is at
  height 0, and no output is spent twice. `OrderInv` says that a cached history
  keeps the order of the reply it came in, even when the chain has moved on.
  `ExactInv` says that the balances `scan_balances` has so far are right for the
  addresses it is past, and that what was returned stays right.
* `EveryRowOnce` needs only `OnceInv`, that no two items a call has seen are of one
  transaction: it also holds when the chain changes, where nothing else is known
  of them.
* `BlockBalancesAreRight`: `BlocksBelow` says that the rows from the topmost of a
  block on are those of the transactions up to its height, whatever the order of
  the ids, and `ConservedItemsIn` that they add up to what the wallet held when
  only these existed.
* The argument for rows and sums is conservation (`ConservedIn`): what the wallet
  holds is the sum of the `balance_delta` of its transactions, because an output
  to the wallet counts once where it is created and is taken off once, in the
  only transaction that spends it. It does not depend on the order of the list,
  so the order of `sort_all_history`, which puts height -1 after the oldest
  block, cannot make the newest row wrong. `SplitIsExact` divides that sum by
  height. `FundingIs` is why `funding_amount` does not wrap when the wallet funds
  the transaction alone.
* The argument for balances does depend on the order. `calc_address_balance`
  takes an output off only if a later item spends it, so it leaves an output
  that is not spent and one whose spender comes too early (`LeftOver`,
  `BalanceIs`). `SpenderLater` shows from `LinkInv` and `OrderInv` that a spender
  comes after what it spends from unless it is at height -1: the balance is
  never too low, and exact when no transaction is at height -1.
* The sums are those of the library's `SumFunction`. That it does not depend on
  the order in which elements are taken (`SigmaStep`), splits over parts
  (`SigmaPart`), can be taken over names (`SigmaMap`) or by groups
  (`SigmaGroups`) is proved here by induction over the subsets of a finite set
  (`SubsetInduction`), had from `WFMin` as above. `Fits` is where
  `MoneyAssumption` is used: no sum over unspent outputs wraps.

`PurseProofs`

* `PurseTypeCorrect`, `FundsComeWithOutputs`, `FirstOrRichestReturned`,
  `SufficientOutputsAreFound`: all four follow from `PurseInv`, the conjunction of what
  is known of the chain (`ChainInv`), the caller's maps (`MapInv`), the call in
  progress (`CallInv`), `maxFunds` (`MaxInv`), a search (`SearchInv`) and the
  result. `FundsAreBacked` is about what a call returns after its last address,
  which is `maxFunds`; `MaxInv` says that what `maxFunds` has of an address that
  was passed is never enough and has no outputs, even where it is a balance that
  `look_for_funds_by_balance` put there without asking for outputs.
  `SufficientOutputFound` needs `SearchInv`: on a chain that has not changed, and
  that both servers therefore know, a search has passed only addresses without an
  output worth the request.
* The lemmas say what the operators return: `individual` has a value, the
  outputs in some ascending order (`Sortable`, `IndividualIs`), `Worth` is at
  least what each output is worth (`WorthBounds`), `find_funds` returns outputs
  of the list that are worth the request or nothing (`FundsFound`),
  `obtain_funds` finds funds exactly when one output suffices (`Obtained`), and
  no balance exceeds `Richest` (`RichestBounds`). They are inductions over the
  size of a set or the length of a list, had from `WFMin` as above
  (`NatSetInduction`).

`PaymentsProofs`

* `PaymentsTypeCorrect`, `DraftsAreValid`, `EmptyChoiceMeansInsufficient` and
  `PaymentsAreExact` follow from `PayInv`, the conjunction of what is known of
  the chain (`ChainInv`), the call (`CallInv`), the server's answer (`FetchInv`)
  and the transaction that was built from it (`DraftInv`). `FetchInv` ties the
  answer to what the address held when it was asked: every output once, in any
  order, worth `held`, unless the answer was an error. `Proper` ties a
  transaction to what its inputs are worth, and stays true when they are spent
  by somebody else or the transaction is broadcast twice; `ExactPayment` is not
  inductive without it, because a broadcast looks at a transaction that was built
  any number of steps ago.
* Two arguments about numbers carry the theorems. The sum of amount and fee wraps
  at most once (`WrapsOnce`), and if it does the amount alone exceeds it, so that
  the outputs are worth more than the inputs and the chain refuses
  (`AcceptedIs`). The code's running sum over a list does not wrap, because the
  list names different outputs of the chain and all of them are worth less than
  the modulus (`TotalIsValue`).
* The lemmas compare a sum over a list with the worth of a set, `Value`: it does
  not depend on the order in which the set is taken apart (`ValueStep`), adds up
  over disjoint parts (`ValueUnion`, `ValuePart`) and ignores outputs without
  value (`ValueOfValued`), which is why it makes no difference that one overload
  of `find_funds` skips them and the libbitcoin server leaves them out. `Recursion`
  says that the running sums exist. They rest on `WFMin` as above, through
  `NatSetInduction` and `SubsetInduction`.

`TimeLockProofs`

* `TypeCorrect`: with `LockInv`, which ties each lock to its script and numbers
  the locks.
* `FundsStayLocked`, `FundsCanBeUnlocked` (`InSeconds`: lock times are seconds
  and below the sign bit): whatever the chain accepts for a locked output carries
  a locktime between the lock time and the median time past, and the transaction
  of `construct_unlock_tx` meets all of the chain's conditions from then on.

Only model-checked:

* liveness (`CallsReturn`, `EveryMessageParsed`, `InitReturns`, `InterruptEnds`,
  `StopEnds`, `UpdatesShown`, `PoisonEndsListener`, and the liveness of
  `ImplementsReplyBox` and `ImplementsChannel`), which is out of the prover's
  reach.

Every safety invariant and every action property that a passing run checks is
also the statement of a theorem.

## 5. What is not modelled

* A second `init` and the destructor of `RonghuaClient`: both free a socket whose
  handlers the loop's thread may still run, which is undefined behaviour;
  nothing that follows could be modelled. Calling `stop` or `do_interrupt`
  before `init` dereferences a null pointer.
* Two threads inside `WalletState`, which has no lock: a data race on its maps.
  The application has to keep its calls apart, as the model does.
* Certificates: the code verifies none (`verify_none`).
* The queues of histories and history hashes, which are used as the queue of
  balances is, and the progress callbacks, which nothing in the library reads.
* The other queries of `LibbClient`, `PurseAccessor::find_history`,
  `server_info_from_json` and `HistoryInspector::hex_2_header`: single requests
  or conversions without state, the last two never used.
* `BingWallet` and the bytes of `AddressConverter`: fixed sequences of library
  calls on bytes.
* Requests longer than the 1536 bytes of `request_`, and what `fetch_height`
  returns without a reply.
* `PurseAccessor::find_utxos` on a map the caller filled long ago: the map and
  its age belong to the caller.

## 6. Plan

What is left is the composition of `WalletState` over `RonghuaClient` for the
bulk refresh: now `WalletState` relies on what `RonghuaClientProofs` says of a
call's replies.
