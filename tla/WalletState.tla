----------------------------- MODULE WalletState -----------------------------
(***************************************************************************)
(* WalletState's caches of address histories, used by the calls of         *)
(* HistoryInspector, against a server whose histories change.              *)
(*                                                                         *)
(* A call asks for one address after the other; the server may change      *)
(* between two requests and notifies the addresses subscribed to.  The     *)
(* caller (external) runs one call at a time, subscribes before it asks    *)
(* for histories, and answers a notification, between calls, with          *)
(* clear_caches_for_address.  all_history_ is scratch: every call that     *)
(* reads it rebuilds it first, here as call.seen.                          *)
(***************************************************************************)
EXTENDS HistoryInspector

CONSTANTS
    Initially,       \* the heights of the transactions at the start
    MaxHeight,       \* bound: blocks
    MaxErrors        \* bound: requests answered with an error

Absent == -2

ASSUME StateAssumption ==
    /\ Initially \in [Txids -> {Absent} \cup 1..MaxHeight]
    /\ \A t \in Txids : Initially[t] # Absent =>
         /\ \A p \in Transactions[t].ins : Initially[p.tx] \in 1..Initially[t]
         /\ \A u \in Txids \ {t} : Initially[u] # Absent =>
              Transactions[t].ins \cap Transactions[u].ins = {}
    /\ MaxHeight \in Nat /\ MaxErrors \in Nat

VARIABLES
    height,      \* the server's transactions: Absent, -1, 0 or a block
    tried,       \* addresses whose subscription was requested
    subscribed,  \* addresses the server reports changes of
    notified,    \* addresses with a notification the caller has not handled
    unnamed,     \* addresses whose last notification came without its params
    cache,       \* address_2_history_cache_
    empty,       \* address_2_history_cache_empty_
    call,        \* the call in progress, or Idle
    result,      \* what the last call returned or pushed, until the server
                 \* changes
    errors,      \* error replies so far
    failed,      \* addresses whose history was cached from an error reply,
                 \* or without a subscription
    calm,        \* no change or error since a call that began up to date,
                 \* or that reads every history anew
    shown        \* the newest balance of a bulk history that is up to date
server == <<height, tried, subscribed, notified, unnamed>>
caches == <<cache, empty>>
ghosts == <<failed, calm, shown>>
vars == <<server, caches, call, result, errors, ghosts>>

Wallet == ToSet(Addresses)
Idle == [op |-> "idle"]
Nothing == [op |-> "none"]
Outdated == -1

Init ==
    /\ height = Initially /\ subscribed = {} /\ notified = {}
    /\ unnamed = {} /\ tried = {}
    /\ cache = [a \in Wallet |-> <<>>] /\ empty = [a \in Wallet |-> FALSE]
    /\ call = Idle /\ result = Nothing
    /\ errors = 0 /\ failed = {} /\ calm = FALSE /\ shown = Outdated

-----------------------------------------------------------------------------
(* The server.  An unconfirmed transaction is at height 0, or at -1 if it  *)
(* spends an output of an unconfirmed one.                                 *)
Parents(t) == {p.tx : p \in Transactions[t].ins}
Touches(t, a) ==
    \/ \E k \in DOMAIN Transactions[t].outs : Transactions[t].outs[k].to = a
    \/ \E p \in Transactions[t].ins : previous_output(p).to = a
TxsOf == [a \in Wallet |-> {t \in Txids : Touches(t, a)}]
HistoryOf(h, a) ==
    {[txid |-> t, height |-> h[t]] : t \in {u \in TxsOf[a] : h[u] # Absent}}

Mempool(h) == {t \in Txids : h[t] \in {0, -1}}
Tip == Max({0} \cup {height[t] : t \in Txids})
Ranked(h, pending) ==
    [t \in Txids |-> IF t \notin pending THEN h[t]
                     ELSE IF \A p \in Parents(t) : h[p] > 0 THEN 0 ELSE -1]

(* The status of an empty history is null: from_json, which expects        *)
(* strings, may then give the message no params (that depends on the       *)
(* version of nlohmann::json), and the caller cannot tell the address.     *)
Change(h) ==
    LET changed == {a \in subscribed : HistoryOf(h, a) # HistoryOf(height, a)} IN
    /\ height' = h
    /\ \E null \in SUBSET {a \in changed : HistoryOf(h, a) = {}} :
         /\ notified' = notified \cup (changed \ null)
         /\ unnamed' = unnamed \cup null
    /\ calm' = FALSE /\ shown' = Outdated /\ result' = Nothing
    /\ UNCHANGED <<tried, subscribed, caches, call, errors, failed>>

Coinbases == {t \in Txids : Parents(t) = {}}
Arrive(t) ==
    /\ t \notin Coinbases /\ height[t] = Absent /\ \A p \in Parents(t) : height[p] # Absent
    /\ \A u \in Txids : height[u] # Absent => Transactions[t].ins \cap Transactions[u].ins = {}
    /\ Change(Ranked(height, {t}))

(* A transaction drops out of the mempool.                                 *)
Evict(t) ==
    /\ t \in Mempool(height)
    /\ \A u \in Txids : t \in Parents(u) => height[u] = Absent
    /\ Change([height EXCEPT ![t] = Absent])

Mine(block) ==
    /\ block # {} /\ Tip < MaxHeight /\ Cardinality(block \cap Coinbases) <= 1
    /\ \A p \in UNION {Parents(t) : t \in block} : height[p] > 0 \/ p \in block
    /\ Change(Ranked([t \in Txids |-> IF t \in block THEN Tip + 1 ELSE height[t]],
                     Mempool(height) \ block))

(* A reply to get_history: confirmed transactions in the order of the      *)
(* chain, then those of the mempool in any order.                          *)
MayPrecede(x, y) ==
    y.height > 0 => /\ x.height > 0 /\ x.height <= y.height
                    /\ x.height = y.height => x.txid < y.txid
Replies(a) ==
    {reply \in SetToSeqs(HistoryOf(height, a)) :
       \A i, j \in DOMAIN reply : i < j => MayPrecede(reply[i], reply[j])}

-----------------------------------------------------------------------------
(* The calls of HistoryInspector, by what they do with the histories.      *)
Balances == {"scan_balances", "unconfirmed_balances"}  \* also their totals
Listings == {"rows", "bulk_rows", "confirmed", "unconfirmed"}

Begin(op) ==
    /\ call = Idle
    /\ op # "subscribe" => tried = Wallet
    /\ call' = [op |-> op, next |-> 1, seen |-> {}, balances |-> <<>>,
                histories |-> <<>>]
    /\ result' = Nothing
    /\ calm' = (op = "bulk_rows" \/ (notified \cup unnamed \cup failed = {}))
    /\ UNCHANGED <<server, caches, errors, failed, shown>>

(* Faulty variant of Insert: items are compared with their heights.        *)
InsertEvery(seen, items) == seen \cup items

(* ahi_set.insert: an item whose txid is in the set is not inserted.       *)
Insert(seen, items) ==
    seen \cup {i \in items : \A s \in seen : s.txid # i.txid}

(* The same for one history after the other: an item stays out if a        *)
(* history before its own has its txid.                                    *)
InsertAll(histories) ==
    {i \in UNION {ToSet(histories[k]) : k \in DOMAIN histories} :
       \E k \in DOMAIN histories :
         /\ i \in ToSet(histories[k])
         /\ \A j \in 1 .. k - 1 : \A s \in ToSet(histories[j]) : s.txid # i.txid}

(* Faulty variant of Analysed: unconfirmed_only is not looked at.          *)
AnalysedAll(op, items) == items

(* The items whose inputs a call looks up.                                 *)
Analysed(op, items) ==
    {i \in items : \/ op \in {"scan_balances", "rows", "bulk_rows"}
                   \/ op = "unconfirmed_balances" /\ i.height <= 0
                   \/ op = "confirmed" /\ i.height # 0
                   \/ op = "unconfirmed" /\ i.height = 0}

Throw == call' = Idle /\ result' = [op |-> "exception", of |-> call.op]

(* What a call does with the history of the address it is at; a balance    *)
(* resolves the inputs of its transactions at once.                        *)
Absorb(a, history) ==
    IF call.op \in Balances /\ Unreadable(Analysed(call.op, ToSet(history)))
    THEN Throw
    ELSE /\ call' = [call EXCEPT
              !.next = @ + 1,
              !.seen = IF call.op \in Listings THEN Insert(@, ToSet(history)) ELSE @,
              !.balances = IF call.op \in Balances
                           THEN Append(@, address_balance(a, history,
                                              call.op = "unconfirmed_balances"))
                           ELSE @]
         /\ UNCHANGED result

Here == Addresses[call.next]
Asking == /\ call # Idle /\ call.op \notin {"bulk_rows", "subscribe"}
          /\ call.next <= Len(Addresses)

(* get_history without a request: the address is known to be empty, or its *)
(* history is in the cache.                                                *)
Cached(a) == empty[a] \/ cache[a] # <<>>
Remembered(a) == IF empty[a] THEN <<>> ELSE cache[a]

get_history_cached ==
    /\ Asking /\ Cached(Here)
    /\ Absorb(Here, Remembered(Here))
    /\ UNCHANGED <<server, caches, errors, ghosts>>

(* get_history with a request.                                             *)
Store(a, history) ==
    /\ cache' = [cache EXCEPT ![a] = history]
    /\ empty' = [empty EXCEPT ![a] = history = <<>>]

get_history_requested ==
    /\ Asking /\ ~Cached(Here)
    /\ \E reply \in Replies(Here) : Store(Here, reply) /\ Absorb(Here, reply)
    /\ failed' = failed \cup ({Here} \ subscribed)
    /\ UNCHANGED <<server, errors, calm, shown>>

(* The same when the server replies with an error: its null result is read *)
(* as an empty history.                                                    *)
get_history_error ==
    /\ Asking /\ ~Cached(Here) /\ errors < MaxErrors
    /\ Store(Here, <<>>) /\ Absorb(Here, <<>>)
    /\ errors' = errors + 1 /\ failed' = failed \cup {Here}
    /\ calm' = FALSE /\ shown' = Outdated
    /\ UNCHANGED server

-----------------------------------------------------------------------------
(* refresh_all_history_bulk: all histories are requested, then stored.     *)
AskingInBulk == /\ call # Idle /\ call.op = "bulk_rows"
                /\ call.next <= Len(Addresses)
BulkReply(history) ==
    /\ call' = [call EXCEPT !.next = @ + 1, !.histories = Append(@, history)]
    /\ UNCHANGED <<server, caches, result>>

get_history_bulk ==
    /\ AskingInBulk
    /\ \E history \in Replies(Here) : BulkReply(history)
    /\ UNCHANGED <<errors, ghosts>>

get_history_bulk_error ==
    /\ AskingInBulk /\ errors < MaxErrors /\ BulkReply(<<>>)
    /\ errors' = errors + 1 /\ failed' = failed \cup {Here}
    /\ calm' = FALSE /\ shown' = Outdated

(* Faulty variant of refresh_all_history_bulk: the histories are stored at *)
(* the address after their own.                                            *)
refresh_all_history_bulkShifted ==
    /\ call # Idle /\ call.op = "bulk_rows" /\ call.next = Len(Addresses) + 1
    /\ LET IndexOf(a) == CHOOSE i \in DOMAIN Addresses : Addresses[i] = a
           history == [a \in Wallet |->
                         call.histories[(IndexOf(a) % Len(Addresses)) + 1]]
       IN  /\ cache' = history
           /\ empty' = [a \in Wallet |-> empty[a] \/ history[a] = <<>>]
           /\ call' = [call EXCEPT !.next = @ + 1,
                          !.seen = UNION {ToSet(history[a]) : a \in Wallet}]
    /\ UNCHANGED <<server, result, errors, ghosts>>

(* The loop over the histories sets the flag of an empty one and never     *)
(* takes a flag back.                                                      *)
refresh_all_history_bulk ==
    /\ call # Idle /\ call.op = "bulk_rows" /\ call.next = Len(Addresses) + 1
    /\ LET IndexOf(a) == CHOOSE i \in DOMAIN Addresses : Addresses[i] = a
           history == [a \in Wallet |-> call.histories[IndexOf(a)]]
       IN  /\ cache' = history
           /\ empty' = [a \in Wallet |-> empty[a] \/ history[a] = <<>>]
    /\ call' = [call EXCEPT !.next = @ + 1, !.seen = InsertAll(call.histories)]
    /\ failed' = failed \cup (Wallet \ subscribed)
    /\ UNCHANGED <<server, result, errors, calm, shown>>

(* The rest of get_all_txs_sorted_bulk reads the transactions at once. *)
get_all_txs_sorted_bulk ==
    /\ call # Idle /\ call.op = "bulk_rows" /\ call.next = Len(Addresses) + 2
    /\ call' = [call EXCEPT !.next = @ + 1]
    /\ UNCHANGED <<server, caches, result, errors, ghosts>>

(* create_history_view_rows then reads the transactions they spend from.   *)
load_txs_bulk ==
    /\ call # Idle /\ call.op = "bulk_rows" /\ call.next = Len(Addresses) + 3
    /\ IF Unreadable(call.seen) THEN Throw
       ELSE call' = [call EXCEPT !.next = @ + 1] /\ UNCHANGED result
    /\ UNCHANGED <<server, caches, errors, ghosts>>

-----------------------------------------------------------------------------
(* The end of a call: sort, read the transactions, and push the rows, the  *)
(* balances, or return the sum.                                            *)
Answer ==
    LET sorted_txs == sort_all_history(call.seen) IN
    CASE call.op \in {"rows", "bulk_rows"} -> history_view_rows(sorted_txs)
      [] call.op = "confirmed"   -> confirmed_balance(sorted_txs)
      [] call.op = "unconfirmed" -> unconfirmed_impact(sorted_txs)
      [] OTHER -> call.balances

Finish ==
    /\ call # Idle /\ call.op # "subscribe"
    /\ call.next = Len(Addresses) + (IF call.op = "bulk_rows" THEN 4 ELSE 1)
    /\ IF Unreadable(Analysed(call.op, call.seen))
       THEN Throw /\ UNCHANGED shown
       ELSE /\ call' = Idle /\ result' = [op |-> call.op, value |-> Answer]
            /\ shown' = IF call.op # "bulk_rows" \/ ~calm THEN shown
                        ELSE IF Answer = <<>> THEN 0 ELSE Answer[1].balance
    /\ UNCHANGED <<server, caches, errors, failed, calm>>

(* Any request may fail, get_transaction too: the exception ends the call. *)
RequestFails ==
    /\ call # Idle /\ errors < MaxErrors /\ errors' = errors + 1
    /\ Throw /\ calm' = FALSE
    /\ UNCHANGED <<server, caches, failed, shown>>

(* do_addresses_subscriptions: one address after the other, and the end.   *)
(* When the server replies with an error the reply is eaten and the loop   *)
(* goes on, without the subscription.                                      *)
Subscribing == call # Idle /\ call.op = "subscribe"
subscribe_address ==
    /\ Subscribing /\ call.next <= Len(Addresses)
    /\ \/ subscribed' = subscribed \cup {Here} /\ UNCHANGED errors
       \/ errors < MaxErrors /\ errors' = errors + 1 /\ UNCHANGED subscribed
    /\ tried' = tried \cup {Here} /\ call' = [call EXCEPT !.next = @ + 1]
    /\ UNCHANGED <<height, notified, unnamed, caches, result, ghosts>>

do_addresses_subscriptions ==
    /\ Subscribing /\ call.next > Len(Addresses)
    /\ call' = Idle /\ result' = [op |-> "subscribe"]
    /\ UNCHANGED <<server, caches, errors, ghosts>>

(* do_addresses_subscriptions_bulk: RonghuaClient does not implement it.   *)
do_addresses_subscriptions_bulk ==
    /\ call = Idle /\ result' = [op |-> "exception", of |-> "subscribe"]
    /\ UNCHANGED <<server, caches, call, errors, ghosts>>

(* Faulty variant of clear_caches_for_address: the flag is not reset.      *)
clear_caches_for_addressKeepingFlag(a) ==
    /\ cache' = [cache EXCEPT ![a] = <<>>] /\ UNCHANGED empty

clear_caches_for_address(a) ==
    /\ cache' = [cache EXCEPT ![a] = <<>>]
    /\ empty' = [empty EXCEPT ![a] = FALSE]

(* The caller answers a notification.                                      *)
HandleNotification(a) ==
    /\ call = Idle /\ a \in notified
    /\ clear_caches_for_address(a)
    /\ notified' = notified \ {a} /\ unnamed' = unnamed \ {a}
    /\ failed' = failed \ {a}
    /\ UNCHANGED <<height, tried, subscribed, call, result, errors, calm, shown>>

clear_caches ==
    /\ call = Idle
    /\ cache' = [a \in Wallet |-> <<>>] /\ empty' = [a \in Wallet |-> FALSE]
    /\ failed' = {} /\ unnamed' = {}
    /\ UNCHANGED <<height, tried, subscribed, notified, call, result, errors, calm,
                   shown>>

-----------------------------------------------------------------------------
Next ==
    \/ \E t \in Txids : Arrive(t) \/ Evict(t)
    \/ \E block \in SUBSET (Mempool(height) \cup
                           {t \in Coinbases : height[t] = Absent}) : Mine(block)
    \/ \E op \in Balances \cup Listings \cup {"subscribe"} : Begin(op)
    \/ get_history_cached
    \/ get_history_requested
    \/ get_history_error
    \/ get_history_bulk
    \/ get_history_bulk_error
    \/ refresh_all_history_bulk
    \/ get_all_txs_sorted_bulk
    \/ load_txs_bulk
    \/ Finish
    \/ RequestFails
    \/ subscribe_address
    \/ do_addresses_subscriptions
    \/ do_addresses_subscriptions_bulk
    \/ \E a \in Wallet : HandleNotification(a)
    \/ clear_caches

Spec == Init /\ [][Next]_vars

-----------------------------------------------------------------------------
(* Properties.                                                             *)

(* What an address holds: the outputs to it that no transaction spends.    *)
Unspent(a) ==
    LET present == {t \in Txids : height[t] # Absent}
        outpoints == UNION {{[tx |-> t, index |-> k] : k \in DOMAIN Transactions[t].outs} :
                              t \in present}
        unspent == {p \in outpoints : /\ previous_output(p).to = a
                                      /\ \A t \in present : p \notin Transactions[t].ins}
    IN  SumFunction([p \in unspent |-> previous_output(p).value])
WalletUnspent == SumFunction([a \in Wallet |-> Unspent(a)])

(* What the wallet holds if only the transactions in `present' exist.      *)
Holds(present) ==
    LET outpoints == UNION {{[tx |-> t, index |-> k] : k \in DOMAIN Transactions[t].outs} :
                              t \in present}
        unspent == {p \in outpoints : /\ is_in_wallet(previous_output(p).to)
                                      /\ \A t \in present : p \notin Transactions[t].ins}
    IN  SumFunction([p \in unspent |-> previous_output(p).value])

WalletItems == UNION {HistoryOf(height, a) : a \in Wallet}

(* The type invariant: a cached item is a transaction that touches the     *)
(* address, and the flags of the caches are set only for what was asked.   *)
TypeOK ==
    /\ subscribed \subseteq tried /\ notified \cup unnamed \subseteq subscribed
    /\ tried \subseteq Wallet
    /\ \A a \in Wallet : \A i \in ToSet(cache[a]) :
         /\ Touches(i.txid, a) /\ i.height \in {-1, 0} \cup 1..MaxHeight
    /\ empty \in [Wallet -> BOOLEAN]
    /\ call = Idle \/ call.next \in 1 .. Len(Addresses) + 4
    /\ errors \in 0..MaxErrors /\ failed \subseteq Wallet

(* A history that get_history would serve from the cache is the server's,  *)
(* unless a notification for the address is still to be handled or came    *)
(* without its params, or the history was cached from an error reply, or   *)
(* after the error reply to a subscription had been eaten; clearing the    *)
(* address is enough to recover.                                           *)
CacheFresh ==
    \A a \in subscribed \ (notified \cup unnamed \cup failed) :
        Cached(a) => ToSet(Remembered(a)) = HistoryOf(height, a)

(* scan_balances and calculate_total_balance give every address the value  *)
(* of its unspent outputs.  Where an unconfirmed transaction spends from   *)
(* an unconfirmed one the list may have them in the wrong order for        *)
(* calc_address_balance, which then gives too much but never too little.   *)
BalancesExact ==
    result.op = "scan_balances" /\ calm =>
        \A i \in DOMAIN Addresses :
            /\ result.value[i] >= Unspent(Addresses[i])
            /\ (\A t \in Txids : height[t] # -1) =>
                 result.value[i] = Unspent(Addresses[i])

(* create_history_view_rows shows the transactions of the wallet, at their *)
(* heights, and its newest row shows what the wallet holds; what a row     *)
(* says was funded is what left the wallet, if the wallet paid for it.     *)
RowsExact ==
    result.op \in {"rows", "bulk_rows"} /\ calm =>
        LET rows == result.value
            Outside(t) == {k \in DOMAIN Transactions[t].outs :
                             ~is_in_wallet(Transactions[t].outs[k].to)}
            Funds(t) == \A p \in Transactions[t].ins :
                             is_in_wallet(previous_output(p).to)
        IN  /\ {[txid |-> r.tx_id, height |-> r.height] : r \in ToSet(rows)} = WalletItems
            /\ rows # <<>> => rows[1].balance = WalletUnspent
            /\ \A r \in ToSet(rows) : Funds(r.tx_id) =>
                 r.funding_amount = SumFunction([k \in Outside(r.tx_id) |->
                                                   Transactions[r.tx_id].outs[k].value])

(* No transaction has two rows, even if the chain changed during the call  *)
(* so that two addresses list it at different heights (the ahi_set of      *)
(* refresh_all_history and refresh_all_history_bulk).                      *)
RowsOnce ==
    result.op \in {"rows", "bulk_rows"} =>
        \A i, j \in DOMAIN result.value :
            result.value[i].tx_id = result.value[j].tx_id => i = j

(* The running balance of the topmost row of a block is what the wallet    *)
(* held after that block: sort_all_history puts the rows in the order of   *)
(* the chain, although ids order the rows within a block.  The exception   *)
(* is height -1, which sorts below every block and counts into all.        *)
BlockBalances ==
    result.op \in {"rows", "bulk_rows"} /\ calm /\ (\A t \in Txids : height[t] # -1) =>
        LET rows == result.value IN
        \A i \in DOMAIN rows :
            (rows[i].height > 0 /\ (i > 1 => rows[i - 1].height # rows[i].height)) =>
                rows[i].balance = Holds({t \in Txids : height[t] \in 1..rows[i].height})

(* calculate_confirmed_balance and unconfirmed_txs_wallet_impact split     *)
(* what the wallet holds between them: each transaction counts in one.     *)
SplitExact ==
    LET Impact(pending) ==
            SumFunction([i \in {j \in WalletItems : (j.height = 0) = pending} |->
                           calculate_tx_wallet_impact(i.txid).balance_delta])
    IN  calm =>
          /\ result.op = "confirmed" =>
               result.value = (WalletUnspent - Impact(TRUE)) % Modulus
          /\ result.op = "unconfirmed" =>
               result.value = WalletUnspent - Impact(FALSE)

(* A coinbase is the one transaction the inspector cannot show: each call  *)
(* that resolves the inputs of confirmed transactions ends in an exception *)
(* if and only if one has paid the wallet, whichever caches it read, and   *)
(* the calls for unconfirmed amounts never do.                             *)
CoinbaseThrows ==
    LET resolving == {"scan_balances", "rows", "bulk_rows", "confirmed"} IN
    calm /\ call = Idle =>
        /\ result.op \in resolving => ~Unreadable(WalletItems)
        /\ result.op = "exception" /\ result.of # "subscribe" =>
              result.of \in resolving /\ Unreadable(WalletItems)

(* "calculates wallet balance and provides itemised wallet history": after *)
(* a bulk refresh of all histories, and as long as the server does not     *)
(* change, the balances add up to what that history shows.  Height -1 is   *)
(* left aside: see BalancesExact.                                          *)
BalanceMatchesHistory ==
    result.op = "scan_balances" /\ shown # Outdated /\ (\A t \in Txids : height[t] # -1) =>
        SumFunction([i \in DOMAIN Addresses |-> result.value[i]]) = shown
=============================================================================
