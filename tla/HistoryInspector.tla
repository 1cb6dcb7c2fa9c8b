-------------------------- MODULE HistoryInspector --------------------------
(***************************************************************************)
(* The calculations of HistoryInspector on transactions and histories.     *)
(*                                                                         *)
(* A transaction is known by a number; children have larger numbers than   *)
(* their parents.  Its id, a hash, is in no such order: Hash gives the     *)
(* place of the id among all ids.  Its content never changes, so a         *)
(* transaction read from txid_2_txhex_cache_ is the one a server would     *)
(* return.                                                                 *)
(* A history item is [txid, height], where height is a block, 0 for an     *)
(* unconfirmed transaction and -1 for one with an unconfirmed parent.      *)
(***************************************************************************)
EXTENDS Integers, Sequences, SequencesExt

CONSTANTS
    Transactions,  \* a sequence of [ins, outs]: ins a set of outpoints
                   \* [tx, index], outs a sequence of [to, value]
    Hash,          \* the order of the transactions' ids
    Addresses,     \* the wallet's addresses, a sequence
    Modulus        \* 2^64

Txids == DOMAIN Transactions

ASSUME TransactionAssumption ==
    /\ Modulus \in Nat \ {0}
    /\ \A t \in Txids : Hash[t] \in Nat
    /\ \A t, u \in Txids : Hash[t] = Hash[u] => t = u
    /\ Transactions \in Seq(ToSet(Transactions)) /\ Addresses \in Seq(ToSet(Addresses))
    /\ \A t \in Txids :
         /\ Transactions[t].outs \in Seq(ToSet(Transactions[t].outs))
         /\ \A k \in DOMAIN Transactions[t].outs : Transactions[t].outs[k].value \in Nat
         /\ \A p \in Transactions[t].ins :
              /\ p = [tx |-> p.tx, index |-> p.index]
              /\ p.tx \in 1 .. t - 1 /\ p.index \in DOMAIN Transactions[p.tx].outs

(* A uint64_t holds more than all outputs together.                        *)
ASSUME MoneyAssumption ==
    SumFunction([t \in Txids |-> SumFunction([k \in DOMAIN Transactions[t].outs |->
                                                Transactions[t].outs[k].value])]) < Modulus

is_in_wallet(address) == address \in ToSet(Addresses)

(* append_funding_txs: the transactions a transaction spends from.  The    *)
(* input of a coinbase names a transaction of zeros, which does not exist; *)
(* load_txs_bulk and get_transaction fail for it.                          *)
NoTx == 0
append_funding_txs(t) ==
    IF Transactions[t].ins = {} THEN {NoTx} ELSE {p.tx : p \in Transactions[t].ins}
Unreadable(items) == \E i \in items : NoTx \in append_funding_txs(i.txid)

(* The output an input spends.                                             *)
previous_output(p) == Transactions[p.tx].outs[p.index]

(* analyse_tx_balances: a transaction with its inputs resolved.            *)
analyse_tx_balances(t) ==
    [tx_id   |-> t,
     inputs  |-> {[funding |-> p, value |-> previous_output(p).value,
                   address |-> previous_output(p).to] : p \in Transactions[t].ins},
     outputs |-> Transactions[t].outs]

(* Faulty variant of calc_address_balance: spends are taken off whatever   *)
(* output of the funding transaction they spend.                           *)
calc_address_balanceByTx(address, balance_items) ==
    LET Spends(pos) ==
            UNION {{i \in balance_items[j].inputs :
                      i.funding.tx = balance_items[pos].tx_id} :
                      j \in pos + 1 .. Len(balance_items)}
        Own(pos) == {k \in DOMAIN balance_items[pos].outputs :
                       balance_items[pos].outputs[k].to = address}
        Left(pos) == SumFunction([k \in Own(pos) |->
                         balance_items[pos].outputs[k].value
                         - SumFunction([i \in Spends(pos) |-> i.value])])
    IN  SumFunction([pos \in DOMAIN balance_items |-> Left(pos)]) % Modulus

(* calc_address_balance: each output to the address, less the inputs of    *)
(* LATER items that spend it.                                              *)
calc_address_balance(address, balance_items) ==
    LET Spends(pos, k) ==
            UNION {{i \in balance_items[j].inputs :
                      i.funding = [tx |-> balance_items[pos].tx_id, index |-> k]} :
                      j \in pos + 1 .. Len(balance_items)}
        Own(pos) == {k \in DOMAIN balance_items[pos].outputs :
                       balance_items[pos].outputs[k].to = address}
        Left(pos) == SumFunction([k \in Own(pos) |->
                         balance_items[pos].outputs[k].value
                         - SumFunction([i \in Spends(pos, k) |-> i.value])])
    IN  SumFunction([pos \in DOMAIN balance_items |-> Left(pos)]) % Modulus

(* calculate_address_balance on a history it was given.                    *)
address_balance(address, history, unconfirmed_only) ==
    LET counted == IF unconfirmed_only
                   THEN SelectSeq(history, LAMBDA item : item.height <= 0)
                   ELSE history
    IN  calc_address_balance(address,
            [i \in DOMAIN counted |-> analyse_tx_balances(counted[i].txid)])

(* calculate_tx_wallet_impact.  The delta is an int64_t, the amount a      *)
(* uint64_t that wraps unless the wallet funds the transaction.            *)
calculate_tx_wallet_impact(t) ==
    LET tx == analyse_tx_balances(t)
        Out(K) == SumFunction([k \in K |-> tx.outputs[k].value])
        In(I)  == SumFunction([i \in I |-> i.value])
        from_wallet == In({i \in tx.inputs : is_in_wallet(i.address)})
        to_wallet   == Out({k \in DOMAIN tx.outputs :
                              is_in_wallet(tx.outputs[k].to)})
        fee == In(tx.inputs) - Out(DOMAIN tx.outputs)
    IN  [balance_delta  |-> to_wallet - from_wallet,
         funding_amount |-> (from_wallet - to_wallet - fee) % Modulus]

(* Faulty variant of Before: the lowest block comes first.                 *)
BeforeAscending(lhs, rhs) ==
    IF lhs.height # rhs.height
    THEN \/ lhs.height = 0
         \/ rhs.height # 0 /\ lhs.height < rhs.height
    ELSE Hash[lhs.txid] > Hash[rhs.txid]

(* sort_all_history: unconfirmed first, then from the highest block down,  *)
(* which puts height -1 last; larger ids first within a height.            *)
Before(lhs, rhs) ==
    IF lhs.height # rhs.height
    THEN \/ lhs.height = 0
         \/ rhs.height # 0 /\ lhs.height > rhs.height
    ELSE Hash[lhs.txid] > Hash[rhs.txid]
sort_all_history(items) ==
    CHOOSE s \in SetToSeqs(items) : \A i, j \in DOMAIN s : i < j => Before(s[i], s[j])

(* Faulty variant of history_view_rows: running balances from the top.     *)
history_view_rowsFromTop(sorted_txs) ==
    LET Delta(i) == calculate_tx_wallet_impact(sorted_txs[i].txid).balance_delta
    IN  [i \in DOMAIN sorted_txs |->
           [tx_id |-> sorted_txs[i].txid, height |-> sorted_txs[i].height,
            balance_delta |-> Delta(i),
            funding_amount |->
                calculate_tx_wallet_impact(sorted_txs[i].txid).funding_amount,
            balance |-> SumFunction([j \in 1..i |-> Delta(j)]) % Modulus]]

(* The rows of create_history_view_rows: the balance of a row adds up the  *)
(* deltas from the last row to it.                                         *)
history_view_rows(sorted_txs) ==
    LET Impact(i) == calculate_tx_wallet_impact(sorted_txs[i].txid)
    IN  [i \in DOMAIN sorted_txs |->
           [tx_id |-> sorted_txs[i].txid, height |-> sorted_txs[i].height,
            balance_delta  |-> Impact(i).balance_delta,
            funding_amount |-> Impact(i).funding_amount,
            balance |-> SumFunction([j \in i..Len(sorted_txs) |->
                                       Impact(j).balance_delta]) % Modulus]]

(* Faulty variant of confirmed_balance: only positive heights count.       *)
confirmed_balancePositive(sorted_txs) ==
    SumFunction([i \in {j \in DOMAIN sorted_txs : sorted_txs[j].height > 0} |->
        calculate_tx_wallet_impact(sorted_txs[i].txid).balance_delta]) % Modulus

(* calculate_confirmed_balance, and unconfirmed_txs_wallet_impact, on the  *)
(* transactions they were given.                                           *)
confirmed_balance(sorted_txs) ==
    SumFunction([i \in {j \in DOMAIN sorted_txs : sorted_txs[j].height # 0} |->
        calculate_tx_wallet_impact(sorted_txs[i].txid).balance_delta]) % Modulus
unconfirmed_impact(sorted_txs) ==
    SumFunction([i \in {j \in DOMAIN sorted_txs : sorted_txs[j].height = 0} |->
        calculate_tx_wallet_impact(sorted_txs[i].txid).balance_delta])
=============================================================================
