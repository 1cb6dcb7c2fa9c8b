------------------------------- MODULE Payments -------------------------------
(***************************************************************************)
(* OnlineP2pkhTxCreator and OnlineLockTxCreator: a call reads the unspent  *)
(* outputs of the source address from a server, chooses the inputs with    *)
(* FundsFinder and builds a signed transaction, which the caller then      *)
(* broadcasts.  The chain, the servers and other wallets that hold the     *)
(* same keys are external; they may act between any two of these steps.    *)
(*                                                                         *)
(* Both creators do the same with funds; they differ in whom output 0 pays *)
(* and in the check of a target address.  What the script of a locked      *)
(* output means is module TimeLock.                                        *)
(***************************************************************************)
EXTENDS FundsFinder, FiniteSets

CONSTANTS
    Wallet,      \* addresses the caller has keys of
    Strangers,   \* other P2PKH addresses
    Calls,       \* bound: the arguments of calls
    Coins,       \* bound: values of outputs received
    MaxCoins,    \* bound: outputs ever created
    MaxMoney     \* supply: the unspent outputs are never worth more

(* The arguments of a call; a key that is not the source's is possible.    *)
Payment == [api : {"libbitcoin", "electrum"}, kind : {"p2pkh"},
            src : Wallet \cup {"malformed", "mistyped"}, key : Wallet,
            amount : 0 .. Modulus - 1, fee : 0 .. Modulus - 1,
            target : Wallet \cup Strangers \cup {"p2sh", "malformed"}]
(* Output 0 of a locking transaction goes to a script hash.                *)
ScriptHash == "script hash"
Locking == [api : {"libbitcoin", "electrum"}, kind : {"lock"},
            src : Wallet \cup {"malformed", "mistyped"}, key : Wallet,
            amount : 0 .. Modulus - 1, fee : 0 .. Modulus - 1,
            target : {ScriptHash}]

ASSUME PaymentAssumption ==
    /\ Calls \subseteq Payment \cup Locking
    /\ MaxMoney \in 0 .. Modulus - 1 /\ MaxCoins \in Nat
    /\ Coins \subseteq 0 .. MaxMoney
    /\ "mistyped" \notin Wallet

VARIABLES
    unspent,   \* the chain's unspent outputs, a set of [id, owner, value]
    made,      \* outputs created so far
    call,      \* the arguments of the last call, or None
    fetched,   \* what the server answered it, a list of unspent outputs
    held,      \* what the address it asked about held at that time
    draft,     \* the transaction it returned, or None
    reply      \* how the call, or the broadcast after it, ended

vars == <<unspent, made, call, fetched, held, draft, reply>>

None == [none |-> TRUE]

Init ==
    /\ unspent = {} /\ made = 0
    /\ call = None /\ fetched = <<>> /\ held = 0
    /\ draft = None /\ reply = "none"

Value(utxos) == MapThenSumSet(LAMBDA u : u.value, utxos)

-----------------------------------------------------------------------------
(* What the servers answer is about the outputs of an address.             *)
UtxosOf(address) == {u \in unspent : u.owner = address}
Held(address) == Value(UtxosOf(address))

(* construct_..._from_address(LibbClient, ...), up to the reply.           *)
FetchFromLibbitcoin(arguments) ==
    /\ arguments.api = "libbitcoin"
    /\ IF arguments.src \in Wallet
       THEN /\ fetched' \in Listings(UtxosOf(arguments.src), 1) /\ reply' = "fetched"
            /\ held' = Held(arguments.src)
       ELSE fetched' = <<>> /\ held' = 0 /\ reply' = "InvalidSourceAddress"

(* Faulty variant of FetchFromElectrum: the outputs of the key's address.  *)
FetchFromElectrumByKey(arguments) ==
    /\ arguments.api = "electrum" /\ arguments.src # "malformed"
    /\ fetched' = SetToSeq(UtxosOf(arguments.key)) /\ held' = Held(arguments.key)
    /\ reply' = "fetched"

(* construct_..._from_address(ElectrumInterface, ...), up to the reply.    *)
(* AddressConverter does not look at the checksum, so that a mistyped      *)
(* address has the outputs of any or of none; getUtxos takes an error of   *)
(* the server for an empty list.  The order of the list is the server's;   *)
(* find_funds takes all of it.                                             *)
FetchFromElectrum(arguments) ==
    /\ arguments.api = "electrum" /\ arguments.src # "malformed"
    /\ \E a \in Wallet : /\ arguments.src \in {a, "mistyped"}
                       /\ fetched' \in {SetToSeq(UtxosOf(a)), <<>>}
                       /\ held' = Held(a)
    /\ reply' = "fetched"

(* A request that fails throws, and so does AddressConverter when the      *)
(* address is not base58; the other overload has checked the address.      *)
FetchFails(arguments) ==
    /\ arguments.api = "electrum" \/ arguments.src \in Wallet
    /\ fetched' = <<>> /\ held' = 0 /\ reply' = "invalid_argument"

Fetch(arguments) ==
    /\ reply # "fetched"
    /\ call' = arguments /\ draft' = None
    /\ \/ FetchFromLibbitcoin(arguments)
       \/ FetchFromElectrum(arguments)
       \/ FetchFails(arguments)
    /\ UNCHANGED <<unspent, made>>

-----------------------------------------------------------------------------
satoshis_needed == (call.amount + call.fee) % Modulus

find_funds == IF call.api = "libbitcoin"
              THEN find_funds_points(satoshis_needed, fetched)
              ELSE find_funds_utxos(satoshis_needed, fetched)

(* do_construct_p2pkh_tx refuses a target that is P2SH or malformed.       *)
Refused == call.kind = "p2pkh" /\ call.target \notin Wallet \cup Strangers

(* Faulty variants of Transaction: the amount is not taken off the refund, *)
(* and the refund is dropped.                                              *)
TransactionGross(funds) ==
    [inputs  |-> ToSet(funds.utxos), signer |-> call.key,
     outputs |-> <<[owner |-> call.target, value |-> call.amount],
                   [owner |-> call.src,
                    value |-> (funds.gathered - call.fee) % Modulus]>>]
TransactionWithoutRefund(funds) ==
    [inputs  |-> ToSet(funds.utxos), signer |-> call.key,
     outputs |-> <<[owner |-> call.target, value |-> call.amount]>>]

(* do_construct_..._from_address after its checks: every chosen output is  *)
(* an input, output 0 pays the amount and output 1, if anything is left,   *)
(* goes back to the source.                                                *)
Transaction(funds) ==
    LET refund == (funds.gathered - satoshis_needed) % Modulus IN
    [inputs  |-> ToSet(funds.utxos), signer |-> call.key,
     outputs |-> <<[owner |-> call.target, value |-> call.amount]>>
                 \o IF refund > 0 THEN <<[owner |-> call.src, value |-> refund]>>
                    ELSE <<>>]

Construct ==
    /\ reply = "fetched"
    /\ LET funds == find_funds IN
       \/ /\ funds.utxos = <<>>
          /\ reply' = "InsufficientFunds" /\ UNCHANGED draft
       \/ /\ funds.utxos # <<>> /\ Refused
          /\ reply' = "InvalidTargetAddress" /\ UNCHANGED draft
       \/ /\ funds.utxos # <<>> /\ ~Refused /\ call.src \notin Wallet
          /\ reply' = "InvalidSourceAddress" /\ UNCHANGED draft
       \/ /\ funds.utxos # <<>> /\ ~Refused /\ call.src \in Wallet
          /\ draft' = Transaction(funds) /\ reply' = "constructed"
    /\ UNCHANGED <<unspent, made, call, fetched, held>>

-----------------------------------------------------------------------------
Created(t) == {[id |-> made + i, owner |-> t.outputs[i].owner,
                value |-> t.outputs[i].value] : i \in DOMAIN t.outputs}

(* The chain's rules for a transaction: the inputs are unspent and signed  *)
(* with their key, and no more is paid than they are worth.                *)
Accepts(t) ==
    /\ t.inputs # {} /\ t.inputs \subseteq unspent
    /\ \A u \in t.inputs : u.owner = t.signer
    /\ Value(Created(t)) <= Value(t.inputs)

(* The caller broadcasts the draft, once or again.                         *)
Broadcast ==
    /\ draft # None
    /\ \/ /\ Accepts(draft) /\ made + Len(draft.outputs) <= MaxCoins
          /\ unspent' = (unspent \ draft.inputs) \cup Created(draft)
          /\ made' = made + Len(draft.outputs) /\ reply' = "accepted"
       \/ /\ ~Accepts(draft)
          /\ reply' = "rejected" /\ UNCHANGED <<unspent, made>>
    /\ UNCHANGED <<call, fetched, held, draft>>

(* A payment arrives at an address of the wallet.                          *)
Receive(owner, value) ==
    /\ made < MaxCoins /\ Value(unspent) + value <= MaxMoney
    /\ unspent' = unspent \cup {[id |-> made + 1, owner |-> owner, value |-> value]}
    /\ made' = made + 1
    /\ UNCHANGED <<call, fetched, held, draft, reply>>

(* Another wallet with the same keys spends an output.                     *)
SpendElsewhere(u) ==
    /\ unspent' = unspent \ {u}
    /\ UNCHANGED <<made, call, fetched, held, draft, reply>>

-----------------------------------------------------------------------------
Next ==
    \/ \E arguments \in Calls : Fetch(arguments)
    \/ Construct
    \/ Broadcast
    \/ \E owner \in Wallet, value \in Coins : Receive(owner, value)
    \/ \E u \in unspent : SpendElsewhere(u)

Spec == Init /\ [][Next]_vars

-----------------------------------------------------------------------------
(* Properties.                                                             *)

(* The type invariant; it holds of the amounts on the chain only because   *)
(* no accepted transaction creates money.                                  *)
TypeOK ==
    /\ \A u \in unspent : u.id \in 1..made /\ u.value \in 0..MaxMoney
    /\ Value(unspent) <= MaxMoney
    /\ call \in Calls \cup {None}
    /\ \A u \in ToSet(fetched) : call.src \in {u.owner, "mistyped"}
    /\ reply = "constructed" => draft # None

(* What a call and its broadcast do to every address, however large the    *)
(* arguments are and whatever happened in between: the source pays the     *)
(* amount and the requested fee, the target gets the amount, nobody else   *)
(* gains or loses.                                                         *)
ExactPayment ==
    [][Broadcast /\ reply' = "accepted" =>
        \A a \in Wallet \cup Strangers \cup {ScriptHash} :
            Held(a)' = Held(a)
                       + (IF a = call.target THEN call.amount ELSE 0)
                       - (IF a = call.src THEN call.amount + call.fee ELSE 0)]_vars

(* A transaction that a creator returns is accepted by the chain as long   *)
(* as its inputs stay unspent, if it was given the key of the source and   *)
(* the sum of amount and fee fits a uint64_t.                              *)
ConstructedIsValid ==
    draft # None /\ draft.inputs \subseteq unspent
    /\ call.key = call.src /\ call.amount + call.fee < Modulus => Accepts(draft)

(* "if 1) empty means funds were not sufficient": the exception that an    *)
(* empty choice raises is thrown only when all that the address held does  *)
(* not pay for amount and fee, or when getUtxos read an error as an empty  *)
(* list.  Else it was a request for nothing: find_funds on points always   *)
(* meets it with an empty choice, find_funds on a vector only when no      *)
(* output has a value.                                                     *)
EmptyMeansInsufficient ==
    reply = "InsufficientFunds" =>
        \/ held < call.amount + call.fee
        \/ call.api = "electrum" /\ fetched = <<>> /\ held > 0
        \/ /\ call.amount + call.fee = 0
           /\ call.api = "libbitcoin" \/ held = 0
=============================================================================
