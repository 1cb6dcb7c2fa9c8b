-------------------------------- MODULE Purse --------------------------------
(***************************************************************************)
(* PurseAccessor: which address of a wallet can pay for an amount, with    *)
(* which of its unspent outputs.  Every call goes through the addresses    *)
(* one by one and asks a server about each.  Balances come from an         *)
(* Electrum server, and are the confirmed ones only; outputs come from a   *)
(* libbitcoin server.  The chain may change between any two requests, and  *)
(* each server learns of it in its own time.  The maps address_to_balance  *)
(* and address_to_utxos belong to the caller, who passes them from one     *)
(* call to the next.                                                       *)
(***************************************************************************)
EXTENDS FundsFinder, FiniteSets

CONSTANTS
    Addresses,   \* the wallet's addresses, a sequence
    Requests,    \* bound: values of requested_funds
    Wallets,     \* bound: initial sets of unspent outputs [id, owner, value]
    Coins,       \* bound: values of outputs received later
    MaxChanges   \* bound: outputs received and spent

Outputs == [id : Int, owner : ToSet(Addresses), value : 0 .. Modulus - 1]

ASSUME PurseAssumption ==
    /\ Addresses \in Seq(ToSet(Addresses))
    /\ \A w \in Wallets : w \subseteq Outputs /\ IsFiniteSet(w)
    /\ \A w \in Wallets : \A u \in w : u.id <= 0
    /\ Requests \cup Coins \subseteq 0 .. Modulus - 1 /\ MaxChanges \in Nat

VARIABLES
    unspent,            \* the unspent outputs of the wallet
    confirmed,          \* those the Electrum server counts as confirmed
    listed,             \* those the libbitcoin server lists
    changes,            \* outputs received and spent so far
    address_to_balance, \* a partial function on addresses
    address_to_utxos,   \* a partial function on addresses
    call,               \* the call in progress, or Idle
    maxFunds,           \* its local variable
    result              \* what the last call returned

chain == <<unspent, confirmed, listed, changes>>
purse == <<address_to_balance, address_to_utxos>>
vars == <<chain, purse, call, maxFunds, result>>

Idle == [name |-> "idle"]
None == [none |-> TRUE]
Funds(address, requested, actual, points) ==
    [address |-> address, requested |-> requested, actual |-> actual,
     points |-> points]
FundsInfo(address, requested, actual) ==
    [address |-> address, requested |-> requested, actual |-> actual]
NoFunds == Funds("", 0, 0, <<>>)
Exception(what) == [exception |-> what]

Init ==
    /\ unspent \in Wallets /\ changes = 0
    /\ confirmed = unspent /\ listed = unspent
    /\ address_to_balance = <<>> /\ address_to_utxos = <<>>
    /\ call = Idle /\ maxFunds = NoFunds /\ result = None

(* What the two servers know of an address.                                *)
Owned(a) == {u \in listed : u.owner = a}
Confirmed(a) == {u \in confirmed : u.owner = a}
Worth(utxos) ==
    LET s == individual(utxos, 0)
        sum[i \in 0..Len(s)] == IF i = 0 THEN 0 ELSE sum[i - 1] + s[i].value
    IN  sum[Len(s)]

\* The address a call is at, and the map f after f[x] = v.
Here == Addresses[call.next]
Put(f, x, v) == [y \in DOMAIN f \cup {x} |-> IF y = x THEN v ELSE f[y]]

-----------------------------------------------------------------------------
(* The start of a call, its return, and the step to the next address.      *)
Begin(name, requested) ==
    /\ call = Idle
    /\ call' = [name |-> name, requested |-> requested, next |-> 1,
                phase |-> "first"]
    /\ maxFunds' = NoFunds /\ result' = None
    /\ UNCHANGED <<chain, purse>>

Return(value) == call' = Idle /\ result' = value /\ UNCHANGED maxFunds

GoOn(funds) ==
    /\ maxFunds' = IF funds.actual >= maxFunds.actual THEN funds ELSE maxFunds
    /\ call' = [call EXCEPT !.next = @ + 1, !.phase = "first"]
    /\ UNCHANGED result

(* Faulty variant of obtain_funds: the funds it reports are the balance.   *)
obtain_fundsByBalance(requested, a) ==
    LET found == find_funds_points(requested, individual(Owned(a), requested))
    IN  Funds(a, requested, Worth(Owned(a)), found.utxos)

(* obtain_funds asks for outputs that are each worth the whole request.    *)
obtain_funds(requested, a) ==
    LET found == find_funds_points(requested, individual(Owned(a), requested))
    IN  Funds(a, requested, found.gathered, found.utxos)

(* Faulty variant of TryToObtain: what the first address has is returned,  *)
(* enough or not.                                                          *)
TryToObtainFirst == Return(obtain_funds(call.requested, Here))

TryToObtain ==
    LET funds == obtain_funds(call.requested, Here)
    IN  IF funds.actual >= call.requested THEN Return(funds) ELSE GoOn(funds)

(* One address of look_for_funds.                                          *)
look_for_funds ==
    /\ call.name = "look_for_funds"
    /\ TryToObtain
    /\ UNCHANGED purse

(* One address of look_for_funds_by_balance: getBalance, of which only the *)
(* confirmed part is looked at, and obtain_funds in a second request where *)
(* that suffices.                                                          *)
look_for_funds_by_balance ==
    /\ call.name = "look_for_funds_by_balance"
    /\ \/ /\ call.phase = "first"
          /\ LET balance == Worth(Confirmed(Here)) IN
             /\ address_to_balance' = Put(address_to_balance, Here, balance)
             /\ IF balance >= call.requested
                THEN /\ call' = [call EXCEPT !.phase = "obtain"]
                     /\ UNCHANGED <<maxFunds, result>>
                ELSE GoOn(Funds(Here, call.requested, balance, <<>>))
       \/ /\ call.phase = "obtain"
          /\ TryToObtain
          /\ UNCHANGED address_to_balance
    /\ UNCHANGED address_to_utxos

(* One address of scan_balances.                                           *)
scan_balances ==
    /\ call.name = "scan_balances"
    /\ address_to_balance' = Put(address_to_balance, Here, Worth(Confirmed(Here)))
    /\ call' = [call EXCEPT !.next = @ + 1]
    /\ UNCHANGED <<address_to_utxos, maxFunds, result>>

(* Faulty variant of find_utxos: the balance is not looked at.             *)
find_utxosUnasked ==
    /\ call.name = "find_utxos"
    /\ address_to_utxos' = Put(address_to_utxos, Here, individual(Owned(Here), 0))
    /\ call' = [call EXCEPT !.next = @ + 1]
    /\ UNCHANGED <<address_to_balance, maxFunds, result>>

(* One address of find_utxos: operator[] enters addresses it does not find,*)
(* and outputs that were found once are not looked for again.              *)
Balance == IF Here \in DOMAIN address_to_balance THEN address_to_balance[Here] ELSE 0
Known == IF Here \in DOMAIN address_to_utxos THEN address_to_utxos[Here] ELSE <<>>

find_utxos ==
    /\ call.name = "find_utxos"
    /\ address_to_balance' = Put(address_to_balance, Here, Balance)
    /\ address_to_utxos' =
         IF Balance = 0 THEN address_to_utxos
         ELSE Put(address_to_utxos, Here,
                  IF Known = <<>> THEN individual(Owned(Here), 1) ELSE Known)
    /\ call' = [call EXCEPT !.next = @ + 1]
    /\ UNCHANGED <<maxFunds, result>>

(* A step of a call at an address, the return after the last one (for the  *)
(* void functions maxFunds is NoFunds), and the exception when a request   *)
(* fails, which leaves behind the entry that find_utxos tested.            *)
NextAddress ==
    /\ call # Idle /\ call.next <= Len(Addresses)
    /\ \/ look_for_funds
       \/ look_for_funds_by_balance
       \/ scan_balances
       \/ find_utxos
    /\ UNCHANGED chain

AllSeen ==
    /\ call # Idle /\ call.next > Len(Addresses)
    /\ Return(maxFunds)
    /\ UNCHANGED <<chain, purse>>

RequestFails ==
    /\ call # Idle /\ call.next <= Len(Addresses)
    /\ IF call.name = "find_utxos"
       THEN /\ Balance > 0 /\ Known = <<>>
            /\ address_to_utxos' = Put(address_to_utxos, Here, <<>>)
       ELSE UNCHANGED address_to_utxos
    /\ Return(Exception("invalid_argument"))
    /\ UNCHANGED <<chain, address_to_balance>>

-----------------------------------------------------------------------------
(* maxFunds after the last address: a richest one, the last of several.    *)
Richest(requested) ==
    LET max[i \in 0..Len(Addresses)] ==
            IF i = 0 THEN FundsInfo("", 0, 0)
            ELSE IF address_to_balance[Addresses[i]] >= max[i - 1].actual
            THEN FundsInfo(Addresses[i], requested, address_to_balance[Addresses[i]])
            ELSE max[i - 1]
    IN  max[Len(Addresses)]

(* Faulty variant of look_for_address_with_balance: a richer address is    *)
(* preferred to the first one that has enough.                             *)
look_for_address_with_balanceRichest(requested) ==
    /\ call = Idle /\ ToSet(Addresses) \subseteq DOMAIN address_to_balance
    /\ result' = Richest(requested)
    /\ UNCHANGED <<chain, purse, call, maxFunds>>

(* look_for_address_with_balance asks no server: it stops at the first     *)
(* address that has enough, or that was never scanned (map::at throws).    *)
look_for_address_with_balance(requested) ==
    LET Unknown(a) == a \notin DOMAIN address_to_balance
        stops == {i \in 1..Len(Addresses) :
                    \/ Unknown(Addresses[i])
                    \/ address_to_balance[Addresses[i]] >= requested}
        at == Addresses[Min(stops)]
    IN  /\ call = Idle
        /\ result' = IF stops = {} THEN Richest(requested)
                     ELSE IF Unknown(at) THEN Exception("out_of_range")
                     ELSE FundsInfo(at, requested, address_to_balance[at])
        /\ UNCHANGED <<chain, purse, call, maxFunds>>

-----------------------------------------------------------------------------
(* The chain, and the servers that follow it one output at a time and in   *)
(* any order: a balance is confirmed, and an output listed, late.          *)
Receive(a, value) ==
    /\ changes < MaxChanges
    /\ unspent' = unspent \cup {[id |-> changes + 1, owner |-> a, value |-> value]}
    /\ changes' = changes + 1
    /\ UNCHANGED <<confirmed, listed, purse, call, maxFunds, result>>

Spend(u) ==
    /\ changes < MaxChanges
    /\ unspent' = unspent \ {u} /\ changes' = changes + 1
    /\ UNCHANGED <<confirmed, listed, purse, call, maxFunds, result>>

Missed(view) == (unspent \ view) \cup (view \ unspent)
Learn(view, u) == IF u \in unspent THEN view \cup {u} ELSE view \ {u}

Confirm(u) ==
    /\ confirmed' = Learn(confirmed, u)
    /\ UNCHANGED <<unspent, listed, changes, purse, call, maxFunds, result>>
List(u) ==
    /\ listed' = Learn(listed, u)
    /\ UNCHANGED <<unspent, confirmed, changes, purse, call, maxFunds, result>>

Next ==
    \/ \E name \in {"look_for_funds", "look_for_funds_by_balance",
                    "scan_balances", "find_utxos"}, requested \in Requests :
            Begin(name, requested)
    \/ NextAddress
    \/ AllSeen
    \/ RequestFails
    \/ \E requested \in Requests : look_for_address_with_balance(requested)
    \/ \E a \in ToSet(Addresses), value \in Coins : Receive(a, value)
    \/ \E u \in unspent : Spend(u)
    \/ \E u \in Missed(confirmed) : Confirm(u)
    \/ \E u \in Missed(listed) : List(u)

Spec == Init /\ [][Next]_vars

-----------------------------------------------------------------------------
(* Properties.                                                             *)

AddressFunds ==
    [address : ToSet(Addresses) \cup {""}, requested : Nat, actual : Nat,
     points : Seq(Outputs)]
AddressFundsInfo ==
    [address : ToSet(Addresses) \cup {""}, requested : Nat, actual : Nat]

(* The type invariant: the two maps are about the wallet's addresses, the  *)
(* outputs listed for an address are its own, and a call returns what its  *)
(* signature says or throws.                                               *)
TypeOK ==
    /\ unspent \subseteq Outputs /\ changes \in 0..MaxChanges
    /\ confirmed \subseteq Outputs /\ listed \subseteq Outputs
    /\ DOMAIN address_to_balance \subseteq ToSet(Addresses)
    /\ DOMAIN address_to_utxos \subseteq DOMAIN address_to_balance
    /\ \A a \in DOMAIN address_to_utxos :
         \A u \in ToSet(address_to_utxos[a]) : u.owner = a /\ u.value > 0
    /\ call = Idle \/ call.next \in 1 .. Len(Addresses) + 1
    /\ maxFunds \in AddressFunds
    /\ \/ result \in AddressFunds \cup AddressFundsInfo \cup {None}
       \/ result = Exception("invalid_argument") \/ result = Exception("out_of_range")

(* Funds that obtain_funds, look_for_funds or look_for_funds_by_balance    *)
(* return as enough come with outputs of that address which are worth      *)
(* them, and only then: what a balance promised is no substitute, even if  *)
(* it was spent between the two requests.                                  *)
FundsAreBacked ==
    "points" \in DOMAIN result /\ result.requested > 0 =>
        /\ result.actual >= result.requested <=> result.points # <<>>
        /\ result.points # <<>> =>
             /\ Total(result.points) = result.actual
             /\ \A u \in ToSet(result.points) : u.owner = result.address

(* look_for_address_with_balance returns the first address whose scanned   *)
(* balance is enough, and a richest one if there is none.                  *)
FirstOrRichest ==
    "actual" \in DOMAIN result /\ "points" \notin DOMAIN result =>
        LET Scanned(i) == address_to_balance[Addresses[i]]
            known  == {i \in DOMAIN Addresses :
                         Addresses[i] \in DOMAIN address_to_balance}
            enough == {i \in known : Scanned(i) >= result.requested}
        IN  IF enough # {}
            THEN /\ result.address = Addresses[Min(enough)]
                 /\ result.actual = Scanned(Min(enough))
            ELSE \A i \in known : Scanned(i) <= result.actual

(* On a chain that does not change and both servers know, a search for     *)
(* funds finds some if one output of the wallet is worth the request, at   *)
(* whichever address: the balance that is looked at first leaves none out. *)
SufficientOutputFound ==
    /\ "points" \in DOMAIN result /\ result.requested > 0 /\ changes = 0
    /\ \E u \in unspent : u.value >= result.requested
    => result.points # <<>>
=============================================================================
