------------------------------- MODULE Updates -------------------------------
(***************************************************************************)
(* The way of a notification from the socket to the screen: the thread of  *)
(* io_context_ pushes it to RonghuaInputQueue, where a listener waits for  *)
(* it beside a thread that waits for replies; the listener brings the      *)
(* balances up to date and pushes them to balance_queue_, from which the   *)
(* viewers take them.  do_interrupt ends the listener with a message that  *)
(* is no update.                                                           *)
(*                                                                         *)
(* The listener and the viewers are threads of the application (external): *)
(* they call get_subscription_event and get_balance_update in a loop.  The *)
(* queues of histories and history hashes are used in the same way.        *)
(***************************************************************************)
EXTENDS InputQueue

CONSTANTS
    Listener,    \* the popper that calls get_subscription_event
    Interrupter, \* the pusher that calls do_interrupt
    Viewers      \* the threads that call get_balance_update

VARIABLES balance_queue_, viewer, shown, telling

balances == <<balance_queue_, viewer, shown, telling>>
updatesVars == <<vars, balances>>

(* Balances are known by the update they follow, the first ones by 0.      *)
UpdateMessages == {m \in Messages : m.method = "update"}
Scans == {0} \cup {m.n : m \in UpdateMessages}

Balance == INSTANCE BlockingQueue WITH
    Poppers <- Viewers, Pushers <- {Listener}, Values <- Scans,
    queue_ <- balance_queue_, pc <- viewer, got <- shown, notifying <- telling

ASSUME UpdatesAssumption ==
    /\ Listener \in Poppers /\ Interrupter \in Pushers
    /\ \A m \in Messages : m.method \in {"update", "reply", ""}
                           /\ (m.has_correlation_id <=> m.method = "reply")

UpdatesInit ==
    /\ Init /\ Balance!Init
    /\ \A t \in Poppers : (want[t].ids = <<-1>>) = (t = Listener)

-----------------------------------------------------------------------------
is_scripthash_update(m) == m.method = "update"

(* The poison message of do_interrupt has neither a method nor an id.      *)
IsPoison(m) == ~m.has_correlation_id /\ ~is_scripthash_update(m)

do_interrupt ==
    \E m \in Messages :
        IsPoison(m) /\ push(Interrupter, m) /\ UNCHANGED balances

(* do_read on the thread of io_context_; updates are numbered as they come *)
Receive(p, m) ==
    /\ p # Interrupter /\ ~IsPoison(m)
    /\ \A u \in UpdateMessages \ pushed : is_scripthash_update(m) => m.n <= u.n
    /\ push(p, m) /\ UNCHANGED balances

Event == ret[Listener][1]

(* The listener scans the balances once, then listens: get_subscription_   *)
(* event, again after every update.  A request of another thread.          *)
Scanned == balance_queue_ # <<>> \/ \E v \in Viewers : shown[v] # <<>>
FirstScan ==
    /\ ~Scanned /\ Balance!push(Listener, 0) /\ UNCHANGED vars
Listen ==
    /\ Scanned /\ telling = {} /\ Call(Listener) /\ UNCHANGED balances
Request(t) == t # Listener /\ Call(t) /\ UNCHANGED balances

(* The listener has an update: it scans the balances (WalletState, on one  *)
(* thread) and pushes them.                                                *)
scan_balances ==
    /\ pc[Listener] = "returned" /\ is_scripthash_update(Event)
    /\ Balance!push(Listener, Event.n)
    /\ Done(Listener)

(* push_balance_update returns when it has notified.                       *)
push_balance_update == Balance!notify_one(Listener) /\ UNCHANGED vars

get_balance_update(v) == Balance!pop(v) /\ UNCHANGED vars

Inside == \/ \E t \in Poppers : PopperStep(t) /\ UNCHANGED balances
          \/ \E p \in Pushers : notify_all(p) /\ UNCHANGED balances
          \/ \E v \in Viewers : Balance!PopperStep(v) /\ UNCHANGED vars

UpdatesNext ==
    \/ \E p \in Pushers, m \in Messages : Receive(p, m)
    \/ do_interrupt
    \/ FirstScan \/ Listen \/ scan_balances \/ push_balance_update
    \/ \E t \in Poppers : Request(t)
    \/ \E v \in Viewers : get_balance_update(v)
    \/ Inside

(* A thread that can take a lock goes on, a push is followed by its        *)
(* notification, and the loops of the listener and the viewers go round.   *)
UpdatesSpec ==
    /\ UpdatesInit /\ [][UpdatesNext]_updatesVars
    /\ \A t \in Poppers :
         /\ WF_updatesVars(Check(t) /\ UNCHANGED balances)
         /\ WF_updatesVars(ReturnExpired(t) /\ UNCHANGED balances)
    /\ \A p \in Pushers : WF_updatesVars(notify_all(p) /\ UNCHANGED balances)
    /\ WF_updatesVars(FirstScan \/ Listen \/ scan_balances \/ push_balance_update)
    /\ \A v \in Viewers :
         WF_updatesVars(get_balance_update(v) \/ (Balance!Check(v) /\ UNCHANGED vars))

-----------------------------------------------------------------------------
(* Properties.                                                             *)

Interrupted == \E m \in pushed : IsPoison(m)

(* blocking_queue implements a first-in first-out channel, its liveness    *)
(* included: one notification per value is enough, although it comes after *)
(* the lock was released and the thread it wakes may find the value gone.  *)
ImplementsChannel == Balance!Abstract!Spec

(* Every notification the loop has pushed reaches a viewer as new balances *)
(* unless the listener is interrupted; the listener is never left asleep   *)
(* while its message waits, with requests asleep on the same condition.    *)
UpdatesShown ==
    \A m \in UpdateMessages :
        m \in pushed ~> Interrupted \/ \E v \in Viewers : m.n \in ToSet(shown[v])

(* do_interrupt ends the listener wherever it is: asleep, about to sleep,  *)
(* or busy with an update.                                                 *)
PoisonEndsListener ==
    Interrupted ~> pc[Listener] = "returned" /\ IsPoison(Event)
=============================================================================
