------------------------------- MODULE Session -------------------------------
(***************************************************************************)
(* The life of a RonghuaClient from init to stop or do_interrupt: who runs *)
(* io_context_, which handlers are pending in it, and when its receiving   *)
(* loop (module SocketReader) starts and ends.                             *)
(*                                                                         *)
(* init runs io_context_ on its caller's thread until connecting and the   *)
(* TLS handshake are over, whatever their outcome, then starts the loop on *)
(* a thread of its own.  stop and do_interrupt come from other threads at  *)
(* any time once client_ exists; each is two steps.  init is called once   *)
(* with success: a second RonghuaSocketClient would be destroyed under its *)
(* own handlers.                                                           *)
(***************************************************************************)
EXTENDS SocketReader

VARIABLES
    init_at,     \* where init is: "new", "false" (it returned false or threw),
                 \* "running" (inside io_context_->run), "ran", "read" (inside
                 \* run_receiving_loop), "true" (it returned true)
    link,        \* "none", "connecting", "handshaking", "secure" or "failed"
    stopped,     \* io_context_->stopped()
    io,          \* the loop's thread is inside io_context_->run
    poisoned,    \* do_interrupt has returned
    stopping,    \* stop: "no", "closed" (the socket) or "returned"
    subscribed,  \* electrum_error_callbacks_ is not empty
    told         \* a callback was given an error of connect or handshake

reader == vars
life == <<init_at, link, stopped, io, poisoned, stopping, subscribed, told>>
sessionVars == <<reader, life>>

SessionInit ==
    /\ ends = <<>> /\ open = TRUE
    /\ rpos = 0 /\ start = 0 /\ parsed = <<>> /\ errors = 0
    /\ reading = FALSE /\ interrupt_requested_ = FALSE
    /\ init_at = "new" /\ link = "none" /\ stopped = FALSE /\ io = FALSE
    /\ poisoned = FALSE /\ stopping = "no"
    /\ subscribed = FALSE /\ told = FALSE

NoClient == init_at \in {"new", "false"}
Connecting == link \in {"connecting", "handshaking"}

(* Handlers run while some thread is inside run and nobody has stopped it; *)
(* run returns when it is stopped or when no operation is pending.         *)
Running == (init_at = "running" \/ io) /\ ~stopped
RunIsOver == stopped \/ ~(Connecting \/ reading)

-----------------------------------------------------------------------------
(* The application, before init: later calls would race with push_error.   *)
subscribe_to_error_events ==
    /\ NoClient /\ subscribed' = TRUE
    /\ UNCHANGED <<reader, init_at, link, stopped, io, poisoned, stopping, told>>
clear_error_events_subscriptions ==
    /\ NoClient /\ subscribed' = FALSE
    /\ UNCHANGED <<reader, init_at, link, stopped, io, poisoned, stopping, told>>

(* init: the host cannot be resolved, or load_verify_file throws.          *)
ResolveFails ==
    /\ NoClient /\ init_at' = "false"
    /\ UNCHANGED <<reader, link, stopped, io, poisoned, stopping, subscribed, told>>

(* init up to io_context_->run: the constructor of RonghuaSocketClient     *)
(* begins to connect.                                                      *)
init ==
    /\ NoClient /\ init_at' = "running" /\ link' = "connecting"
    /\ UNCHANGED <<reader, stopped, io, poisoned, stopping, subscribed, told>>

(* The handlers of connect and handshake.                                  *)
Connected ==
    /\ Running /\ link = "connecting" /\ stopping = "no"
    /\ link' = "handshaking"
    /\ UNCHANGED <<reader, init_at, stopped, io, poisoned, stopping, subscribed, told>>
HandshakeDone ==
    /\ Running /\ link = "handshaking" /\ stopping = "no"
    /\ link' = "secure"
    /\ UNCHANGED <<reader, init_at, stopped, io, poisoned, stopping, subscribed, told>>

(* Faulty variant of ConnectionFails: the handler ignores the error.       *)
ConnectionFailsUntold ==
    /\ Running /\ Connecting
    /\ link' = "failed" /\ open' = FALSE
    /\ UNCHANGED <<ends, rpos, start, parsed, errors, reading, interrupt_requested_,
                   init_at, stopped, io, poisoned, stopping, subscribed, told>>

(* Either handler with an error: push_error calls every callback.          *)
ConnectionFails ==
    /\ Running /\ Connecting
    /\ link' = "failed" /\ open' = FALSE
    /\ told' = subscribed
    /\ UNCHANGED <<ends, rpos, start, parsed, errors, reading, interrupt_requested_,
                   init_at, stopped, io, poisoned, stopping, subscribed>>

(* io_context_->run returns to init.                                       *)
RunReturns ==
    /\ init_at = "running" /\ RunIsOver
    /\ init_at' = "ran" /\ stopped' = TRUE
    /\ UNCHANGED <<reader, link, io, poisoned, stopping, subscribed, told>>

(* run_receiving_loop: its async_read, then restart and the thread.        *)
FirstRead ==
    /\ init_at = "ran" /\ async_read
    /\ init_at' = "read"
    /\ UNCHANGED <<ends, open, rpos, start, parsed, errors, interrupt_requested_,
                   link, stopped, io, poisoned, stopping, subscribed, told>>

(* Faulty variants of run_receiving_loop: the context is not restarted, so *)
(* that run returns at once; run is called on init's own thread.           *)
run_receiving_loopStopped ==
    /\ init_at = "read" /\ init_at' = "true"
    /\ io' = stopped
    /\ UNCHANGED <<reader, link, stopped, poisoned, stopping, subscribed, told>>
run_receiving_loopInCaller ==
    /\ init_at = "read" /\ stopped' = FALSE /\ io' = TRUE
    /\ UNCHANGED <<reader, init_at, link, poisoned, stopping, subscribed, told>>

run_receiving_loop ==
    /\ init_at = "read" /\ init_at' = "true"
    /\ stopped' = FALSE /\ io' = stopped
    /\ UNCHANGED <<reader, link, poisoned, stopping, subscribed, told>>

(* io_context_->run returns on the loop's thread, which ends.              *)
LoopEnds ==
    /\ io /\ RunIsOver
    /\ io' = FALSE /\ stopped' = TRUE
    /\ UNCHANGED <<reader, init_at, link, poisoned, stopping, subscribed, told>>

-----------------------------------------------------------------------------
(* The receiving loop.  The server writes only what it is asked for, by    *)
(* calls that follow init.                                                 *)
Write(size) ==
    /\ init_at = "true" /\ link = "secure"
    /\ ServerWrite(size) /\ UNCHANGED life
Hangup == link # "none" /\ ServerClose /\ UNCHANGED life
Handler == Running /\ stopping = "no" /\ Reading /\ UNCHANGED life
ErrorHandler == Running /\ do_read_error /\ UNCHANGED life

(* do_interrupt: the flag, then the poison message and io_context_->stop.  *)
InterruptRequested == ~NoClient /\ RequestInterrupt /\ UNCHANGED life

(* Faulty variant of do_interrupt: the context is not stopped.             *)
do_interruptRunning ==
    /\ interrupt_requested_ /\ ~poisoned /\ poisoned' = TRUE
    /\ UNCHANGED <<reader, init_at, link, stopped, io, stopping, subscribed, told>>

do_interrupt ==
    /\ interrupt_requested_ /\ ~poisoned /\ poisoned' = TRUE
    /\ stopped' = TRUE
    /\ UNCHANGED <<reader, init_at, link, io, stopping, subscribed, told>>

(* stop: the socket is closed, whose pending operations fail, and then the *)
(* context is stopped.                                                     *)
Close ==
    /\ ~NoClient /\ stopping = "no" /\ stopping' = "closed"
    /\ open' = FALSE
    /\ UNCHANGED <<ends, rpos, start, parsed, errors, reading, interrupt_requested_,
                   init_at, link, stopped, io, poisoned, subscribed, told>>

(* Faulty variant of stop: only the socket is closed.                      *)
stopSocketOnly ==
    /\ stopping = "closed" /\ stopping' = "returned"
    /\ UNCHANGED <<reader, init_at, link, stopped, io, poisoned, subscribed, told>>

stop ==
    /\ stopping = "closed" /\ stopping' = "returned"
    /\ stopped' = TRUE
    /\ UNCHANGED <<reader, init_at, link, io, poisoned, subscribed, told>>

-----------------------------------------------------------------------------
Handlers == Handler \/ ErrorHandler
Steps == RunReturns \/ FirstRead \/ run_receiving_loop \/ LoopEnds

SessionNext ==
    \/ subscribe_to_error_events \/ clear_error_events_subscriptions
    \/ ResolveFails \/ init
    \/ Connected \/ HandshakeDone \/ ConnectionFails
    \/ RunReturns \/ FirstRead \/ run_receiving_loop \/ LoopEnds
    \/ \E size \in Sizes : Write(size)
    \/ Hangup \/ Handler \/ ErrorHandler
    \/ InterruptRequested \/ do_interrupt \/ Close \/ stop

SessionSpec == SessionInit /\ [][SessionNext]_sessionVars

(* Threads go on, stop and do_interrupt do not halt half way, a read that  *)
(* can complete does, and an attempt to connect ends.  Nothing bounds the  *)
(* handshake: a server that stays silent leaves it pending, until stop     *)
(* closes the socket and with it fails what is pending there.              *)
FairSession ==
    /\ SessionSpec
    /\ WF_sessionVars(Steps) /\ WF_sessionVars(Handler) /\ WF_sessionVars(ErrorHandler)
    /\ WF_sessionVars(do_interrupt) /\ WF_sessionVars(stop)
    /\ WF_sessionVars(link = "connecting" /\ (Connected \/ ConnectionFails))
    /\ WF_sessionVars(stopping # "no" /\ ConnectionFails)

-----------------------------------------------------------------------------
(* Properties.                                                             *)

(* A client that does not exist has no socket and cannot be stopped or     *)
(* interrupted; only somebody who subscribed is told, of what failed.      *)
LifeTypeOK ==
    /\ init_at \in {"new", "false", "running", "ran", "read", "true"}
    /\ link \in {"none", "connecting", "handshaking", "secure", "failed"}
    /\ stopping \in {"no", "closed", "returned"}
    /\ stopped \in BOOLEAN /\ io \in BOOLEAN /\ poisoned \in BOOLEAN
    /\ subscribed \in BOOLEAN /\ told \in BOOLEAN
    /\ NoClient <=> link = "none"
    /\ NoClient => ~reading /\ ~interrupt_requested_ /\ stopping = "no"
    /\ poisoned => interrupt_requested_
    /\ told => link = "failed" /\ subscribed

(* The type invariant of the session: of its life and of its reader.       *)
SessionTypeOK == TypeOK /\ LifeTypeOK

(* init also returns true when connecting failed: an application that      *)
(* subscribed to error events has then been told.  It never returns in the *)
(* middle of connecting, unless stop or do_interrupt cut it short.         *)
NoSilentFailure ==
    /\ link = "failed" /\ subscribed => told
    /\ init_at = "true" /\ Connecting => interrupt_requested_ \/ stopping # "no"

(* Every message the server wrote is read, parsed and pushed on the thread *)
(* that run_receiving_loop starts, although run has left the context       *)
(* stopped before the first read is issued.                                *)
EveryMessageParsed ==
    \A k \in 1..MaxMessages :
        Len(ends) >= k ~>
            Len(parsed) >= k \/ interrupt_requested_ \/ stopping # "no"

(* init returns once the server has taken part in the handshake, and also  *)
(* in the middle of a silent handshake when stop or do_interrupt is called.*)
InitReturns ==
    /\ init_at = "running" ~> init_at = "true" \/ link = "handshaking"
    /\ init_at = "running" /\ (stopping # "no" \/ interrupt_requested_)
          ~> init_at = "true"

(* After do_interrupt the loop's thread ends.  When the call falls between *)
(* the first read and the restart, which undoes the stop of the context,   *)
(* it may take until the server sends something or closes.                 *)
InterruptEnds ==
    /\ interrupt_requested_ /\ ~poisoned /\ init_at = "true" ~> ~io
    /\ interrupt_requested_ ~>
          \/ init_at = "true" /\ ~io
          \/ link = "handshaking"
          \/ reading /\ open /\ rpos = Written

(* stop ends the loop once init has returned, although the closed socket   *)
(* makes every read fail and every failed read issues another.  When it    *)
(* falls between the first read and the restart, which undoes the stop of  *)
(* the context, the loop may instead go round on failing reads, each of    *)
(* which is told to the callbacks; it never just stays there.              *)
StopEnds ==
    /\ stopping = "closed" /\ init_at = "true" ~> ~io
    /\ stopping = "closed" ~>
          \/ init_at = "true" /\ ~io
          \/ errors = MaxErrors
=============================================================================
