---------------------------- MODULE SocketReader ----------------------------
(***************************************************************************)
(* The receiving loop of RonghuaSocketClient: do_read is called with some  *)
(* bytes of the stream, adds them to oss, and pushes a message when the    *)
(* whole of oss is one JSON text.                                          *)
(*                                                                         *)
(* Bytes are positions in the stream.  Message k ends at End(k); its last  *)
(* byte is the newline the server ends it with, the ones before are the    *)
(* JSON text.  oss always holds the bytes start+1 .. rpos, so the two      *)
(* positions stand for it.  JSON white space may surround a text, and no   *)
(* proper prefix of an object is one, so oss parses exactly when it is the *)
(* text of one message with at most the newlines around it.                *)
(***************************************************************************)
EXTENDS Integers, Sequences

CONSTANTS
    RecordAligned,  \* TRUE: no read returns bytes of two messages, as when
                    \* the peer puts every message in a TLS record of its own
    BufSize,        \* the size of buf (512 in the code)
    Sizes,          \* bound: the lengths of messages, newline included
    MaxMessages,    \* bound: messages the server writes
    MaxErrors       \* bound: error events

ASSUME ReaderAssumption ==
    /\ RecordAligned \in BOOLEAN
    /\ BufSize \in Nat \ {0}
    /\ Sizes \subseteq Nat /\ \A n \in Sizes : n >= 3
    /\ MaxMessages \in Nat /\ MaxErrors \in Nat

VARIABLES
    ends,     \* ends[k] = End(k) for the messages written so far
    open,     \* the peer has not closed the connection
    rpos,     \* bytes read from the socket
    start,    \* bytes dropped from oss
    parsed,   \* the messages pushed to queue_, in order
    errors,   \* error events of reads pushed to the callbacks
    reading,  \* an async_read_some is pending
    interrupt_requested_

vars == <<ends, open, rpos, start, parsed, errors, reading,
          interrupt_requested_>>

End(k) == IF k = 0 THEN 0 ELSE ends[k]
Written == End(Len(ends))

(* run_receiving_loop has issued the first async_read; how the connection  *)
(* comes about and ends is module Session.                                 *)
Init ==
    /\ ends = <<>> /\ open = TRUE
    /\ rpos = 0 /\ start = 0 /\ parsed = <<>> /\ errors = 0
    /\ reading = TRUE /\ interrupt_requested_ = FALSE

-----------------------------------------------------------------------------
ServerWrite(size) ==
    /\ open /\ Len(ends) < MaxMessages
    /\ ends' = Append(ends, Written + size)
    /\ UNCHANGED <<open, rpos, start, parsed, errors, reading,
                   interrupt_requested_>>

ServerClose ==
    /\ open /\ open' = FALSE
    /\ UNCHANGED <<ends, rpos, start, parsed, errors, reading,
                   interrupt_requested_>>

(* The first statement of RonghuaClient::do_interrupt.                     *)
RequestInterrupt ==
    /\ ~interrupt_requested_ /\ interrupt_requested_' = TRUE
    /\ UNCHANGED <<ends, open, rpos, start, parsed, errors, reading>>

(* async_read at the end of do_read.                                       *)
async_read == reading' = ~interrupt_requested_

(* The bytes from+1 .. to are the text of message k.                       *)
IsText(k, from, to) ==
    /\ from \in {End(k - 1) - 1, End(k - 1)}
    /\ to \in {End(k) - 1, End(k)}

(* Faulty variant of CanRead: the handler takes the whole buffer instead   *)
(* of the bytes transferred.                                               *)
CanReadWholeBuffer(n) == n = BufSize /\ rpos < Written

(* How many bytes a read may return: what is there, at most the buffer,    *)
(* and with one message per record nothing beyond the end of a message.    *)
CanRead(n) ==
    /\ n \in 1..BufSize /\ rpos + n <= Written
    /\ RecordAligned =>
         \A k \in 1..Len(ends) : ~(rpos < End(k) /\ End(k) < rpos + n)

(* Faulty variant of do_read: oss is not emptied after a message.          *)
do_readKeeping(n) ==
    /\ reading /\ CanRead(n)
    /\ rpos' = rpos + n
    /\ \/ \E k \in 1..Len(ends) :
            /\ IsText(k, start, rpos + n)
            /\ parsed' = Append(parsed, k)
       \/ /\ \A k \in 1..Len(ends) : ~IsText(k, start, rpos + n)
          /\ UNCHANGED parsed
    /\ reading' = ~interrupt_requested_
    /\ UNCHANGED <<start, ends, open, errors, interrupt_requested_>>

(* Faulty variant of do_read: a text that does not parse is thrown away.   *)
do_readDropping(n) ==
    /\ reading /\ CanRead(n)
    /\ rpos' = rpos + n
    /\ start' = rpos + n
    /\ \/ \E k \in 1..Len(ends) :
            IsText(k, start, rpos + n) /\ parsed' = Append(parsed, k)
       \/ /\ \A k \in 1..Len(ends) : ~IsText(k, start, rpos + n)
          /\ UNCHANGED parsed
    /\ reading' = ~interrupt_requested_
    /\ UNCHANGED <<ends, open, errors, interrupt_requested_>>

do_read(n) ==
    /\ reading /\ CanRead(n)
    /\ rpos' = rpos + n
    /\ \/ \E k \in 1..Len(ends) :
            /\ IsText(k, start, rpos + n)
            /\ parsed' = Append(parsed, k)
            /\ start' = rpos + n
       \/ /\ \A k \in 1..Len(ends) : ~IsText(k, start, rpos + n)
          /\ UNCHANGED <<parsed, start>>
    /\ async_read
    /\ UNCHANGED <<ends, open, errors, interrupt_requested_>>

(* do_read with an error and no bytes: the callbacks are told, and the     *)
(* read is issued again.                                                   *)
do_read_error ==
    /\ reading /\ ~open /\ errors < MaxErrors
    /\ errors' = errors + 1
    /\ async_read
    /\ UNCHANGED <<ends, open, rpos, start, parsed, interrupt_requested_>>

-----------------------------------------------------------------------------
Reading == \E n \in 1..BufSize : do_read(n)

Next ==
    \/ \E size \in Sizes : ServerWrite(size)
    \/ ServerClose \/ RequestInterrupt
    \/ Reading \/ do_read_error

Spec == Init /\ [][Next]_vars

-----------------------------------------------------------------------------
(* Properties.                                                             *)

(* The type invariant: oss is a stretch of what was read, and no more is   *)
(* read than the server wrote.                                             *)
TypeOK ==
    /\ ends \in Seq(Nat) /\ open \in BOOLEAN
    /\ rpos \in Nat /\ start \in Nat /\ start <= rpos /\ rpos <= Written
    /\ parsed \in Seq(Nat) /\ errors \in Nat
    /\ reading \in BOOLEAN /\ interrupt_requested_ \in BOOLEAN

(* The messages reach RonghuaInputQueue complete, once each and in the     *)
(* order in which the server wrote them, however reads cut the stream.     *)
ParsedInOrder == \A i \in 1..Len(parsed) : parsed[i] = i

(* "not yet parsable, keep reading": when do_read leaves text in oss it is *)
(* an incomplete beginning of the next message, which the bytes still to   *)
(* come will complete.                                                     *)
NotYetParsable ==
    Len(parsed) < Len(ends) => rpos < End(Len(parsed) + 1) - 1
=============================================================================
