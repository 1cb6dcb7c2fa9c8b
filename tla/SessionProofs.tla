---------------------------- MODULE SessionProofs ----------------------------
(***************************************************************************)
(* The reader of SocketReader, for messages of any number and length and   *)
(* any buffer size, and what holds in every session, whatever init, stop,  *)
(* do_interrupt and the server do: the reader's theorems outlive its start *)
(* and its end, and no failure to connect goes unnoticed.                  *)
(***************************************************************************)
EXTENDS Session, TLAPS

(* Messages lie one behind the other, each at least "{}" and a newline.    *)
Laid ==
    \A i, j \in 0..Len(ends) : i < j => End(i) + 3 <= End(j)

TypeInv == TypeOK /\ Laid

(* The end of a message is a position in the stream.                       *)
LEMMA EndNat ==
    ASSUME ends \in Seq(Nat), NEW k \in 0..Len(ends)
    PROVE  End(k) \in Nat
BY DEF End

(* The typing facts hold at the start.                                     *)
LEMMA TypeInvInit == Init => TypeInv
<1> SUFFICES ASSUME Init PROVE TypeInv  OBVIOUS
<1>1. ends = <<>> /\ Len(ends) = 0
  BY DEF Init
<1>2. Written = 0
  BY <1>1 DEF Written, End
<1>3. Laid
  BY <1>1 DEF Laid
<1>4. TypeOK
  <2>1. /\ ends \in Seq(Nat) /\ parsed \in Seq(Nat) /\ errors \in Nat
        /\ rpos \in Nat /\ start \in Nat /\ start <= rpos /\ rpos <= Written
    BY <1>2 DEF Init
  <2>2. open \in BOOLEAN /\ reading \in BOOLEAN /\ interrupt_requested_ \in BOOLEAN
    BY DEF Init
  <2> QED  BY <2>1, <2>2 DEF TypeOK
<1> QED  BY <1>3, <1>4 DEF TypeInv

(* A new message leaves the old ones where they are.                       *)
LEMMA AppendEnd ==
    ASSUME TypeInv, NEW size \in Sizes, ServerWrite(size)
    PROVE  /\ ends' \in Seq(Nat) /\ Len(ends') = Len(ends) + 1
           /\ \A k \in 0..Len(ends) : End(k)' = End(k)
           /\ \A k : k = Len(ends) + 1 => End(k)' = Written + size
           /\ Written' = Written + size
           /\ Written \in Nat /\ size \in Nat /\ size >= 3
<1>1. Len(ends) \in Nat /\ ends \in Seq(Nat)
  BY DEF TypeInv, TypeOK
<1>2. Written \in Nat
  BY <1>1, EndNat DEF Written
<1>3. size \in Nat /\ size >= 3
  BY ReaderAssumption
<1>4. ends' = Append(ends, Written + size)
  BY DEF ServerWrite
<1>5. /\ Len(ends') = Len(ends) + 1 /\ ends' \in Seq(Nat)
      /\ ends'[Len(ends) + 1] = Written + size
      /\ \A k \in 1..Len(ends) : ends'[k] = ends[k]
  BY <1>1, <1>2, <1>3, <1>4
<1> HIDE DEF Written
<1>6. \A k \in 0..Len(ends) : End(k)' = End(k)
  BY <1>1, <1>5 DEF End
<1>7. ASSUME NEW k, k = Len(ends) + 1 PROVE End(k)' = Written + size
  BY <1>1, <1>5, <1>7 DEF End
<1>8. Written' = Written + size
  <2>1. Written' = IF Len(ends') = 0 THEN 0 ELSE ends'[Len(ends')]
    BY DEF Written, End
  <2> QED  BY <1>1, <1>5, <2>1
<1> QED  BY <1>2, <1>3, <1>5, <1>6, <1>7, <1>8

(* Every step keeps the typing facts and the order of the ends.            *)
LEMMA TypeInvNext == TypeInv /\ [Next]_vars => TypeInv'
<1> SUFFICES ASSUME TypeInv, [Next]_vars PROVE TypeInv'  OBVIOUS
<1>1. ASSUME NEW size \in Sizes, ServerWrite(size) PROVE TypeInv'
  <2>1. Laid'
    <3> SUFFICES ASSUME NEW i \in 0..Len(ends'), NEW j \in 0..Len(ends'), i < j
                 PROVE  End(i)' + 3 <= End(j)'
      BY DEF Laid
    <3>0. Len(ends) \in Nat /\ ends \in Seq(Nat)
      BY DEF TypeInv, TypeOK
    <3>1. i \in 0..Len(ends) /\ End(i)' = End(i) /\ End(i) \in Nat
      BY <1>1, <3>0, AppendEnd, EndNat
    <3>2. CASE j \in 0..Len(ends)
      BY <1>1, <3>1, <3>2, AppendEnd DEF TypeInv, Laid
    <3>3. CASE j = Len(ends) + 1
      <4>1. End(i) <= Written
        <5>1. CASE i = Len(ends)
          BY <5>1, <3>1 DEF Written
        <5>2. CASE i < Len(ends)
          <6>1. End(i) + 3 <= End(Len(ends)) /\ End(Len(ends)) \in Nat
            BY <5>2, <3>0, <3>1, EndNat DEF TypeInv, Laid
          <6> QED  BY <6>1, <3>1 DEF Written
        <5> QED  BY <5>1, <5>2, <3>0, <3>1
      <4> QED  BY <1>1, <3>1, <3>3, <4>1, AppendEnd
    <3> QED  BY <1>1, <3>0, <3>2, <3>3, AppendEnd
  <2>2. TypeOK'
    <3>1. rpos \in Nat /\ rpos <= Written
      BY DEF TypeInv, TypeOK
    <3>2. rpos <= Written'
      BY <1>1, <3>1, AppendEnd
    <3> QED  BY <1>1, <3>2, AppendEnd DEF ServerWrite, TypeInv, TypeOK
  <2> QED  BY <2>1, <2>2 DEF TypeInv
<1>2. ASSUME NEW n \in 1..BufSize, do_read(n) PROVE TypeInv'
  <2>1. /\ ends' = ends /\ rpos' = rpos + n /\ rpos + n <= Written
        /\ n \in Nat /\ Len(ends) \in Nat
    BY <1>2, ReaderAssumption DEF do_read, CanRead, TypeInv, TypeOK
  <2>2. Laid' /\ Written' = Written
    BY <2>1 DEF TypeInv, Laid, Written, End
  <2>3. /\ start' \in {start, rpos + n}
        /\ \/ parsed' = parsed
           \/ \E k \in 1..Len(ends) : parsed' = Append(parsed, k)
    BY <1>2, Zenon DEF do_read
  <2>4. reading' \in BOOLEAN
    BY <1>2 DEF do_read, async_read, TypeInv, TypeOK
  <2>5. parsed' \in Seq(Nat)
    <3>1. parsed \in Seq(Nat)
      BY DEF TypeInv, TypeOK
    <3>2. ASSUME NEW k \in 1..Len(ends), parsed' = Append(parsed, k)
          PROVE  parsed' \in Seq(Nat)
      BY <2>1, <3>1, <3>2
    <3> QED  BY <2>3, <3>1, <3>2
  <2>6. rpos' \in Nat /\ start' \in Nat /\ start' <= rpos' /\ rpos' <= Written'
    BY <2>1, <2>2, <2>3 DEF TypeInv, TypeOK
  <2> QED
    BY <1>2, <2>1, <2>2, <2>4, <2>5, <2>6 DEF do_read, TypeInv, TypeOK
<1>3. ASSUME do_read_error PROVE TypeInv'
  <2>1. Laid' /\ Written' = Written
    BY <1>3 DEF do_read_error, TypeInv, Laid, Written, End
  <2> QED  BY <1>3, <2>1 DEF do_read_error, async_read, TypeInv, TypeOK
<1>4. ASSUME ServerClose \/ RequestInterrupt \/ UNCHANGED vars PROVE TypeInv'
  <2>1. Laid' /\ Written' = Written
    BY <1>4 DEF ServerClose, RequestInterrupt, vars, TypeInv, Laid, Written, End
  <2> QED
    BY <1>4, <2>1 DEF ServerClose, RequestInterrupt, vars, TypeInv, TypeOK
<1> QED  BY <1>1, <1>2, <1>3, <1>4 DEF Next, Reading

(* The reader never takes more than the server wrote and never drops more  *)
(* than it read.                                                           *)
THEOREM ReaderTypeCorrect == Spec => []TypeOK
<1>1. TypeInv => TypeOK
  BY DEF TypeInv
<1> QED  BY <1>1, TypeInvInit, TypeInvNext, PTL DEF Spec

-----------------------------------------------------------------------------
(* Between two reads oss begins where the last message pushed ended, with  *)
(* or without its newline, and is too short to be the next message.  That  *)
(* the newline may come with a read of its own is the reason why both      *)
(* beginnings have to be allowed.                                          *)
Aligned(p) ==
    /\ p \in 0..Len(ends)
    /\ start \in {End(p) - 1, End(p)}
    /\ End(p) - 1 <= rpos
    /\ p < Len(ends) => rpos < End(p + 1) - 1

ReadInv == ParsedInOrder /\ Aligned(Len(parsed))

(* With messages laid out in the stream, what is between two ends is no    *)
(* text, and what reaches the end of the next message is that message.     *)
LEMMA TextsAt ==
    ASSUME TypeInv, NEW p \in Nat, Aligned(p), NEW q \in Nat, rpos < q,
           q <= Written, p < Len(ends) => q <= End(p + 1),
           NEW k \in 1..Len(ends)
    PROVE  IsText(k, start, q) <=> k = p + 1 /\ q \in {End(k) - 1, End(k)}
<1>1. /\ ends \in Seq(Nat) /\ Len(ends) \in Nat /\ rpos \in Nat
      /\ start \in Nat /\ start <= rpos
  BY DEF TypeInv, TypeOK
<1>2. /\ p \in 0..Len(ends) /\ k \in 0..Len(ends) /\ k - 1 \in 0..Len(ends)
      /\ End(p) \in Nat /\ End(k) \in Nat /\ End(k - 1) \in Nat
  <2>1. p \in 0..Len(ends) /\ k \in 0..Len(ends) /\ k - 1 \in 0..Len(ends)
    BY <1>1 DEF Aligned
  <2> QED  BY <1>1, <2>1, EndNat
<1>3. End(k - 1) + 3 <= End(k)
  <2>1. k - 1 < k
    BY <1>1
  <2>2. \A i, j \in 0..Len(ends) : i < j => End(i) + 3 <= End(j)
    BY DEF TypeInv, Laid
  <2> QED  BY <1>2, <2>1, <2>2, Zenon
<1>4. CASE k <= p
  <2>1. End(k) <= End(p)
    BY <1>1, <1>2, <1>4 DEF TypeInv, Laid
  <2>2. End(p) - 1 <= start
    BY <1>1, <1>2 DEF Aligned
  <2>3. ~(start \in {End(k - 1) - 1, End(k - 1)})
    BY <1>1, <1>2, <1>3, <2>1, <2>2
  <2>4. k # p + 1
    BY <1>4
  <2> QED  BY <2>3, <2>4 DEF IsText
<1>5. CASE k = p + 1
  <2>1. k - 1 = p
    BY <1>5
  <2> QED  BY <1>2, <1>5, <2>1 DEF IsText, Aligned
<1>6. CASE k > p + 1
  <2>1. /\ p + 1 \in 0..Len(ends) /\ End(p + 1) \in Nat
        /\ End(p + 1) + 3 <= End(k) /\ q <= End(p + 1)
    BY <1>1, <1>2, <1>6, EndNat DEF TypeInv, Laid
  <2> QED  BY <1>2, <1>6, <2>1 DEF IsText
<1> QED  BY <1>2, <1>4, <1>5, <1>6

(* Every step keeps what oss holds inside the next message.                *)
LEMMA ReadInvNext ==
    ASSUME RecordAligned
    PROVE  TypeInv /\ ReadInv /\ [Next]_vars => ReadInv'
<1> SUFFICES ASSUME TypeInv, ReadInv, [Next]_vars PROVE ReadInv'  OBVIOUS
<1>0. /\ ends \in Seq(Nat) /\ Len(ends) \in Nat /\ rpos \in Nat
      /\ start \in Nat /\ start <= rpos /\ rpos <= Written
      /\ parsed \in Seq(Nat) /\ Len(parsed) \in Nat
  BY DEF TypeInv, TypeOK
<1>p. PICK p \in 0..Len(ends) : p = Len(parsed) /\ Aligned(p)
  BY <1>0 DEF ReadInv, Aligned
<1>q. p \in Nat /\ End(p) \in Nat
  BY <1>0, <1>p, EndNat
<1>1. ASSUME NEW size \in Sizes, ServerWrite(size) PROVE ReadInv'
  <2>1. /\ parsed' = parsed /\ start' = start /\ rpos' = rpos
        /\ End(p)' = End(p) /\ Len(ends') = Len(ends) + 1
    BY <1>1, <1>p, AppendEnd DEF ServerWrite
  <2>2. rpos < End(p + 1)' - 1
    <3>1. CASE p < Len(ends)
      <4>1. p + 1 \in 0..Len(ends)
        BY <1>0, <1>p, <3>1
      <4>2. End(p + 1)' = End(p + 1)
        BY <1>1, <4>1, AppendEnd
      <4> QED  BY <1>p, <3>1, <4>2 DEF Aligned
    <3>2. CASE p = Len(ends)
      <4>1. End(p + 1)' = Written + size /\ size >= 3 /\ size \in Nat
        BY <1>1, <3>2, AppendEnd
      <4>2. Written \in Nat
        BY <1>1, AppendEnd
      <4> QED  BY <1>0, <4>1, <4>2
    <3> QED  BY <1>0, <1>p, <3>1, <3>2
  <2>3. Aligned(p)'
    BY <1>0, <1>p, <2>1, <2>2 DEF Aligned
  <2>4. ReadInv'
    <3>1. Len(parsed') = p
      BY <2>1, <1>p
    <3> QED  BY <2>1, <2>3, <3>1 DEF ReadInv, ParsedInOrder
  <2> QED  BY <2>4
<1>2. ASSUME NEW n \in 1..BufSize, do_read(n) PROVE ReadInv'
  <2>0. PICK q : q = rpos + n
    OBVIOUS
  <2>1. /\ q \in Nat /\ rpos < q /\ q <= Written /\ ends' = ends /\ rpos' = q
        /\ \A k \in 1..Len(ends) : ~(rpos < End(k) /\ End(k) < q)
    BY <1>0, <1>2, <2>0, ReaderAssumption DEF do_read, CanRead
  <2>2. p < Len(ends) =>
          /\ p + 1 \in 1..Len(ends) /\ End(p + 1) \in Nat
          /\ q <= End(p + 1) /\ End(p) + 3 <= End(p + 1)
    <3> SUFFICES ASSUME p < Len(ends)
                 PROVE  /\ p + 1 \in 1..Len(ends) /\ End(p + 1) \in Nat
                        /\ q <= End(p + 1) /\ End(p) + 3 <= End(p + 1)
      OBVIOUS
    <3>1. p + 1 \in 1..Len(ends) /\ p + 1 \in 0..Len(ends)
      BY <1>0, <1>q
    <3>2. End(p + 1) \in Nat
      BY <1>0, <3>1, EndNat
    <3>3. End(p) + 3 <= End(p + 1)
      BY <1>0, <1>q, <1>p, <3>1 DEF TypeInv, Laid
    <3>4. rpos < End(p + 1)
      BY <1>0, <1>p, <3>2 DEF Aligned
    <3> QED  BY <2>1, <3>1, <3>2, <3>3, <3>4
  <2>3. \A k \in 1..Len(ends) :
          IsText(k, start, q) <=> k = p + 1 /\ q \in {End(k) - 1, End(k)}
    BY <1>p, <1>q, <2>1, <2>2, TextsAt
  <2>4. CASE p < Len(ends) /\ q \in {End(p + 1) - 1, End(p + 1)}
    <3>1. parsed' = Append(parsed, p + 1) /\ start' = q
      BY <1>2, <2>0, <2>2, <2>3, <2>4 DEF do_read
    <3>2. Len(parsed') = p + 1 /\ ParsedInOrder'
      <4>1. /\ Len(parsed') = p + 1 /\ parsed'[p + 1] = p + 1
            /\ \A i \in 1..p : parsed'[i] = parsed[i]
        BY <1>0, <1>p, <1>q, <3>1
      <4>2. \A i \in 1..p : parsed[i] = i
        BY <1>p DEF ReadInv, ParsedInOrder
      <4> QED  BY <1>q, <4>1, <4>2 DEF ParsedInOrder
    <3>3. ASSUME NEW r, r = p + 1 PROVE Aligned(r)'
      <4>1. \A j : End(j)' = End(j)
        BY <2>1 DEF End
      <4>2. r < Len(ends) => End(r + 1) \in Nat /\ End(r) + 3 <= End(r + 1)
        BY <1>0, <1>q, <2>2, <2>4, <3>3, EndNat DEF TypeInv, Laid
      <4>3. /\ r \in 0..Len(ends) /\ q \in {End(r) - 1, End(r)}
            /\ End(r) \in Nat
        BY <1>0, <2>2, <2>4, <3>3
      <4>4. /\ End(r) - 1 <= q
            /\ r < Len(ends) => q < End(r + 1) - 1
        BY <2>1, <4>2, <4>3
      <4>5. ends' = ends /\ rpos' = q /\ start' = q
        BY <2>1, <3>1
      <4> QED  BY <4>1, <4>3, <4>4, <4>5 DEF Aligned
    <3> QED  BY <3>2, <3>3, <1>q DEF ReadInv
  <2>5. CASE ~(p < Len(ends) /\ q \in {End(p + 1) - 1, End(p + 1)})
    <3>1. parsed' = parsed /\ start' = start
      BY <1>2, <2>0, <2>3, <2>5, <1>0, <1>q DEF do_read
    <3>2. Aligned(p)'
      <4>1. \A j : End(j)' = End(j)
        BY <2>1 DEF End
      <4>2. End(p) - 1 <= q
        BY <1>0, <1>p, <1>q, <2>1 DEF Aligned
      <4>3. p < Len(ends) => q < End(p + 1) - 1
        BY <2>1, <2>2, <2>5
      <4> QED  BY <1>p, <2>1, <3>1, <4>1, <4>2, <4>3 DEF Aligned
    <3> QED  BY <1>p, <3>1, <3>2 DEF ReadInv, ParsedInOrder
  <2> QED  BY <2>4, <2>5
<1>3. ASSUME \/ do_read_error \/ ServerClose \/ RequestInterrupt
             \/ UNCHANGED vars
      PROVE  ReadInv'
  <2>1. /\ parsed' = parsed /\ start' = start /\ rpos' = rpos /\ ends' = ends
    BY <1>3 DEF do_read_error, ServerClose, RequestInterrupt, vars
  <2> QED  BY <2>1 DEF ReadInv, ParsedInOrder, Aligned, End
<1> QED  BY <1>1, <1>2, <1>3 DEF Next, Reading

(* When no read returns bytes of two messages, the messages are pushed     *)
(* complete, once each and in order, and text that does not parse yet is   *)
(* completed by what follows, wherever reads cut the stream: inside a      *)
(* message, before its newline or after it.                                *)
THEOREM AlignedReadsAreParsed ==
    RecordAligned => (Spec => [](ParsedInOrder /\ NotYetParsable))
<1> SUFFICES ASSUME RecordAligned
             PROVE  Spec => [](ParsedInOrder /\ NotYetParsable)
  OBVIOUS
<1>1. Init => ReadInv
  <2> SUFFICES ASSUME Init PROVE ReadInv  OBVIOUS
  <2>1. ends = <<>> /\ parsed = <<>> /\ start = 0 /\ rpos = 0
    BY DEF Init
  <2>2. Len(ends) = 0 /\ Len(parsed) = 0
    BY <2>1
  <2>3. End(0) = 0
    BY DEF End
  <2>4. ParsedInOrder
    BY <2>2 DEF ParsedInOrder
  <2>5. Aligned(0)
    BY <2>1, <2>2, <2>3 DEF Aligned
  <2> QED  BY <2>2, <2>4, <2>5 DEF ReadInv
<1>2. ReadInv => ParsedInOrder /\ NotYetParsable
  BY DEF ReadInv, Aligned, NotYetParsable
<1> QED
  BY <1>1, <1>2, TypeInvInit, TypeInvNext, ReadInvNext, PTL DEF Spec

-----------------------------------------------------------------------------
(* Sessions.                                                               *)

(* A session drives the reader: its steps are steps of the reader, leave   *)
(* it alone, or issue its first read (run_receiving_loop).  To the reader, *)
(* stop and a failed handshake look like a peer that closes.               *)
LEMMA ReaderStep ==
    open \in BOOLEAN /\ (SessionNext \/ UNCHANGED sessionVars) =>
        \/ [Next]_vars
        \/ async_read /\ UNCHANGED <<ends, open, rpos, start, parsed, errors,
                                     interrupt_requested_>>
<1> SUFFICES ASSUME open \in BOOLEAN, SessionNext \/ UNCHANGED sessionVars
             PROVE  \/ Next \/ UNCHANGED vars
                    \/ async_read /\ UNCHANGED <<ends, open, rpos, start, parsed,
                                                 errors, interrupt_requested_>>
  OBVIOUS
<1>1. CASE \/ subscribe_to_error_events \/ clear_error_events_subscriptions
           \/ ResolveFails \/ init \/ Connected \/ HandshakeDone \/ RunReturns
           \/ run_receiving_loop \/ LoopEnds \/ do_interrupt \/ stop
  BY <1>1 DEF subscribe_to_error_events, clear_error_events_subscriptions,
     ResolveFails, init, Connected, HandshakeDone, RunReturns,
     run_receiving_loop, LoopEnds, do_interrupt, stop, reader
<1>2. CASE ConnectionFails \/ Close
  <2>1. open' = FALSE /\ UNCHANGED <<ends, rpos, start, parsed, errors, reading,
                                     interrupt_requested_>>
    BY <1>2 DEF ConnectionFails, Close
  <2>2. CASE open
    BY <2>1, <2>2 DEF Next, ServerClose
  <2>3. CASE ~open
    BY <2>1, <2>3 DEF vars
  <2> QED  BY <2>2, <2>3
<1>3. CASE FirstRead
  BY <1>3 DEF FirstRead
<1>4. CASE \/ \E size \in Sizes : Write(size)
           \/ Hangup \/ Handler \/ ErrorHandler \/ InterruptRequested
  BY <1>4 DEF Write, Hangup, Handler, ErrorHandler, InterruptRequested, Next
<1>5. CASE UNCHANGED sessionVars
  BY <1>5 DEF sessionVars, reader
<1> QED  BY <1>1, <1>2, <1>3, <1>4, <1>5 DEF SessionNext

(* The reader's typing facts hold before the connection is made.           *)
LEMMA SessionTypeInit == SessionInit => TypeInv
<1> SUFFICES ASSUME SessionInit PROVE TypeInv  OBVIOUS
<1>1. ends = <<>> /\ Len(ends) = 0
  BY DEF SessionInit
<1>2. Written = 0
  BY <1>1 DEF Written, End
<1>3. Laid
  BY <1>1 DEF Laid
<1>4. TypeOK
  <2>1. /\ ends \in Seq(Nat) /\ parsed \in Seq(Nat) /\ errors \in Nat
        /\ rpos \in Nat /\ start \in Nat /\ start <= rpos /\ rpos <= Written
    BY <1>2 DEF SessionInit
  <2>2. open \in BOOLEAN /\ reading \in BOOLEAN /\ interrupt_requested_ \in BOOLEAN
    BY DEF SessionInit
  <2> QED  BY <2>1, <2>2 DEF TypeOK
<1> QED  BY <1>3, <1>4 DEF TypeInv

(* Every step of a session keeps them.                                     *)
LEMMA SessionTypeNext == TypeInv /\ [SessionNext]_sessionVars => TypeInv'
<1> SUFFICES ASSUME TypeInv, SessionNext \/ UNCHANGED sessionVars PROVE TypeInv'
  OBVIOUS
<1>1. CASE [Next]_vars
  BY <1>1, TypeInvNext
<1>2. CASE async_read /\ UNCHANGED <<ends, open, rpos, start, parsed, errors,
                                     interrupt_requested_>>
  <2>1. Laid' /\ Written' = Written
    BY <1>2 DEF TypeInv, Laid, Written, End
  <2>2. reading' \in BOOLEAN
    BY <1>2 DEF async_read, TypeInv, TypeOK
  <2> QED  BY <1>2, <2>1, <2>2 DEF TypeInv, TypeOK
<1> QED  BY <1>1, <1>2, ReaderStep DEF TypeInv, TypeOK

(* When no read returns bytes of two messages, do_read pushes the messages *)
(* complete, once each and in order, and what it has gathered is a         *)
(* beginning of the next one, in every session: before the first read,     *)
(* after stop has closed the socket, and when do_interrupt ends the loop   *)
(* half way through a message.                                             *)
THEOREM SessionReadsInOrder ==
    RecordAligned => (SessionSpec => [](ParsedInOrder /\ NotYetParsable))
<1> SUFFICES ASSUME RecordAligned
             PROVE  SessionSpec => [](ParsedInOrder /\ NotYetParsable)
  OBVIOUS
<1>1. SessionInit => ReadInv
  <2> SUFFICES ASSUME SessionInit PROVE ReadInv  OBVIOUS
  <2>1. ends = <<>> /\ parsed = <<>> /\ start = 0 /\ rpos = 0
    BY DEF SessionInit
  <2>2. Len(ends) = 0 /\ Len(parsed) = 0
    BY <2>1
  <2>3. End(0) = 0
    BY DEF End
  <2>4. ParsedInOrder
    BY <2>2 DEF ParsedInOrder
  <2>5. Aligned(0)
    BY <2>1, <2>2, <2>3 DEF Aligned
  <2> QED  BY <2>2, <2>4, <2>5 DEF ReadInv
<1>2. TypeInv /\ ReadInv /\ [SessionNext]_sessionVars => ReadInv'
  <2> SUFFICES ASSUME TypeInv, ReadInv, SessionNext \/ UNCHANGED sessionVars
               PROVE  ReadInv'
    OBVIOUS
  <2>1. CASE [Next]_vars
    BY <2>1, ReadInvNext
  <2>2. CASE async_read /\ UNCHANGED <<ends, open, rpos, start, parsed, errors,
                                       interrupt_requested_>>
    BY <2>2 DEF ReadInv, ParsedInOrder, Aligned, End
  <2> QED  BY <2>1, <2>2, ReaderStep DEF TypeInv, TypeOK
<1>3. ReadInv => ParsedInOrder /\ NotYetParsable
  BY DEF ReadInv, Aligned, NotYetParsable
<1> QED
  BY <1>1, <1>2, <1>3, SessionTypeInit, SessionTypeNext, PTL DEF SessionSpec

-----------------------------------------------------------------------------
(* stop or do_interrupt has been called.                                   *)
Cut == interrupt_requested_ \/ stopping # "no"

(* The inductive invariant behind SessionTypeOK and NoSilentFailure.       *)
(* init's run of the context ends early only when somebody stopped the     *)
(* context; that cannot have been the loop's thread, which does not exist  *)
(* yet, nor a call made before init.                                       *)
LifeInv ==
    /\ LifeTypeOK
    /\ NoClient => ~stopped
    /\ init_at # "true" => ~io
    /\ init_at = "running" /\ stopped => Cut
    /\ init_at \in {"ran", "read", "true"} /\ Connecting => Cut
    /\ link = "failed" /\ subscribed => told

(* The invariant holds of a new client.                                    *)
LEMMA LifeInit == SessionInit => LifeInv
BY DEF SessionInit, LifeInv, LifeTypeOK, NoClient, Connecting, Cut

(* Every step of init, of the handlers and of the calls that end the       *)
(* session keeps it.                                                       *)
LEMMA LifeNext == LifeInv /\ [SessionNext]_sessionVars => LifeInv'
<1> SUFFICES ASSUME LifeInv, SessionNext \/ UNCHANGED sessionVars PROVE LifeInv'
  OBVIOUS
<1> USE DEF LifeInv, LifeTypeOK, NoClient, Connecting, Cut, reader, vars
<1>1. CASE subscribe_to_error_events
  <2>1. /\ subscribed' = TRUE /\ link # "failed"
        /\ UNCHANGED <<reading, interrupt_requested_, init_at, link, stopped, io,
                       poisoned, stopping, told>>
    BY <1>1 DEF subscribe_to_error_events
  <2> QED  BY <2>1
<1>2. CASE clear_error_events_subscriptions
  <2>1. /\ subscribed' = FALSE /\ link # "failed"
        /\ UNCHANGED <<reading, interrupt_requested_, init_at, link, stopped, io,
                       poisoned, stopping, told>>
    BY <1>2 DEF clear_error_events_subscriptions
  <2> QED  BY <2>1
<1>3. CASE ResolveFails \/ init
  BY <1>3 DEF ResolveFails, init
<1>4. CASE Connected \/ HandshakeDone
  BY <1>4 DEF Connected, HandshakeDone, Running
<1>5. CASE ConnectionFails
  BY <1>5 DEF ConnectionFails, Running
<1>6. CASE RunReturns
  BY <1>6 DEF RunReturns, RunIsOver
<1>7. CASE FirstRead
  BY <1>7 DEF FirstRead
<1>8. CASE run_receiving_loop
  BY <1>8 DEF run_receiving_loop
<1>9. CASE LoopEnds
  BY <1>9 DEF LoopEnds
<1>10. ASSUME NEW size \in Sizes, Write(size) PROVE LifeInv'
  BY <1>10 DEF Write, ServerWrite, life
<1>11. CASE Hangup \/ ErrorHandler
  BY <1>11 DEF Hangup, ServerClose, ErrorHandler, do_read_error, life
<1>12. CASE Handler
  BY <1>12 DEF Handler, Reading, do_read, life
<1>13. CASE InterruptRequested
  BY <1>13 DEF InterruptRequested, RequestInterrupt, life
<1>14. CASE do_interrupt
  BY <1>14 DEF do_interrupt
<1>15. CASE Close
  BY <1>15 DEF Close
<1>16. CASE stop
  BY <1>16 DEF stop
<1>17. CASE UNCHANGED sessionVars
  BY <1>17 DEF sessionVars, life
<1> QED
  BY <1>1, <1>2, <1>3, <1>4, <1>5, <1>6, <1>7, <1>8, <1>9, <1>10, <1>11, <1>12,
     <1>13, <1>14, <1>15, <1>16, <1>17 DEF SessionNext

(* Whatever fails, stops or is interrupted, and when: the variables of the *)
(* life cycle keep their types, nothing happens to a client before init    *)
(* has made it, only subscribers are told, and of a failure only, and the  *)
(* reader takes no more than the server wrote.                             *)
THEOREM SessionTypeCorrect == SessionSpec => []SessionTypeOK
<1>1. TypeInv /\ LifeInv => SessionTypeOK
  BY DEF TypeInv, LifeInv, SessionTypeOK
<1> QED
  BY <1>1, SessionTypeInit, SessionTypeNext, LifeInit, LifeNext, PTL DEF SessionSpec

(* An application that subscribed to error events is told when connecting  *)
(* or the handshake fails, and init never returns true in the middle of    *)
(* connecting unless stop or do_interrupt cut it short.                    *)
THEOREM FailuresAreTold == SessionSpec => []NoSilentFailure
<1>1. LifeInv => NoSilentFailure
  BY DEF LifeInv, NoSilentFailure, Cut
<1> QED  BY <1>1, LifeInit, LifeNext, PTL DEF SessionSpec
=============================================================================
