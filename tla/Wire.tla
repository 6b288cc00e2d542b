-------------------------------- MODULE Wire --------------------------------
(***************************************************************************)
(* Cutting the byte stream of one connection into messages: handle_data()  *)
(* in wire.c, with the readers that call it (serial_reader() in serial.c,  *)
(* gatt_chr_event() in ble.c) and the inbound queue it fills (process.c).  *)
(*                                                                         *)
(* There is no framing: a message ends where its CBOR item ends.  Bytes    *)
(* that do not make up an item yet rest in the buffer, and are dropped as  *)
(* stale when more bytes arrive over two seconds after the last call.      *)
(* A byte is <<m, i>>, the i-th byte of message m.  Item says how many     *)
(* bytes an item starting with that byte spans: all of the message for its *)
(* first byte, and whatever the content happens to look like for the       *)
(* others.                                                                 *)
(*                                                                         *)
(* The host is external.  It sends a message without long pauses; when it  *)
(* has broken off in the middle, sent noise, or sent more than the buffer  *)
(* holds, it stays silent for two seconds (or reconnects, with BLE) before *)
(* it sends again.  The error replies of the reader are left out.          *)
(***************************************************************************)
EXTENDS Naturals, Sequences, SequencesExt

CONSTANTS
    Messages,       \* what a host may send
    Size,           \* their lengths in bytes
    Noise,          \* messages that are no valid request: line noise
    Immediate,      \* requests the reader answers itself: 'ping'
    Item,           \* length of the CBOR item a byte starts, 0 if none
    Cap,            \* MAX_INPUT_MSG_SIZE
    QueueSize,      \* messages that fit in the ring buffer shared_in
    Links,          \* connections a host may use: "serial", "ble"
    MayStall,       \* may the queue be full for over two seconds?
    MaxSent,        \* bound: messages sent in a behaviour
    None

Bytes == UNION {{<<m, i>> : i \in 1..Size[m]} : m \in Messages}
BytesOf(m) == [i \in 1..Size[m] |-> <<m, i>>]

ASSUME WireAssumption ==
    /\ Noise \subseteq Messages /\ Immediate \subseteq Messages \ Noise
    /\ Size \in [Messages -> Nat \ {0}] /\ Item \in [Bytes -> Nat]
    /\ \A m \in Messages \ Noise : Item[<<m, 1>>] = Size[m]
    /\ Cap \in Nat \ {0} /\ QueueSize \in Nat \ {0}
    /\ Links \subseteq {"serial", "ble"} /\ MayStall \in BOOLEAN
    /\ None \notin Messages

VARIABLES
    link,       \* the connection in use; each has a buffer of its own
    line,       \* bytes on their way: UART or USB buffer, BLE writes
    buf,        \* bytes resting in full_data_in, read_ptr of them
    fresh,      \* new bytes, while stale ones before them are dealt with
    pc,         \* the reader: see Labels
    reject,     \* reject_if_no_msg
    late,       \* over two seconds since last_processing_time
    elapsed,    \* over two seconds since the time_now of this call
    queue,      \* shared_in
    cur,        \* host: the message it is sending, None between messages
    rest,       \* host: bytes of it still to send
    silent,     \* host: has sent nothing for over two seconds
    owesSilence,\* host: has to be silent before it sends again
    sent,       \* history: valid requests the host has sent in full
    handled,    \* history: requests queued, or answered at once
    gap         \* history: the bytes on the line follow such a silence

reader == <<link, buf, fresh, pc, reject, late, elapsed>>
host   == <<cur, rest, silent, owesSilence, sent>>
vars   == <<line, reader, queue, host, handled, gap>>

Labels == {"read",      \* waiting for bytes
           "stale",     \* handle_data_impl() on stale bytes
           "force",     \* on a buffer without room for the next BLE write
           "parse",     \* on all bytes received
           "aborted"}   \* an assertion has failed

TypeOK ==
    /\ link \in Links /\ line \in Seq(Bytes) /\ fresh \in Seq(Bytes)
    /\ buf \in Seq(Bytes) /\ Len(buf) <= Cap
    /\ pc \in Labels
    /\ {reject, late, elapsed, silent, owesSilence, gap} \subseteq BOOLEAN
    /\ queue \in Seq(Messages) /\ Len(queue) <= QueueSize
    /\ cur \in Messages \cup {None} /\ rest \in Seq(Bytes)
    /\ sent \in Seq(Messages) /\ handled \in Seq(Messages)

Init ==
    /\ link \in Links /\ line = <<>> /\ buf = <<>> /\ fresh = <<>> /\ pc = "read"
    /\ reject = FALSE /\ late = TRUE /\ elapsed = FALSE /\ queue = <<>>
    /\ cur = None /\ rest = <<>> /\ silent = TRUE /\ owesSilence = FALSE
    /\ sent = <<>> /\ handled = <<>> /\ gap = FALSE

-----------------------------------------------------------------------------
(* The host *)

Oversized(m) == Size[m] > Cap - (IF link = "ble" THEN 1 ELSE 0)

StartMessage(m) ==
    /\ cur = None /\ ~owesSilence /\ Len(sent) < MaxSent
    /\ cur' = m /\ rest' = BytesOf(m)
    /\ UNCHANGED <<line, reader, queue, silent, owesSilence, sent, handled, gap>>

SendByte ==
    /\ cur # None
    /\ line' = Append(line, Head(rest)) /\ rest' = Tail(rest)
    /\ silent' = FALSE /\ gap' = (gap \/ silent)
    /\ IF Len(rest) > 1 THEN UNCHANGED <<cur, sent, owesSilence>>
       ELSE /\ cur' = None
            /\ owesSilence' = (cur \in Noise \/ Oversized(cur))
            /\ sent' = IF owesSilence' THEN sent ELSE Append(sent, cur)
    /\ UNCHANGED <<reader, queue, handled>>

\* The host gives up in the middle of a message.
BreakOff ==
    /\ cur # None /\ rest # BytesOf(cur)
    /\ cur' = None /\ rest' = <<>> /\ owesSilence' = TRUE
    /\ UNCHANGED <<line, reader, queue, silent, sent, handled, gap>>

-----------------------------------------------------------------------------
(* The reader *)

\* Length of the item at the start of b, 0 if it is not complete (or no CBOR).
MessageLength(b) ==
    IF b = <<>> \/ Item[Head(b)] > Len(b) THEN 0 ELSE Item[Head(b)]

From(b, n) == SubSeq(b, n + 1, Len(b))

\* handle_data(): bytes that have become stale are handled before the new ones,
\* and rejected if 'drop'; otherwise all are parsed together, and rejected if no
\* message is found and the buffer is full.
HandleDataWith(n, force, timedOut, drop) ==
    LET new == SubSeq(line, 1, n) IN
    /\ line' = From(line, n) /\ gap' = FALSE
    /\ elapsed' = FALSE /\ UNCHANGED late
    /\ IF timedOut
       THEN pc' = "stale" /\ reject' = drop /\ fresh' = new /\ UNCHANGED buf
       ELSE /\ pc' = IF force THEN "force" ELSE "parse"
            /\ buf' = buf \o new /\ UNCHANGED fresh
            /\ reject' = (force \/ Len(buf') = Cap)

Stale == buf # <<>> /\ late

\* Mutants: stale bytes may wait for more; are never looked for.
KeepStale(n, force) == HandleDataWith(n, force, Stale, FALSE)
NoTimeout(n, force) == HandleDataWith(n, force, FALSE, TRUE)

HandleData(n, force) == HandleDataWith(n, force, Stale, TRUE)

\* serial_reader(): what there is, as far as it fits.
ReadSerial ==
    /\ pc = "read" /\ link = "serial"
    /\ \E n \in 1..Len(line) : n <= Cap - Len(buf) /\ HandleData(n, FALSE)
    /\ UNCHANGED <<link, queue, host, handled>>

\* gatt_chr_event(): the bytes of one write, all of one message.  If they would
\* fill the buffer to the limit, what rests in it is rejected first.
ReadBleBelow(limit) ==
    /\ pc = "read" /\ link = "ble"
    /\ \E n \in 1..Len(line) :
        /\ n < Cap /\ \A i \in 2..n : line[i][2] > 1
        /\ IF Len(buf) + n >= limit THEN HandleData(0, TRUE) ELSE HandleData(n, FALSE)
    /\ UNCHANGED <<link, queue, host, handled>>

\* Mutant: without the check for room.
ReadBleUnchecked == ReadBleBelow(2 * Cap)

ReadBle == ReadBleBelow(Cap)

\* handle_data_impl() ends with b left in the buffer, which is asserted to be empty
\* after a rejection.  After stale bytes the new ones are next.
ReturnWith(b, overdue) ==
    \/ /\ pc \in {"stale", "force"} /\ b # <<>>
       /\ pc' = "aborted" /\ buf' = b
       /\ UNCHANGED <<fresh, reject, late>>
    \/ /\ pc = "stale" /\ b = <<>>
       /\ pc' = IF fresh = <<>> THEN "force" ELSE "parse"
       /\ buf' = fresh /\ fresh' = <<>>
       /\ reject' = (fresh = <<>> \/ Len(fresh) = Cap)
       /\ UNCHANGED late
    \/ /\ pc = "parse" \/ (pc = "force" /\ b = <<>>)
       /\ pc' = "read" /\ buf' = b /\ reject' = FALSE /\ late' = overdue
       /\ UNCHANGED fresh

\* Mutant: last_processing_time is not updated.
ReturnLate(b) == ReturnWith(b, late)

Return(b) == ReturnWith(b, elapsed)

Parsing == pc \in {"stale", "force", "parse"}

\* No complete message: await more, or reject everything.
NoMessage ==
    /\ Parsing /\ MessageLength(buf) = 0
    /\ Return(IF reject THEN <<>> ELSE buf)
    /\ UNCHANGED <<link, line, elapsed, queue, host, handled, gap>>

\* Go on with what follows the message, if anything does.
Consume(n) ==
    IF n = Len(buf) THEN Return(<<>>)
    ELSE /\ buf' = From(buf, n) /\ reject' = FALSE
         /\ UNCHANGED <<pc, fresh, late>>

\* A complete item of n bytes that starts like message m: queued for the main task
\* (when there is space), answered at once, or refused as no valid request.  Bytes
\* of two messages put together may or may not look like a request.
DispatchWith(m, n, mayDrop) ==
    \/ /\ m \notin Noise /\ Head(buf)[2] = 1
       /\ IF m \in Immediate THEN UNCHANGED queue
          ELSE Len(queue) < QueueSize /\ queue' = Append(queue, m)
       /\ handled' = Append(handled, m)
    \/ /\ m \in Noise \/ SubSeq(buf, 1, n) # BytesOf(m) \/ mayDrop
       /\ UNCHANGED <<queue, handled>>

\* Mutant: a message that finds the queue full is lost.
DispatchOrDrop(m, n) == DispatchWith(m, n, Len(queue) = QueueSize)

Dispatch(m, n) == DispatchWith(m, n, FALSE)

GotMessage ==
    /\ Parsing /\ MessageLength(buf) > 0
    /\ Dispatch(Head(buf)[1], MessageLength(buf))
    /\ Consume(MessageLength(buf))
    /\ UNCHANGED <<link, line, elapsed, host, gap>>

\* BLE_GAP_EVENT_DISCONNECT, in the same task as the writes before it.
DisconnectWith(resting) ==
    /\ link = "ble" /\ pc = "read" /\ line = <<>>
    /\ buf' = resting
    /\ cur' = None /\ rest' = <<>> /\ owesSilence' = FALSE
    /\ UNCHANGED <<link, line, fresh, pc, reject, late, elapsed, queue, silent,
                   sent, handled, gap>>

\* Mutant: ble_read is not reset.
DisconnectOnly == DisconnectWith(buf)

Disconnect == DisconnectWith(<<>>)

\* jade_process_push_in_message() waits for space in the ring buffer.
Blocked ==
    /\ Parsing /\ MessageLength(buf) > 0
    /\ Head(buf)[1] \notin Noise \cup Immediate /\ Len(queue) = QueueSize

\* Over two seconds pass: while the reader waits for bytes and the host has none to
\* send, or while the reader waits for space in the queue.
TimePasses ==
    /\ \/ pc = "read" /\ line = <<>> /\ cur = None /\ UNCHANGED elapsed
       \/ MayStall /\ Blocked /\ elapsed' = TRUE
    /\ late' = TRUE
    /\ IF cur = None /\ line = <<>>
       THEN silent' = TRUE /\ owesSilence' = FALSE
       ELSE UNCHANGED <<silent, owesSilence>>
    /\ UNCHANGED <<link, line, buf, fresh, pc, reject, queue, cur, rest, sent,
                   handled, gap>>

\* jade_process_get_in_message() in the main task.
TakeMessage ==
    /\ queue # <<>> /\ queue' = Tail(queue)
    /\ UNCHANGED <<line, reader, host, handled, gap>>

-----------------------------------------------------------------------------
Host == (\E m \in Messages : StartMessage(m)) \/ SendByte \/ BreakOff
Reader == ReadSerial \/ ReadBle \/ NoMessage \/ GotMessage

Next == Host \/ TimePasses \/ Reader \/ Disconnect \/ TakeMessage

Spec == Init /\ [][Next]_vars

\* The reader tasks are polled or notified, and the main task comes back to its
\* queue.
FairSpec == Spec /\ WF_vars(Reader) /\ WF_vars(TakeMessage)

-----------------------------------------------------------------------------
(* Properties *)

\* handle_data() and gatt_chr_event() assert that a rejection empties the buffer:
\* what rests there never starts with a complete message.  And that it holds the new
\* bytes, which BLE copies behind the old ones before it asks.
AssertionsHold ==
    /\ pc # "aborted"
    /\ pc = "stale" => Len(fresh) <= Cap
    /\ pc = "parse" => Len(buf) <= Cap

\* The buffer never rests full: uart_read_bytes() would be asked for 0 bytes, again
\* and again, and the connection be dead.
RoomToRead == pc = "read" => Len(buf) < Cap

\* Whatever noise, broken-off or oversized messages came before, the requests
\* handled are those the host sent, whole, once and in that order; none is lost.
Delivered ==
    /\ IsPrefix(handled, sent)
    /\ pc = "read" /\ line = <<>> /\ cur = None => handled = sent

\* Every request sent gets handled, however often the queue was full, as long as it is
\* never full for over two seconds (~MayStall).  If it is, bytes of a good message that
\* arrived in time are rejected as stale (wire.c:177, 201), and it is not handled.
AllHandled == (handled # sent) ~> (handled = sent)

\* wire.c: "2s 'no activity' stale message timeout".  Bytes are timed out only if
\* the host had been silent that long.
TimeoutMeansSilence == [][pc = "read" /\ pc' = "stale" => gap]_vars
=============================================================================
