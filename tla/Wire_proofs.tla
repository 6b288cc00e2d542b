---------------------------- MODULE Wire_proofs ----------------------------
(***************************************************************************)
(* For any messages, sizes and buffer, any host and any content: the       *)
(* assertions of handle_data() and gatt_chr_event() hold, and the reader   *)
(* always has room to read.  While the queue does not stay full for over   *)
(* two seconds, every request the host sends is handled, once and in       *)
(* order, and bytes are timed out only after the host has been silent.     *)
(***************************************************************************)
EXTENDS Wire, SequenceTheorems, TLAPS

\* What the argument needs to know about types.
TypesOK ==
    /\ line \in Seq(Bytes) /\ buf \in Seq(Bytes) /\ fresh \in Seq(Bytes)
    /\ rest \in Seq(Bytes) /\ cur \in Messages \cup {None}
    /\ cur # None => rest # <<>>
    /\ pc \in Labels \ {"aborted"} /\ reject \in BOOLEAN

\* Bytes at rest: no message starts there, and there is room behind them.
AtRest == pc = "read" => MessageLength(buf) = 0 /\ Len(buf) < Cap

\* Bytes about to be rejected hold no message either.
Doomed == pc \in {"stale", "force"} => reject /\ MessageLength(buf) = 0

\* New bytes fit, and a full buffer does not wait for more.
Fits ==
    /\ pc = "stale" => Len(fresh) <= Cap
    /\ pc = "parse" => Len(buf) <= Cap /\ (Len(buf) = Cap => reject)

IInv == TypesOK /\ AtRest /\ Doomed /\ Fits

USE WireAssumption

\* A message is a sequence of at least one byte.
LEMMA BytesOfType ==
    ASSUME NEW m \in Messages
    PROVE  BytesOf(m) \in Seq(Bytes) /\ BytesOf(m) # <<>>
<1>1. Size[m] \in Nat \ {0}
  OBVIOUS
<1>2. \A i \in 1..Size[m] : <<m, i>> \in Bytes
  BY DEF Bytes
<1>3. BytesOf(m) \in Seq(Bytes) /\ Len(BytesOf(m)) = Size[m]
  BY <1>1, <1>2 DEF BytesOf
<1> QED
  BY <1>1, <1>3

\* The length found is 0, or that of a non-empty part of the buffer.
LEMMA MessageLengthRange ==
    ASSUME NEW b \in Seq(Bytes)
    PROVE  /\ MessageLength(b) \in 0..Len(b)
           /\ MessageLength(<<>>) = 0
<1>1. CASE b = <<>>
  BY <1>1 DEF MessageLength
<1>2. CASE b # <<>>
  <2>1. Head(b) \in Bytes
    BY <1>2
  <2>2. Item[Head(b)] \in Nat
    BY <2>1
  <2> QED
    BY <1>2, <2>2 DEF MessageLength
<1> QED
  BY <1>1, <1>2

LEMMA FromType ==
    ASSUME NEW b \in Seq(Bytes), NEW n \in 0..Len(b)
    PROVE  From(b, n) \in Seq(Bytes) /\ Len(From(b, n)) = Len(b) - n
  BY DEF From

\* handle_data() starts from a buffer at rest.
LEMMA HandleDataStep ==
    ASSUME IInv, pc = "read", UNCHANGED host,
           NEW n \in 0..Len(line), NEW force \in BOOLEAN,
           Len(buf) + n <= Cap, force => n = 0,
           HandleData(n, force)
    PROVE  IInv'
<1> DEFINE new == SubSeq(line, 1, n)
<1>1. new \in Seq(Bytes) /\ Len(new) = n
  BY DEF IInv, TypesOK
<1>2. line' \in Seq(Bytes)
  BY FromType DEF IInv, TypesOK, HandleData, HandleDataWith
<1>3. CASE Stale
  <2>1. pc' = "stale" /\ reject' = TRUE /\ fresh' = new /\ buf' = buf
    BY <1>3 DEF HandleData, HandleDataWith
  <2>2. TypesOK'
    BY <1>1, <1>2, <2>1 DEF IInv, TypesOK, Labels, host
  <2>3. Doomed' /\ AtRest' /\ Fits'
    BY <1>1, <2>1 DEF IInv, TypesOK, AtRest, Doomed, Fits, MessageLength
  <2> QED
    BY <2>2, <2>3 DEF IInv
<1>4. CASE ~Stale
  <2>1. /\ pc' = IF force THEN "force" ELSE "parse"
        /\ buf' = buf \o new /\ fresh' = fresh
        /\ reject' = (force \/ Len(buf') = Cap)
    BY <1>4 DEF HandleData, HandleDataWith
  <2>2. buf' \in Seq(Bytes) /\ Len(buf') = Len(buf) + n
    BY <1>1, <2>1 DEF IInv, TypesOK
  <2>3. TypesOK'
    BY <1>2, <2>1, <2>2 DEF IInv, TypesOK, Labels, host
  <2>4. force => buf' = buf
    BY <1>1, <2>1 DEF IInv, TypesOK
  <2>5. Doomed' /\ AtRest' /\ Fits'
    BY <2>1, <2>2, <2>4 DEF IInv, AtRest, Doomed, Fits, MessageLength
  <2> QED
    BY <2>3, <2>5 DEF IInv
<1> QED
  BY <1>3, <1>4

\* handle_data_impl() ends with an empty buffer, or with bytes that hold no message
\* and were not to be rejected.
LEMMA ReturnStep ==
    ASSUME IInv, pc \in {"stale", "force", "parse"}, UNCHANGED <<line, host>>,
           NEW b \in Seq(Bytes), Return(b),
           b # <<>> => pc = "parse" /\ MessageLength(b) = 0 /\ Len(b) < Cap
    PROVE  IInv'
<1>1. MessageLength(<<>>) = 0
  BY DEF MessageLength
<1>2. CASE pc = "stale"
  <2>1. /\ pc' = IF fresh = <<>> THEN "force" ELSE "parse"
        /\ buf' = fresh /\ fresh' = <<>>
        /\ reject' = (fresh = <<>> \/ Len(fresh) = Cap)
    BY <1>2 DEF Return, ReturnWith
  <2>2. TypesOK'
    BY <1>2, <2>1 DEF IInv, TypesOK, Labels, host
  <2>3. AtRest' /\ Doomed' /\ Fits'
    BY <1>1, <1>2, <2>1 DEF IInv, AtRest, Doomed, Fits, MessageLength
  <2> QED
    BY <2>2, <2>3 DEF IInv
<1>3. CASE pc \in {"force", "parse"}
  <2>1. pc' = "read" /\ buf' = b /\ reject' = FALSE /\ fresh' = fresh
    BY <1>3 DEF Return, ReturnWith
  <2>2. TypesOK'
    BY <1>3, <2>1 DEF IInv, TypesOK, Labels, host
  <2>3. MessageLength(b) = 0 /\ Len(b) < Cap
    BY <1>1
  <2>4. AtRest' /\ Doomed' /\ Fits'
    BY <2>1, <2>3 DEF AtRest, Doomed, Fits, MessageLength
  <2> QED
    BY <2>2, <2>4 DEF IInv
<1> QED
  BY <1>2, <1>3

LEMMA Initially == Init => IInv
<1> SUFFICES ASSUME Init PROVE IInv
  OBVIOUS
<1>1. TypesOK
  <2>1. <<>> \in Seq(Bytes)
    OBVIOUS
  <2>2. line \in Seq(Bytes) /\ buf \in Seq(Bytes) /\ fresh \in Seq(Bytes)
    BY <2>1 DEF Init
  <2>3. rest \in Seq(Bytes) /\ cur \in Messages \cup {None} /\ cur = None
    BY <2>1 DEF Init
  <2>4. pc \in Labels \ {"aborted"} /\ reject \in BOOLEAN
    BY DEF Init, Labels
  <2> QED
    BY <2>2, <2>3, <2>4 DEF TypesOK
<1>2. MessageLength(buf) = 0
  BY DEF Init, MessageLength
<1>3. Len(buf) < Cap
  BY DEF Init
<1> QED
  BY <1>1, <1>2, <1>3 DEF Init, IInv, AtRest, Doomed, Fits

LEMMA Inductive == IInv /\ [Next]_vars => IInv'
<1> SUFFICES ASSUME IInv, [Next]_vars PROVE IInv'
  OBVIOUS
<1>1. ASSUME NEW m \in Messages, StartMessage(m) PROVE IInv'
  <2>1. rest' \in Seq(Bytes) /\ rest' # <<>>
    BY <1>1, BytesOfType DEF StartMessage
  <2> QED
    BY <1>1, <2>1 DEF StartMessage, IInv, TypesOK, AtRest, Doomed, Fits, reader,
                      MessageLength
<1>2. CASE SendByte
  <2>1. /\ rest # <<>> /\ Head(rest) \in Bytes /\ Tail(rest) \in Seq(Bytes)
        /\ Len(Tail(rest)) = Len(rest) - 1 /\ Len(rest) \in Nat
    BY <1>2 DEF SendByte, IInv, TypesOK
  <2>2. line' \in Seq(Bytes)
    BY <1>2, <2>1 DEF SendByte, IInv, TypesOK
  <2>3. rest' \in Seq(Bytes) /\ cur' \in Messages \cup {None}
    BY <1>2, <2>1 DEF SendByte, IInv, TypesOK
  <2>4. cur' # None => rest' # <<>>
    <3>1. CASE Len(rest) > 1
      <4>1. rest' = Tail(rest)
        BY <1>2 DEF SendByte
      <4>2. Len(rest') > 0
        BY <2>1, <3>1, <4>1
      <4> QED
        BY <4>2
    <3>2. CASE ~(Len(rest) > 1)
      BY <1>2, <3>2 DEF SendByte
    <3> QED
      BY <3>1, <3>2
  <2> QED
    BY <1>2, <2>2, <2>3, <2>4 DEF SendByte, IInv, TypesOK, AtRest, Doomed, Fits,
                                  reader, MessageLength
<1>3. CASE BreakOff
  BY <1>3 DEF BreakOff, IInv, TypesOK, AtRest, Doomed, Fits, reader, MessageLength
<1>4. CASE TimePasses
  BY <1>4 DEF TimePasses, IInv, TypesOK, AtRest, Doomed, Fits, MessageLength
<1>5. CASE ReadSerial
  <2>1. PICK n \in 1..Len(line) : n <= Cap - Len(buf) /\ HandleData(n, FALSE)
    BY <1>5 DEF ReadSerial
  <2>2. n \in 0..Len(line) /\ Len(buf) + n <= Cap
    BY <2>1 DEF IInv, TypesOK
  <2> QED
    BY <1>5, <2>1, <2>2, HandleDataStep DEF ReadSerial
<1>6. CASE ReadBle
  <2>1. PICK n \in 1..Len(line) :
            IF Len(buf) + n >= Cap THEN HandleData(0, TRUE) ELSE HandleData(n, FALSE)
    BY <1>6 DEF ReadBle, ReadBleBelow
  <2>2. n \in 0..Len(line) /\ 0 \in 0..Len(line) /\ Len(buf) \in Nat
    BY <2>1 DEF IInv, TypesOK
  <2>3. pc = "read" /\ UNCHANGED host /\ Len(buf) < Cap
    BY <1>6 DEF ReadBle, ReadBleBelow, IInv, AtRest
  <2>4. CASE Len(buf) + n >= Cap
    <3>1. HandleData(0, TRUE)
      BY <2>1, <2>4
    <3>2. Len(buf) + 0 <= Cap
      BY <2>2, <2>3
    <3> QED
      BY <2>2, <2>3, <3>1, <3>2, HandleDataStep
  <2>5. CASE ~(Len(buf) + n >= Cap)
    <3>1. HandleData(n, FALSE)
      BY <2>1, <2>5
    <3>2. Len(buf) + n <= Cap
      BY <2>2, <2>5
    <3> QED
      BY <2>2, <2>3, <3>1, <3>2, HandleDataStep
  <2> QED
    BY <2>4, <2>5
<1>7. CASE NoMessage
  <2> DEFINE b == IF reject THEN <<>> ELSE buf
  <2>1. b \in Seq(Bytes)
    BY DEF IInv, TypesOK
  <2>2. pc \in {"stale", "force", "parse"} /\ UNCHANGED <<line, host>> /\ Return(b)
    BY <1>7 DEF NoMessage, Parsing
  <2>3. b # <<>> => pc = "parse" /\ MessageLength(b) = 0 /\ Len(b) < Cap
    BY <1>7 DEF NoMessage, Parsing, IInv, TypesOK, Doomed, Fits
  <2> HIDE DEF b
  <2> QED
    BY <2>1, <2>2, <2>3, ReturnStep
<1>8. CASE GotMessage
  <2> DEFINE n == MessageLength(buf)
  <2>1. n \in 1..Len(buf) /\ Len(buf) \in Nat /\ buf \in Seq(Bytes)
    BY <1>8, MessageLengthRange DEF GotMessage, IInv, TypesOK
  <2>2. pc = "parse"
    BY <1>8 DEF GotMessage, Parsing, IInv, Doomed
  <2> HIDE DEF n
  <2>3. UNCHANGED <<line, host>> /\ Consume(n)
    BY <1>8 DEF GotMessage, n
  <2>4. CASE n = Len(buf)
    <3>1. Return(<<>>) /\ <<>> \in Seq(Bytes)
      BY <2>3, <2>4 DEF Consume
    <3> QED
      BY <2>2, <2>3, <3>1, ReturnStep
  <2>5. CASE n # Len(buf)
    <3>1. /\ buf' = From(buf, n) /\ reject' = FALSE
          /\ pc' = pc /\ fresh' = fresh
      BY <2>3, <2>5 DEF Consume
    <3>2. buf' \in Seq(Bytes) /\ Len(buf') = Len(buf) - n
      <4>1. n \in 0..Len(buf)
        BY <2>1
      <4> QED
        BY <2>1, <3>1, <4>1, FromType
    <3>3. TypesOK'
      BY <2>3, <3>1, <3>2 DEF IInv, TypesOK, host
    <3>4. Len(buf') < Cap
      BY <2>1, <2>2, <3>2 DEF IInv, Fits
    <3> QED
      BY <2>2, <3>1, <3>3, <3>4 DEF IInv, AtRest, Doomed, Fits
  <2> QED
    BY <2>4, <2>5
<1>9. CASE Disconnect
  BY <1>9 DEF Disconnect, DisconnectWith, IInv, TypesOK, AtRest, Doomed, Fits,
              MessageLength
<1>10. CASE TakeMessage
  BY <1>10 DEF TakeMessage, IInv, TypesOK, AtRest, Doomed, Fits, reader, host,
               MessageLength
<1>11. CASE UNCHANGED vars
  BY <1>11 DEF vars, IInv, TypesOK, AtRest, Doomed, Fits, reader, host,
               MessageLength
<1> QED
  BY <1>1, <1>2, <1>3, <1>4, <1>5, <1>6, <1>7, <1>8, <1>9, <1>10, <1>11
  DEF Next, Host, Reader

\* handle_data() and gatt_chr_event() never abort: after a rejection the buffer is
\* empty, because what rests in it never starts with a complete message.
THEOREM NoAbort == Spec => []AssertionsHold
<1>1. IInv => AssertionsHold
  BY DEF IInv, TypesOK, Fits, AssertionsHold
<1> QED
  BY <1>1, Initially, Inductive, PTL DEF Spec

\* serial_reader() always asks the driver for at least one byte.
THEOREM AlwaysRoom == Spec => []RoomToRead
<1>1. IInv => RoomToRead
  BY DEF IInv, AtRest, RoomToRead
<1> QED
  BY <1>1, Initially, Inductive, PTL DEF Spec

-----------------------------------------------------------------------------
(* Types of what the invariant above does not speak of *)

Flags ==
    /\ link \in Links /\ late \in BOOLEAN /\ elapsed \in BOOLEAN
    /\ silent \in BOOLEAN /\ owesSilence \in BOOLEAN /\ gap \in BOOLEAN

Lists ==
    /\ queue \in Seq(Messages) /\ Len(queue) <= QueueSize
    /\ sent \in Seq(Messages) /\ handled \in Seq(Messages)

Fill == Len(buf) <= Cap

LEMMA FlagsStep == Flags /\ [Next]_vars => Flags'
<1> SUFFICES ASSUME Flags, [Next]_vars PROVE Flags'
  OBVIOUS
<1> USE DEF Flags, reader, host
<1>1. ASSUME NEW m \in Messages, StartMessage(m) PROVE Flags'
  BY <1>1 DEF StartMessage
<1>2. CASE SendByte
  <2>1. owesSilence' \in BOOLEAN
    BY <1>2 DEF SendByte
  <2> QED
    BY <1>2, <2>1 DEF SendByte
<1>3. CASE BreakOff \/ TimePasses \/ Disconnect \/ TakeMessage
  BY <1>3 DEF BreakOff, TimePasses, Disconnect, DisconnectWith, TakeMessage
<1>4. CASE ReadSerial \/ ReadBle
  <2>1. gap' = FALSE /\ elapsed' = FALSE /\ UNCHANGED <<late, link, host>>
    BY <1>4 DEF ReadSerial, ReadBle, ReadBleBelow, HandleData, HandleDataWith
  <2> QED
    BY <2>1
<1>5. CASE NoMessage \/ GotMessage
  <2>1. \A b : Return(b) => late' \in {late, elapsed}
    BY DEF Return, ReturnWith
  <2>2. late' \in {late, elapsed}
    BY <1>5, <2>1 DEF NoMessage, GotMessage, Consume
  <2>3. UNCHANGED <<link, elapsed, silent, owesSilence, gap>>
    BY <1>5 DEF NoMessage, GotMessage
  <2>4. late' \in BOOLEAN
    <3>1. late' = late \/ late' = elapsed
      BY <2>2
    <3> QED
      BY <3>1, Zenon
  <2> QED
    BY <2>3, <2>4
<1>6. CASE UNCHANGED vars
  BY <1>6 DEF vars
<1> QED
  BY <1>1, <1>2, <1>3, <1>4, <1>5, <1>6 DEF Next, Host, Reader

LEMMA ListsStep == IInv /\ Lists /\ [Next]_vars => Lists'
<1> SUFFICES ASSUME IInv, Lists, [Next]_vars PROVE Lists'
  OBVIOUS
<1> USE DEF Lists, host
<1>1. CASE (\E m \in Messages : StartMessage(m)) \/ BreakOff \/ TimePasses \/ Disconnect
  BY <1>1 DEF StartMessage, BreakOff, TimePasses, Disconnect, DisconnectWith
<1>2. CASE SendByte
  <2>1. cur \in Messages /\ UNCHANGED <<queue, handled>>
    BY <1>2 DEF SendByte, IInv, TypesOK
  <2>2. sent' = sent \/ sent' = Append(sent, cur)
    BY <1>2 DEF SendByte
  <2>3. sent' \in Seq(Messages)
    <3> HIDE DEF host
    <3>1. Append(sent, cur) \in Seq(Messages)
      BY <2>1
    <3> QED
      BY <2>2, <3>1
  <2> QED
    BY <2>1, <2>3
<1>3. CASE ReadSerial \/ ReadBle \/ NoMessage \/ UNCHANGED vars
  BY <1>3 DEF ReadSerial, ReadBle, ReadBleBelow, NoMessage, vars
<1>4. CASE GotMessage
  <2>1. Head(buf)[1] \in Messages
    <3>1. buf \in Seq(Bytes) /\ buf # <<>>
      BY <1>4, MessageLengthRange DEF GotMessage, IInv, TypesOK
    <3>2. Head(buf) \in Bytes
      BY <3>1
    <3> QED
      BY <3>2 DEF Bytes
  <2>2. /\ queue' = queue \/ (Len(queue) < QueueSize /\ queue' = Append(queue, Head(buf)[1]))
        /\ handled' = handled \/ handled' = Append(handled, Head(buf)[1])
        /\ UNCHANGED sent
    BY <1>4 DEF GotMessage, Dispatch, DispatchWith
  <2>3. \A q \in Seq(Messages) : Append(q, Head(buf)[1]) \in Seq(Messages)
    BY <2>1
  <2>4. queue' \in Seq(Messages) /\ handled' \in Seq(Messages) /\ sent' \in Seq(Messages)
    BY <2>2, <2>3, Zenon
  <2>5. Len(queue') <= QueueSize
    <3>1. queue \in Seq(Messages) /\ Len(queue) \in Nat
      OBVIOUS
    <3>2. CASE Len(queue) < QueueSize /\ queue' = Append(queue, Head(buf)[1])
      <4>1. Len(queue') = Len(queue) + 1
        BY <2>1, <3>1, <3>2
      <4> QED
        BY <3>1, <3>2, <4>1
    <3> QED
      BY <2>2, <3>2
  <2> QED
    BY <2>4, <2>5
<1>5. CASE TakeMessage
  BY <1>5 DEF TakeMessage
<1> QED
  BY <1>1, <1>2, <1>3, <1>4, <1>5 DEF Next, Host, Reader

LEMMA FillStep == IInv /\ Fill /\ [Next]_vars => Fill'
<1> SUFFICES ASSUME IInv, Fill, [Next]_vars PROVE Fill'
  OBVIOUS
<1>t. buf \in Seq(Bytes) /\ line \in Seq(Bytes) /\ Len(buf) \in Nat /\ Len(<<>>) <= Cap
  BY DEF IInv, TypesOK
<1>1. CASE ReadSerial
  <2>1. PICK n \in 1..Len(line) : n <= Cap - Len(buf) /\ HandleData(n, FALSE)
    BY <1>1 DEF ReadSerial
  <2>2. SubSeq(line, 1, n) \in Seq(Bytes) /\ Len(SubSeq(line, 1, n)) = n
    BY <1>t, <2>1
  <2>3. buf' = buf \/ buf' = buf \o SubSeq(line, 1, n)
    BY <2>1 DEF HandleData, HandleDataWith
  <2> QED
    BY <1>t, <2>1, <2>2, <2>3 DEF Fill
<1>2. CASE ReadBle
  <2>1. PICK n \in 1..Len(line) :
            IF Len(buf) + n >= Cap THEN HandleData(0, TRUE) ELSE HandleData(n, FALSE)
    BY <1>2 DEF ReadBle, ReadBleBelow
  <2>2. \A k \in 0..Len(line) : SubSeq(line, 1, k) \in Seq(Bytes) /\ Len(SubSeq(line, 1, k)) = k
    BY <1>t
  <2>3. \A k, f : HandleData(k, f) => buf' = buf \/ buf' = buf \o SubSeq(line, 1, k)
    BY DEF HandleData, HandleDataWith
  <2>4. \A k \in 0..Len(line) : Len(buf) + k <= Cap => Len(buf \o SubSeq(line, 1, k)) <= Cap
    <3>1. SUFFICES ASSUME NEW k \in 0..Len(line), Len(buf) + k <= Cap
                   PROVE  Len(buf \o SubSeq(line, 1, k)) <= Cap
      OBVIOUS
    <3>2. Len(buf \o SubSeq(line, 1, k)) = Len(buf) + k
      <4>1. SubSeq(line, 1, k) \in Seq(Bytes) /\ Len(SubSeq(line, 1, k)) = k
        BY <2>2
      <4>2. \A s \in Seq(Bytes), t \in Seq(Bytes) : Len(s \o t) = Len(s) + Len(t)
        OBVIOUS
      <4> QED
        BY <1>t, <4>1, <4>2
    <3> QED
      BY <3>1, <3>2
  <2>5. CASE Len(buf) + n >= Cap
    <3>1. buf' = buf \/ buf' = buf \o SubSeq(line, 1, 0)
      BY <2>1, <2>3, <2>5
    <3>2. 0 \in 0..Len(line) /\ Len(buf) + 0 <= Cap
      BY <1>t DEF Fill
    <3> QED
      BY <2>4, <3>1, <3>2 DEF Fill
  <2>6. CASE ~(Len(buf) + n >= Cap)
    <3>1. buf' = buf \/ buf' = buf \o SubSeq(line, 1, n)
      BY <2>1, <2>3, <2>6
    <3>2. n \in 0..Len(line) /\ Len(buf) + n <= Cap
      BY <1>t, <2>6
    <3> QED
      BY <2>4, <3>1, <3>2 DEF Fill
  <2> QED
    BY <2>5, <2>6
<1>3. CASE NoMessage \/ GotMessage
  <2>1. \A b : Return(b) => buf' = b \/ (pc = "stale" /\ buf' = fresh)
    BY DEF Return, ReturnWith
  <2>2. CASE NoMessage
    BY <1>t, <2>1, <2>2 DEF NoMessage, IInv, Fits, Fill
  <2>3. CASE GotMessage
    <3>1. MessageLength(buf) \in 1..Len(buf)
      BY <1>t, <2>3, MessageLengthRange DEF GotMessage
    <3>2. From(buf, MessageLength(buf)) \in Seq(Bytes)
          /\ Len(From(buf, MessageLength(buf))) = Len(buf) - MessageLength(buf)
      <4>1. MessageLength(buf) \in 0..Len(buf)
        BY <3>1
      <4> QED
        BY <1>t, <4>1, FromType
    <3>3. buf' = <<>> \/ (pc = "stale" /\ buf' = fresh) \/ buf' = From(buf, MessageLength(buf))
      BY <2>1, <2>3 DEF GotMessage, Consume
    <3> QED
      BY <1>t, <3>1, <3>2, <3>3 DEF IInv, Fits, Fill
  <2> QED
    BY <1>3, <2>2, <2>3
<1>4. CASE Disconnect
  BY <1>t, <1>4 DEF Disconnect, DisconnectWith, Fill
<1>5. CASE Host \/ TimePasses \/ TakeMessage \/ UNCHANGED vars
  BY <1>5 DEF Host, StartMessage, SendByte, BreakOff, TimePasses, TakeMessage, vars, reader, Fill
<1> QED
  BY <1>1, <1>2, <1>3, <1>4, <1>5 DEF Next, Reader

\* Every variable keeps its type, and buffer and queue their sizes: for any messages, and
\* whether or not the queue stays full.
THEOREM TypeCorrect == Spec => []TypeOK
<1>1. Init => Flags /\ Lists /\ Fill
  <2> SUFFICES ASSUME Init PROVE Flags /\ Lists /\ Fill
    OBVIOUS
  <2>1. Flags
    BY DEF Init, Flags
  <2>2. <<>> \in Seq(Messages) /\ Len(<<>>) <= QueueSize /\ Len(<<>>) <= Cap
    OBVIOUS
  <2> QED
    BY <2>1, <2>2 DEF Init, Lists, Fill
<1>2. IInv /\ Flags /\ Lists /\ Fill => TypeOK
  <2> SUFFICES ASSUME IInv, Flags, Lists, Fill PROVE TypeOK
    OBVIOUS
  <2>1. {reject, late, elapsed, silent, owesSilence, gap} \subseteq BOOLEAN
    BY DEF IInv, TypesOK, Flags
  <2> QED
    BY <2>1 DEF IInv, TypesOK, Flags, Lists, Fill, TypeOK
<1> QED
  BY <1>1, <1>2, Initially, Inductive, FlagsStep, ListsStep, FillStep, PTL DEF Spec

-----------------------------------------------------------------------------
(* Delivery.  The bytes that the reader has yet to deal with, from its buffer and
   from the line, are the requests sent and not yet handled, whole and in order,
   and behind them a fragment that holds no request: the beginning of what the host
   is sending, or remains of what it has broken off, of noise and of messages that
   do not fit.  Each step takes something from one end or adds to the other. *)

HIDE WireAssumption

\* The bytes that the reader has yet to deal with, without those that are stale already.
Pipe == IF pc = "stale" THEN fresh \o line
        ELSE IF pc = "read" /\ late THEN line
        ELSE buf \o line

\* Messages that are no request, or that do not fit.
Bad(m) == m \in Noise \/ Oversized(m)

\* The first d bytes of p are those of the messages of s that come after the first h, one
\* after the other; c[i] is where the i-th ends.
Cuts(c, p, h, s) ==
    /\ c \in [h..Len(s) -> 0..Len(p)] /\ c[h] = 0
    /\ \A i \in h..Len(s) : \A k \in i..Len(s) : c[i] <= c[k]
    /\ \A i \in h + 1..Len(s) :
         /\ c[i] = c[i - 1] + Size[s[i]]
         /\ \A j \in 1..Size[s[i]] : p[c[i - 1] + j] = <<s[i], j>>

Whole(p, d, h, s) ==
    \E c \in [h..Len(s) -> 0..Len(p)] : Cuts(c, p, h, s) /\ c[Len(s)] = d

\* After the first d bytes of p nothing can be taken for a request.
Harmless(p, d) ==
    \A j \in d + 1..Len(p) :
        Bad(p[j][1]) \/ p[j][2] # 1 \/ Size[p[j][1]] > Len(p) - j + 1

\* How much of its message the host has sent.
Progress == Size[cur] - Len(rest)

Sending ==
    cur # None =>
        /\ Len(rest) \in 1..Size[cur]
        /\ \A j \in 1..Len(rest) : rest[j] = <<cur, Progress + j>>

\* What is behind the first d bytes of p: what the host has sent of a message so far, all
\* of it unless it is one that need not be delivered; or what it has broken off.
Fragment(p, d) ==
    /\ cur = None =>
         /\ ~owesSilence => d = Len(p)
         /\ Harmless(p, d)
    /\ cur # None =>
         /\ Len(handled) < Len(sent) \/ ~Bad(cur) =>
              Len(p) - d = Progress /\ \A j \in 1..Progress : p[d + j] = <<cur, j>>
         /\ Bad(cur) => \A j \in d + 1..Len(p) : p[j][1] = cur
    /\ Len(handled) < Len(sent) /\ d < Len(p) => p[d + 1][2] = 1

\* All requests sent and not yet handled are in the pipe, and then such a fragment.
InPipe ==
    \E d \in 0..Len(Pipe) : Whole(Pipe, d, Len(handled), sent) /\ Fragment(Pipe, d)

\* The requests handled are among those sent, which can be delivered.
History ==
    /\ handled \in Seq(Messages) /\ sent \in Seq(Messages)
    /\ Len(handled) <= Len(sent)
    /\ \A i \in 1..Len(handled) : handled[i] = sent[i]
    /\ \A i \in 1..Len(sent) : ~Bad(sent[i])

\* What BLE rejects for want of room is not a request, and not the start of one that is to come.
Forced ==
    pc = "force" /\ buf # <<>> =>
        Len(handled) = Len(sent) /\ (cur # None => Bad(cur))

\* In a buffer with nothing to reject there is room; with BLE always.
Rejects ==
    /\ pc = "parse" /\ reject => Len(buf) = Cap
    /\ link = "ble" => (pc = "parse" => Len(buf) < Cap)
       /\ (pc = "stale" => Len(fresh) < Cap)

\* Bytes at rest are late only when the host has been silent.
Quiet ==
    /\ ~elapsed
    /\ pc = "read" /\ late => IF line = <<>> THEN silent ELSE gap

DInv == History /\ Sending /\ InPipe /\ Forced /\ Rejects /\ Quiet

-----------------------------------------------------------------------------
\* Helpers.
LEMMA Shift ==
    ASSUME NEW z \in Nat, NEW a \in Nat, NEW k \in Nat, a >= z
    PROVE  /\ (a + k) - z = (a - z) + k
           /\ z + ((a - z) + k) = a + k
           /\ k > 0 => (a - z) + k \in Nat \ {0}
  OBVIOUS

LEMMA FromAt ==
    ASSUME NEW b \in Seq(Bytes), NEW n \in 0..Len(b)
    PROVE  /\ From(b, n) \in Seq(Bytes) /\ Len(From(b, n)) = Len(b) - n
           /\ \A j \in 1..Len(From(b, n)) : From(b, n)[j] = b[n + j]
  BY DEF From

LEMMA Sizes == Size \in [Messages -> Nat \ {0}]
BY WireAssumption

\* The i-th message, where c says that it is.
CutAt(c, p, s, d, i) ==
    /\ s[i] \in Messages /\ Size[s[i]] \in Nat \ {0}
    /\ c[i - 1] \in Nat /\ c[i] \in Nat
    /\ c[i] = c[i - 1] + Size[s[i]] /\ c[i] <= d
    /\ \A j \in 1..Size[s[i]] : p[c[i - 1] + j] = <<s[i], j>> /\ c[i - 1] + j \in 1..d

\* Where a message ends is behind where it starts, and not behind the last.
LEMMA CutsRange ==
    ASSUME NEW p \in Seq(Bytes), NEW d \in 0..Len(p), NEW s \in Seq(Messages),
           NEW h \in 0..Len(s), NEW c \in [h..Len(s) -> 0..Len(p)],
           Cuts(c, p, h, s), c[Len(s)] = d
    PROVE  \A i \in h + 1..Len(s) : CutAt(c, p, s, d, i)
<1> SUFFICES ASSUME NEW i \in h + 1..Len(s) PROVE CutAt(c, p, s, d, i)
  OBVIOUS
<1>1. i \in 1..Len(s) /\ i \in h..Len(s) /\ i - 1 \in h..Len(s) /\ Len(s) \in h..Len(s)
        /\ Len(s) \in i..Len(s)
  OBVIOUS
<1>2. s[i] \in Messages
  BY <1>1
<1>3. Size[s[i]] \in Nat \ {0}
  BY <1>2, Sizes
<1>4. c[i - 1] \in Nat /\ c[i] \in Nat
  <2>1. c[i - 1] \in 0..Len(p) /\ c[i] \in 0..Len(p)
    BY <1>1
  <2> QED
    BY <2>1
<1>5. c[i] = c[i - 1] + Size[s[i]] /\ c[i] <= d
  BY <1>1 DEF Cuts
<1>6. \A j \in 1..Size[s[i]] : p[c[i - 1] + j] = <<s[i], j>>
  BY DEF Cuts
<1>7. \A j \in 1..Size[s[i]] : c[i - 1] + j \in 1..d
  <2>1. \A m, n \in Nat : m + n <= d => \A j \in 1..n : m + j \in 1..d
    OBVIOUS
  <2>2. c[i - 1] + Size[s[i]] <= d
    BY <1>5
  <2> QED
    BY <1>3, <1>4, <2>1, <2>2
<1> QED
  BY <1>1, <1>2, <1>3, <1>4, <1>5, <1>6, <1>7 DEF CutAt

\* Nothing is in no bytes.
LEMMA WholeNone ==
    ASSUME NEW p \in Seq(Bytes), NEW s \in Seq(Messages)
    PROVE  /\ Whole(p, 0, Len(s), s)
           /\ \A d \in Nat : Whole(p, d, Len(s), s) => d = 0
<1>1. Whole(p, 0, Len(s), s)
  <2> DEFINE c == [i \in Len(s)..Len(s) |-> 0]
  <2>1. c \in [Len(s)..Len(s) -> 0..Len(p)] /\ c[Len(s)] = 0
    OBVIOUS
  <2>2. Cuts(c, p, Len(s), s)
    BY <2>1 DEF Cuts
  <2> QED
    BY <2>1, <2>2 DEF Whole
<1>2. \A d \in Nat : Whole(p, d, Len(s), s) => d = 0
  BY DEF Whole, Cuts
<1> QED
  BY <1>1, <1>2

\* What is behind the first d bytes does not matter.
LEMMA WholeGrows ==
    ASSUME NEW p \in Seq(Bytes), NEW q \in Seq(Bytes), NEW d \in 0..Len(p),
           NEW s \in Seq(Messages), NEW h \in 0..Len(s), Whole(p, d, h, s),
           Len(p) <= Len(q), \A j \in 1..d : q[j] = p[j]
    PROVE  Whole(q, d, h, s)
<1>1. PICK c \in [h..Len(s) -> 0..Len(p)] : Cuts(c, p, h, s) /\ c[Len(s)] = d
  BY DEF Whole
<1>c. \A i \in h + 1..Len(s) : CutAt(c, p, s, d, i)
  BY <1>1, CutsRange
<1>2. c \in [h..Len(s) -> 0..Len(q)]
  OBVIOUS
<1>3. ASSUME NEW i \in h + 1..Len(s), NEW j \in 1..Size[s[i]]
      PROVE  q[c[i - 1] + j] = <<s[i], j>>
  <2>1. p[c[i - 1] + j] = <<s[i], j>> /\ c[i - 1] + j \in 1..d
    BY <1>c DEF CutAt
  <2> QED
    BY <2>1
<1>4. Cuts(c, q, h, s)
  BY <1>1, <1>2, <1>3 DEF Cuts
<1> QED
  BY <1>1, <1>2, <1>4 DEF Whole

\* A message whose last byte has come.
LEMMA WholeEnds ==
    ASSUME NEW p \in Seq(Bytes), NEW d \in 0..Len(p), NEW s \in Seq(Messages),
           NEW h \in 0..Len(s), NEW m \in Messages, Whole(p, d, h, s),
           Len(p) = d + Size[m], \A j \in 1..Size[m] : p[d + j] = <<m, j>>
    PROVE  Whole(p, Len(p), h, Append(s, m))
<1> DEFINE t == Append(s, m)
<1>1. t \in Seq(Messages) /\ Len(t) = Len(s) + 1 /\ t[Len(s) + 1] = m
      /\ \A i \in 1..Len(s) : t[i] = s[i]
  OBVIOUS
<1>2. PICK c \in [h..Len(s) -> 0..Len(p)] : Cuts(c, p, h, s) /\ c[Len(s)] = d
  BY DEF Whole
<1>c. \A i \in h + 1..Len(s) : CutAt(c, p, s, d, i)
  BY <1>2, CutsRange
<1> DEFINE e == [i \in h..Len(s) + 1 |-> IF i = Len(s) + 1 THEN Len(p) ELSE c[i]]
<1> HIDE DEF t
<1>3. /\ e \in [h..Len(t) -> 0..Len(p)] /\ e[Len(t)] = Len(p) /\ e[h] = 0
      /\ \A i \in h..Len(s) : e[i] = c[i]
  BY <1>1, <1>2 DEF Cuts
<1>4. \A i \in h..Len(t) : \A k \in i..Len(t) : e[i] <= e[k]
  BY <1>1, <1>2, <1>3 DEF Cuts
<1> HIDE DEF e
<1>5. ASSUME NEW i \in h + 1..Len(t)
      PROVE  e[i] = e[i - 1] + Size[t[i]]
          /\ \A j \in 1..Size[t[i]] : p[e[i - 1] + j] = <<t[i], j>>
  <2>1. CASE i = Len(t)
    <3>1. t[i] = m /\ e[i] = Len(p) /\ e[i - 1] = d
      BY <1>1, <1>2, <1>3, <2>1
    <3> QED
      BY <3>1
  <2>2. CASE i # Len(t)
    <3>1. i \in h + 1..Len(s) /\ i \in 1..Len(s)
      BY <1>1, <2>2
    <3>2. t[i] = s[i]
      BY <1>1, <3>1
    <3>3. i \in h..Len(s) /\ i - 1 \in h..Len(s)
      BY <3>1
    <3>4. e[i] = c[i] /\ e[i - 1] = c[i - 1]
      BY <1>3, <3>3
    <3> QED
      BY <1>c, <3>1, <3>2, <3>4 DEF CutAt
  <2> QED
    BY <2>1, <2>2
<1>6. Cuts(e, p, h, t)
  BY <1>3, <1>4, <1>5 DEF Cuts
<1> QED
  BY <1>3, <1>6 DEF Whole, t

\* The first message, and what follows it.
LEMMA WholeFirst ==
    ASSUME NEW p \in Seq(Bytes), NEW d \in 0..Len(p), NEW s \in Seq(Messages),
           NEW h \in 0..Len(s), h < Len(s), Whole(p, d, h, s)
    PROVE  LET m == s[h + 1] IN
           /\ m \in Messages /\ Size[m] \in 1..d
           /\ \A j \in 1..Size[m] : p[j] = <<m, j>>
           /\ Size[m] < d => h + 1 < Len(s) /\ p[Size[m] + 1][2] = 1
<1> DEFINE m == s[h + 1]
<1>1. PICK c \in [h..Len(s) -> 0..Len(p)] : Cuts(c, p, h, s) /\ c[Len(s)] = d
  BY DEF Whole
<1>c. \A i \in h + 1..Len(s) : CutAt(c, p, s, d, i)
  BY <1>1, CutsRange
<1>2. m \in Messages /\ Size[m] \in Nat \ {0}
  BY Sizes
<1> HIDE DEF m
<1>3. c[h] = 0
  BY <1>1 DEF Cuts
<1>4. /\ c[h + 1] = Size[m] /\ Size[m] <= d
      /\ \A j \in 1..Size[m] : p[j] = <<m, j>>
  <2>1. h + 1 \in h + 1..Len(s) /\ (h + 1) - 1 = h
    OBVIOUS
  <2>2. /\ c[h + 1] = c[h] + Size[m] /\ c[h + 1] <= d
        /\ \A j \in 1..Size[m] : p[c[h] + j] = <<m, j>>
    BY <1>c, <2>1 DEF CutAt, m
  <2> QED
    BY <1>2, <1>3, <2>2
<1>5. ASSUME Size[m] < d PROVE h + 1 < Len(s) /\ p[Size[m] + 1][2] = 1
  <2>1. h + 1 < Len(s)
    BY <1>1, <1>2, <1>4, <1>5
  <2>2. h + 2 \in h + 1..Len(s) /\ (h + 2) - 1 = h + 1
    BY <2>1
  <2>3. Size[s[h + 2]] \in Nat \ {0}
          /\ \A j \in 1..Size[s[h + 2]] : p[c[h + 1] + j] = <<s[h + 2], j>>
    BY <1>c, <2>2 DEF CutAt
  <2>4. p[c[h + 1] + 1] = <<s[h + 2], 1>>
    <3>1. 1 \in 1..Size[s[h + 2]]
      BY <2>3
    <3> QED
      BY <2>3, <3>1
  <2> QED
    BY <1>2, <1>4, <2>1, <2>4
<1> QED
  BY <1>2, <1>3, <1>4, <1>5 DEF m

\* When the first message goes, the others are still whole.
LEMMA WholeRest ==
    ASSUME NEW p \in Seq(Bytes), NEW d \in 0..Len(p), NEW s \in Seq(Messages),
           NEW h \in 0..Len(s), h < Len(s), Whole(p, d, h, s),
           NEW z \in Nat, z = Size[s[h + 1]]
    PROVE  z <= d /\ Whole(From(p, z), d - z, h + 1, s)
<1>1. PICK c \in [h..Len(s) -> 0..Len(p)] : Cuts(c, p, h, s) /\ c[Len(s)] = d
  BY DEF Whole
<1>c. \A i \in h + 1..Len(s) : CutAt(c, p, s, d, i)
  BY <1>1, CutsRange
<1>2. c[h] = 0 /\ c[h + 1] = z /\ z <= d
  <2>1. c[h] = 0
    BY <1>1 DEF Cuts
  <2>2. h + 1 \in h + 1..Len(s) /\ (h + 1) - 1 = h
    OBVIOUS
  <2> QED
    BY <1>c, <2>1, <2>2 DEF CutAt
<1> DEFINE q == From(p, z)
<1>b. q \in Seq(Bytes) /\ Len(q) = Len(p) - z /\ \A j \in 1..Len(q) : q[j] = p[z + j]
  BY <1>2, FromAt
<1>q. Len(q) = Len(p) - z
  BY <1>b
<1> HIDE DEF q
<1> DEFINE e == [i \in h + 1..Len(s) |-> c[i] - z]
<1>3. \A i \in h + 1..Len(s) : c[i] \in z..d
  <2> SUFFICES ASSUME NEW i \in h + 1..Len(s) PROVE c[i] \in z..d
    OBVIOUS
  <2>1. h + 1 \in h..Len(s) /\ i \in h..Len(s)
    OBVIOUS
  <2>2. c[h + 1] <= c[i]
    BY <1>1, <2>1 DEF Cuts
  <2> QED
    BY <1>2, <1>c, <2>2 DEF CutAt
<1>4. /\ e \in [h + 1..Len(s) -> 0..Len(q)] /\ e[h + 1] = 0 /\ e[Len(s)] = d - z
      /\ \A i \in h + 1..Len(s) : e[i] = c[i] - z
  <2>1. \A i \in h + 1..Len(s) : c[i] - z \in 0..Len(q)
    <3>1. \A x \in z..d : x - z \in 0..Len(p) - z
      BY <1>2
    <3> QED
      BY <1>3, <1>q, <3>1
  <2>2. e \in [h + 1..Len(s) -> 0..Len(q)]
    BY <2>1
  <2>3. h + 1 \in h + 1..Len(s) /\ Len(s) \in h + 1..Len(s) /\ z - z = 0
    OBVIOUS
  <2> QED
    BY <1>1, <1>2, <2>2, <2>3
<1>5. \A i \in h + 1..Len(s) : \A k \in i..Len(s) : e[i] <= e[k]
  <2> SUFFICES ASSUME NEW i \in h + 1..Len(s), NEW k \in i..Len(s) PROVE e[i] <= e[k]
    OBVIOUS
  <2>1. i \in h..Len(s) /\ k \in h + 1..Len(s)
    OBVIOUS
  <2>2. c[i] <= c[k]
    BY <1>1, <2>1 DEF Cuts
  <2> QED
    BY <1>3, <1>4, <2>1, <2>2
<1> HIDE DEF e
<1>6. ASSUME NEW i \in (h + 1) + 1..Len(s)
      PROVE  e[i] = e[i - 1] + Size[s[i]]
          /\ \A j \in 1..Size[s[i]] : q[e[i - 1] + j] = <<s[i], j>>
  <2>1. i \in h + 1..Len(s) /\ i - 1 \in h + 1..Len(s)
    OBVIOUS
  <2>2. e[i] = c[i] - z /\ e[i - 1] = c[i - 1] - z /\ c[i - 1] \in z..d /\ c[i] \in z..d
    BY <1>3, <1>4, <2>1
  <2>3. /\ Size[s[i]] \in Nat /\ c[i] = c[i - 1] + Size[s[i]]
        /\ \A j \in 1..Size[s[i]] : p[c[i - 1] + j] = <<s[i], j>> /\ c[i - 1] + j \in 1..d
    BY <1>c, <2>1 DEF CutAt
  <2>4. ASSUME NEW j \in 1..Size[s[i]] PROVE q[e[i - 1] + j] = <<s[i], j>>
    <3>1. PICK a \in z..d : a = c[i - 1] /\ e[i - 1] = a - z
      BY <2>2
    <3>2. a + j \in 1..d /\ j \in Nat /\ j >= 1
      BY <2>3, <3>1
    <3>3. (a - z) + j \in 1..Len(q) /\ z + ((a - z) + j) = a + j
      <4>1. a \in Nat /\ a >= z /\ j > 0 /\ a + j <= Len(p) /\ Len(p) \in Nat
        BY <3>2
      <4>2. (a + j) - z = (a - z) + j /\ z + ((a - z) + j) = a + j
              /\ (a - z) + j \in Nat \ {0}
        <5>1. a \in Nat /\ a >= z /\ j \in Nat /\ j > 0
          BY <3>2, <4>1
        <5> QED
          BY <5>1, Shift
      <4>3. (a - z) + j <= Len(q)
        BY <4>1, <4>2, <1>q
      <4> QED
        BY <4>2, <4>3
    <3>4. q[(a - z) + j] = <<s[i], j>>
      BY <2>3, <3>1, <3>3, <1>b
    <3> QED
      BY <3>1, <3>4
  <2>5. e[i] = e[i - 1] + Size[s[i]]
    <3>1. PICK a \in z..d : a = c[i - 1] /\ e[i - 1] = a - z
      BY <2>2
    <3>2. PICK b \in z..d : b = c[i] /\ e[i] = b - z
      BY <2>2
    <3>3. PICK k \in Nat : k = Size[s[i]] /\ b = a + k
      BY <2>3, <3>1, <3>2
    <3>4. a \in Nat /\ a >= z
      OBVIOUS
    <3>5. (a + k) - z = (a - z) + k
      BY <3>4, Shift
    <3> QED
      BY <3>1, <3>2, <3>3, <3>5, Zenon
  <2> QED
    BY <2>4, <2>5
<1>7. Cuts(e, q, h + 1, s)
  BY <1>4, <1>5, <1>6 DEF Cuts
<1> QED
  BY <1>2, <1>4, <1>7 DEF Whole, q

-----------------------------------------------------------------------------
\* What the steps start from.
DeliveryInv == IInv /\ DInv

\* Types.
LEMMA PipeType == ASSUME IInv PROVE Pipe \in Seq(Bytes)
BY DEF IInv, TypesOK, Pipe

LEMMA ByteType ==
    ASSUME NEW b \in Bytes
    PROVE  b[1] \in Messages /\ b[2] \in 1..Size[b[1]] /\ b = <<b[1], b[2]>>
BY DEF Bytes

\* Cutting and joining.
LEMMA CutInTwo ==
    ASSUME NEW b \in Seq(Bytes), NEW n \in 0..Len(b)
    PROVE  SubSeq(b, 1, n) \in Seq(Bytes) /\ Len(SubSeq(b, 1, n)) = n
        /\ SubSeq(b, 1, n) \o From(b, n) = b
<1>1. SubSeq(b, 1, n) \in Seq(Bytes) /\ Len(SubSeq(b, 1, n)) = n
  OBVIOUS
<1>2. SubSeq(b, 1, n) \o SubSeq(b, n + 1, Len(b)) = SubSeq(b, 1, Len(b))
  <2>1. 1 \in 1..Len(b) + 1 /\ n \in 1 - 1..Len(b) /\ Len(b) \in n..Len(b)
    OBVIOUS
  <2> QED
    BY <2>1, ConcatAdjacentSubSeq
<1>3. SubSeq(b, 1, Len(b)) = b
  BY SubSeqFull
<1> QED
  BY <1>1, <1>2, <1>3 DEF From

LEMMA FromJoined ==
    ASSUME NEW a \in Seq(Bytes), NEW b \in Seq(Bytes)
    PROVE  From(a \o b, Len(a)) = b
BY DEF From

LEMMA Joined ==
    ASSUME NEW a \in Seq(Bytes), NEW b \in Seq(Bytes)
    PROVE  /\ a \o b \in Seq(Bytes) /\ Len(a \o b) = Len(a) + Len(b)
           /\ \A j \in 1..Len(a) : (a \o b)[j] = a[j]
           /\ \A j \in 1..Len(b) : (a \o b)[Len(a) + j] = b[j]
           /\ <<>> \o b = b /\ a \o <<>> = a
<1>1. a \o b \in Seq(Bytes) /\ Len(a \o b) = Len(a) + Len(b)
  OBVIOUS
<1>2. /\ \A j \in 1..Len(a) : (a \o b)[j] = a[j]
      /\ \A j \in 1..Len(b) : (a \o b)[Len(a) + j] = b[j]
  OBVIOUS
<1>3. <<>> \o b = b /\ a \o <<>> = a
  OBVIOUS
<1> QED
  BY <1>1, <1>2, <1>3

LEMMA JoinedOne ==
    ASSUME NEW a \in Seq(Bytes), NEW b \in Seq(Bytes), NEW x \in Bytes
    PROVE  a \o Append(b, x) = Append(a \o b, x)
  OBVIOUS

LEMMA Assoc == ASSUME NEW x \in Seq(Bytes), NEW y \in Seq(Bytes), NEW z \in Seq(Bytes)
               PROVE  (x \o y) \o z = x \o (y \o z)
<1> DEFINE S == Bytes
<1>1. x \in Seq(S) /\ y \in Seq(S) /\ z \in Seq(S)
  OBVIOUS
<1> HIDE DEF S
<1> QED
  BY <1>1, ConcatAssociative

\* New bytes go from the line to the buffer.
LEMMA JoinedNew ==
    ASSUME NEW a \in Seq(Bytes), NEW b \in Seq(Bytes), NEW n \in 0..Len(b)
    PROVE  (a \o SubSeq(b, 1, n)) \o From(b, n) = a \o b
<1> DEFINE c == SubSeq(b, 1, n)
           e == From(b, n)
<1>1. c \in Seq(Bytes) /\ c \o e = b /\ e \in Seq(Bytes)
  BY CutInTwo, FromAt
<1> HIDE DEF c, e
<1>2. (a \o c) \o e = a \o (c \o e)
  BY <1>1, Assoc
<1> QED
  BY <1>1, <1>2 DEF c, e

\* And the first ones out of it.
LEMMA JoinedRest ==
    ASSUME NEW a \in Seq(Bytes), NEW b \in Seq(Bytes), NEW n \in 0..Len(a)
    PROVE  From(a, n) \o b = From(a \o b, n)
<1> DEFINE c == SubSeq(a, 1, n)
           e == From(a, n)
<1>1. c \in Seq(Bytes) /\ Len(c) = n /\ c \o e = a /\ e \in Seq(Bytes)
  BY CutInTwo, FromAt
<1> HIDE DEF c, e
<1>2. a \o b = c \o (e \o b)
  <2>1. (c \o e) \o b = c \o (e \o b)
    BY <1>1, Assoc
  <2> QED
    BY <1>1, <2>1
<1>3. e \o b \in Seq(Bytes)
  BY <1>1, Joined
<1>4. From(c \o (e \o b), Len(c)) = e \o b
  BY <1>1, <1>3, FromJoined
<1> QED
  BY <1>1, <1>2, <1>4 DEF e

\* A step that leaves the pipe and the host alone.
LEMMA SamePipe ==
    ASSUME InPipe, Pipe' = Pipe, UNCHANGED <<host, handled, link>>
    PROVE  InPipe'
BY DEF InPipe, Fragment, Harmless, Bad, Oversized, Progress, host

\* When a request is still to be handled, the buffer starts with it.
LEMMA NextThere ==
    ASSUME DeliveryInv, Len(handled) < Len(sent), Pipe = buf \o line, buf # <<>>
    PROVE  LET m == sent[Len(handled) + 1] IN
           /\ m \in Messages /\ ~Bad(m) /\ Size[m] \in 1..Len(Pipe)
           /\ Head(buf) = <<m, 1>> /\ Item[Head(buf)] = Size[m]
           /\ \A j \in 1..Len(buf) : j <= Size[m] => buf[j] = <<m, j>>
<1> DEFINE m == sent[Len(handled) + 1]
<1>1. PICK d \in 0..Len(Pipe) : Whole(Pipe, d, Len(handled), sent)
  BY DEF DeliveryInv, DInv, InPipe
<1>2. sent \in Seq(Messages) /\ Len(handled) \in 0..Len(sent) /\ Pipe \in Seq(Bytes)
        /\ buf \in Seq(Bytes) /\ line \in Seq(Bytes)
  BY PipeType DEF DeliveryInv, DInv, History, IInv, TypesOK
<1>3. m \in Messages /\ Size[m] \in 1..d /\ \A j \in 1..Size[m] : Pipe[j] = <<m, j>>
  BY <1>1, <1>2, WholeFirst
<1>4. ~Bad(m)
  BY <1>2 DEF DeliveryInv, DInv, History
<1>5. \A j \in 1..Len(buf) : buf[j] = Pipe[j]
  BY <1>2, Joined
<1>6. Len(buf) >= 1 /\ Head(buf) = buf[1]
  BY <1>2
<1>7. Head(buf) = <<m, 1>>
  BY <1>3, <1>5, <1>6
<1>8. Item[<<m, 1>>] = Size[m]
  BY <1>3, <1>4, WireAssumption DEF Bad
<1> HIDE DEF m
<1>9. \A j \in 1..Len(buf) : j <= Size[m] => buf[j] = <<m, j>>
  BY <1>3, <1>5
<1>10. Size[m] \in 1..Len(Pipe)
  BY <1>2, <1>3
<1> QED
  BY <1>3, <1>4, <1>7, <1>8, <1>9, <1>10 DEF m

\* At rest, with nothing on the line, all has been handled.
LEMMA AllDone ==
    ASSUME DeliveryInv, pc = "read", line = <<>>
    PROVE  Len(handled) = Len(sent)
<1> SUFFICES ASSUME Len(handled) < Len(sent) PROVE FALSE
  BY DEF DeliveryInv, DInv, History
<1>1. PICK d \in 0..Len(Pipe) : Whole(Pipe, d, Len(handled), sent)
  BY DEF DeliveryInv, DInv, InPipe
<1>2. sent \in Seq(Messages) /\ Len(handled) \in 0..Len(sent) /\ Pipe \in Seq(Bytes)
        /\ buf \in Seq(Bytes) /\ line \in Seq(Bytes)
  BY PipeType DEF DeliveryInv, DInv, History, IInv, TypesOK
<1>3. Len(Pipe) > 0
  BY <1>1, <1>2, WholeFirst
<1>4. Pipe = buf \o line /\ Pipe = buf /\ buf # <<>>
  BY <1>2, <1>3, Joined DEF Pipe
<1>5. MessageLength(buf) > 0
  BY <1>2, <1>4, NextThere DEF MessageLength
<1> QED
  BY <1>5 DEF DeliveryInv, IInv, AtRest

\* What the invariant says about types.
LEMMA PartsType ==
    ASSUME DeliveryInv
    PROVE  /\ buf \in Seq(Bytes) /\ line \in Seq(Bytes) /\ fresh \in Seq(Bytes)
        /\ rest \in Seq(Bytes)
           /\ Pipe \in Seq(Bytes)
           /\ sent \in Seq(Messages) /\ handled \in Seq(Messages)
              /\ Len(handled) \in 0..Len(sent)
BY PipeType DEF DeliveryInv, DInv, History, IInv, TypesOK

\* What the host has sent of a message is less than all.
LEMMA ProgressType ==
    ASSUME DeliveryInv, cur # None
    PROVE  /\ cur \in Messages /\ Size[cur] \in Nat \ {0} /\ Progress \in 0..Size[cur] - 1
           /\ Len(rest) \in 1..Size[cur] /\ Len(rest) = Size[cur] - Progress
BY Sizes DEF DeliveryInv, DInv, Sending, Progress, IInv, TypesOK

\* When no request is left to be handled, what is parsed is not taken for one.
LEMMA NothingThere ==
    ASSUME DeliveryInv, Len(handled) = Len(sent), pc = "parse", buf # <<>>,
           MessageLength(buf) > 0
    PROVE  /\ cur # None => Bad(cur)
           /\ Head(buf)[1] \in Noise \/ Head(buf)[2] # 1
<1>1. PICK d \in 0..Len(Pipe) : Whole(Pipe, d, Len(handled), sent) /\ Fragment(Pipe, d)
  BY DEF DeliveryInv, DInv, InPipe
<1>2. d = 0
  BY <1>1, PartsType, WholeNone
<1>3. Fragment(Pipe, 0)
  BY <1>1, <1>2
<1>4. Pipe = buf \o line
  BY DEF Pipe
<1>5. Len(buf) \in 1..Len(Pipe) /\ Head(buf) = buf[1] /\ buf[1] = Pipe[1]
  BY <1>4, PartsType, Joined
<1> DEFINE b == Head(buf)
<1>6. b \in Bytes /\ b = Pipe[1] /\ b[1] \in Messages /\ b = <<b[1], b[2]>>
  <2>1. b \in Bytes
    BY <1>5, PartsType
  <2> QED
    BY <1>5, <2>1, ByteType
<1>7. Item[b] <= Len(buf)
  <2>1. Item[b] \in Nat /\ Len(buf) \in Nat
    BY <1>6, PartsType, WireAssumption
  <2> QED
    BY <2>1 DEF MessageLength
<1> HIDE DEF b
<1>8. b[1] \notin Noise /\ b[2] = 1 => Size[b[1]] <= Len(buf) /\ ~Bad(b[1])
  <2> SUFFICES ASSUME b[1] \notin Noise, b[2] = 1 PROVE Size[b[1]] <= Len(buf) /\ ~Bad(b[1])
    OBVIOUS
  <2>1. Item[<<b[1], 1>>] = Size[b[1]] /\ Size[b[1]] \in Nat
    BY <1>6, WireAssumption
  <2>2. Size[b[1]] <= Len(buf)
    BY <1>6, <1>7, <2>1
  <2>3. Len(buf) <= Cap /\ (link = "ble" => Len(buf) < Cap) /\ Cap \in Nat
    BY WireAssumption DEF DeliveryInv, DInv, Rejects, IInv, Fits
  <2> QED
    BY <1>5, <2>1, <2>2, <2>3 DEF Bad, Oversized
<1>9. ASSUME cur # None PROVE Bad(cur)
  <2> SUFFICES ASSUME ~Bad(cur) PROVE FALSE
    OBVIOUS
  <2>1. Len(Pipe) = Progress /\ \A j \in 1..Progress : Pipe[j] = <<cur, j>>
    <3>1. Len(Pipe) - 0 = Progress /\ \A j \in 1..Progress : Pipe[0 + j] = <<cur, j>>
      BY <1>3, <1>9 DEF Fragment
    <3> QED
      BY <3>1, <1>9, ProgressType, PartsType
  <2>2. b = <<cur, 1>>
    BY <1>5, <1>6, <2>1
  <2>3. Size[cur] <= Len(buf)
    BY <1>8, <2>2 DEF Bad
  <2> QED
    BY <1>5, <1>9, <2>1, <2>3, ProgressType
<1>10. ASSUME b[1] \notin Noise, b[2] = 1 PROVE FALSE
  <2>1. CASE cur # None
    <3>1. Pipe[1][1] = cur
      BY <1>3, <1>5, <1>9, <2>1 DEF Fragment
    <3> QED
      BY <1>6, <1>8, <1>9, <1>10, <2>1, <3>1
  <2>2. CASE cur = None
    <3>1. Harmless(Pipe, 0)
      BY <1>3, <2>2 DEF Fragment
    <3>2. Bad(b[1]) \/ Size[b[1]] > Len(Pipe)
      BY <1>5, <1>6, <1>10, <3>1 DEF Harmless
    <3> QED
      BY <1>5, <1>6, <1>8, <1>10, <3>2, Sizes
  <2> QED
    BY <2>1, <2>2
<1> QED
  BY <1>9, <1>10 DEF b

\* What is harmless stays so when bytes before it, or some of it, are gone.
LEMMA HarmlessFrom ==
    ASSUME NEW p \in Seq(Bytes), NEW d \in 0..Len(p), NEW n \in 0..Len(p),
        NEW e \in 0..Len(p) - n,
           d <= n + e, Harmless(p, d)
    PROVE  Harmless(From(p, n), e)
<1> DEFINE q == From(p, n)
<1>1. q \in Seq(Bytes) /\ Len(q) = Len(p) - n /\ \A j \in 1..Len(q) : q[j] = p[n + j]
  BY FromAt
<1> HIDE DEF q
<1> SUFFICES ASSUME NEW j \in e + 1..Len(q)
             PROVE  Bad(q[j][1]) \/ q[j][2] # 1 \/ Size[q[j][1]] > Len(q) - j + 1
  BY DEF Harmless, q
<1>2. n + j \in d + 1..Len(p) /\ q[j] = p[n + j] /\ Len(q) - j + 1 = Len(p) - (n + j) + 1
  BY <1>1
<1> QED
  BY <1>2 DEF Harmless

\* And what is all of one message.
LEMMA OneFrom ==
    ASSUME NEW p \in Seq(Bytes), NEW d \in 0..Len(p), NEW n \in 0..Len(p),
        NEW e \in 0..Len(p) - n,
           d <= n + e, NEW m \in Messages, \A j \in d + 1..Len(p) : p[j][1] = m
    PROVE  \A j \in e + 1..Len(From(p, n)) : From(p, n)[j][1] = m
<1> DEFINE q == From(p, n)
<1>1. q \in Seq(Bytes) /\ Len(q) = Len(p) - n /\ \A j \in 1..Len(q) : q[j] = p[n + j]
  BY FromAt
<1> HIDE DEF q
<1> SUFFICES ASSUME NEW j \in e + 1..Len(q)
             PROVE  q[j][1] = m
  BY DEF q
<1>2. n + j \in d + 1..Len(p) /\ q[j] = p[n + j]
  BY <1>1
<1> QED
  BY <1>2

\* Bytes go that are behind all requests.
LEMMA Dropped ==
    ASSUME DeliveryInv, Len(handled) = Len(sent), cur # None => Bad(cur),
           NEW n \in 0..Len(Pipe), Pipe' = From(Pipe, n), UNCHANGED <<host, handled, link>>
    PROVE  InPipe'
<1>1. PICK d \in 0..Len(Pipe) : Whole(Pipe, d, Len(handled), sent) /\ Fragment(Pipe, d)
  BY DEF DeliveryInv, DInv, InPipe
<1>2. d = 0 /\ Fragment(Pipe, 0)
  BY <1>1, PartsType, WholeNone
<1>3. Pipe' \in Seq(Bytes) /\ Len(Pipe') = Len(Pipe) - n /\ Len(Pipe) \in Nat
  <2>1. Pipe \in Seq(Bytes) /\ Len(Pipe) \in Nat
    BY PartsType
  <2>2. From(Pipe, n) \in Seq(Bytes) /\ Len(From(Pipe, n)) = Len(Pipe) - n
    BY <2>1, FromAt
  <2> QED
    BY <2>1, <2>2
<1>4. Whole(Pipe', 0, Len(handled'), sent')
  BY <1>3, PartsType, WholeNone DEF host
<1>5. Bad(cur)' = Bad(cur) /\ cur' = cur /\ owesSilence' = owesSilence
  BY DEF Bad, Oversized, host
<1>6. cur = None => Harmless(Pipe', 0) /\ (~owesSilence => Len(Pipe') = 0)
  BY <1>2, <1>3, HarmlessFrom, PartsType DEF Fragment
<1>7. cur # None => \A j \in 0 + 1..Len(Pipe') : Pipe'[j][1] = cur
  <2> SUFFICES ASSUME cur # None
        PROVE \A j \in 0 + 1..Len(From(Pipe, n)) : From(Pipe, n)[j][1] = cur
    OBVIOUS
  <2>1. \A j \in 0 + 1..Len(Pipe) : Pipe[j][1] = cur
    BY <1>2 DEF Fragment
  <2>2. 0 \in 0..Len(Pipe) /\ 0 \in 0..Len(Pipe) - n /\ 0 <= n + 0
          /\ Pipe \in Seq(Bytes) /\ cur \in Messages
    BY <1>3, PartsType, ProgressType
  <2> QED
    BY <2>1, <2>2, OneFrom
<1>8. Harmless(Pipe', 0) => Harmless(Pipe, 0)'
  BY DEF Harmless, Bad, Oversized
<1>9. Fragment(Pipe, 0)'
  BY <1>3, <1>5, <1>6, <1>7, <1>8 DEF Fragment, host
<1> QED
  BY <1>3, <1>4, <1>9 DEF InPipe

\* Positions, when the first n of L bytes go.
LEMMA Less ==
    ASSUME NEW L \in Nat, NEW M \in Nat, NEW n \in Nat, NEW d \in Nat, n <= d, d <= L,
        M = L - n
    PROVE  \E k \in 0..M : /\ k = d - n /\ d = n + k /\ M - k = L - d /\ k \in 0..L - n
        /\ d <= n + k
                           /\ k \in Nat
                           /\ k < M => k + 1 \in 1..M /\ n + (k + 1) = d + 1 /\ d < L
<1> DEFINE k == d - n
<1>1. k \in 0..M /\ d = n + k /\ M - k = L - d /\ k \in 0..L - n /\ d <= n + k
        /\ k \in Nat /\ M \in Nat
  OBVIOUS
<1>2. k < M => k + 1 \in 1..M /\ n + (k + 1) = d + 1 /\ d < L
  OBVIOUS
<1> QED
  BY <1>1, <1>2

\* The first request goes, and is handled.
LEMMA Served ==
    ASSUME NEW n \in 0..Len(Pipe)
    PROVE  /\ DeliveryInv /\ Len(handled) < Len(sent) /\ n = Size[sent[Len(handled) + 1]]
           /\ Pipe' = From(Pipe, n) /\ handled' = Append(handled, sent[Len(handled) + 1])
           /\ UNCHANGED <<host, link>>
           => InPipe'
<1>0. SUFFICES ASSUME DeliveryInv, Len(handled) < Len(sent),
        n = Size[sent[Len(handled) + 1]],
                      Pipe' = From(Pipe, n), handled' = Append(handled,
                          sent[Len(handled) + 1]),
                      UNCHANGED <<host, link>>
               PROVE  InPipe'
  OBVIOUS
<1>p. Pipe' = From(Pipe, n)
  BY <1>0
<1>1. PICK d \in 0..Len(Pipe) : Whole(Pipe, d, Len(handled), sent) /\ Fragment(Pipe, d)
  BY <1>0 DEF DeliveryInv, DInv, InPipe
<1>2. n \in Nat /\ n <= d /\ Whole(Pipe', d - n, Len(handled) + 1, sent)
  BY <1>0, <1>1, PartsType, WholeRest
<1>a. \A j \in 1..Len(Pipe') : Pipe'[j] = Pipe[n + j]
  BY <1>0, PartsType, FromAt
<1>3. Pipe' \in Seq(Bytes) /\ Len(Pipe') = Len(Pipe) - n
  BY <1>0, PartsType, FromAt
<1>4. sent' = sent /\ cur' = cur /\ owesSilence' = owesSilence /\ Progress' = Progress
        /\ Len(handled') = Len(handled) + 1
  BY <1>0, PartsType DEF host, Progress
<1>5. Whole(Pipe', d - n, Len(handled'), sent')
  BY <1>2, <1>4
<1>6. PICK k \in 0..Len(Pipe') :
             /\ k = d - n /\ d = n + k /\ Len(Pipe') - k = Len(Pipe) - d
                /\ k \in 0..Len(Pipe) - n /\ d <= n + k
             /\ k \in Nat
             /\ k < Len(Pipe') => k + 1 \in 1..Len(Pipe') /\ n + (k + 1) = d + 1
                /\ d < Len(Pipe)
  <2>1. Len(Pipe) \in Nat /\ d \in Nat /\ d <= Len(Pipe) /\ n \in Nat /\ n <= d
          /\ Len(Pipe') = Len(Pipe) - n /\ Len(Pipe') \in Nat
    BY <1>0, <1>2, <1>3, PartsType
  <2> QED
    BY <2>1, Less
<1>7. cur = None => Harmless(Pipe', k) /\ (~owesSilence => k = Len(Pipe'))
  <2> SUFFICES ASSUME cur = None
        PROVE Harmless(Pipe', k) /\ (~owesSilence => k = Len(Pipe'))
    OBVIOUS
  <2>1. Harmless(Pipe, d) /\ (~owesSilence => d = Len(Pipe))
    BY <1>0, <1>1 DEF Fragment
  <2>2. Harmless(From(Pipe, n), k)
    BY <1>0, <1>6, <2>1, HarmlessFrom, PartsType
  <2> QED
    BY <1>0, <1>3, <1>6, <2>1, <2>2, PartsType
<1>8. cur # None /\ Bad(cur) => \A j \in k + 1..Len(Pipe') : Pipe'[j][1] = cur
  <2> SUFFICES ASSUME cur # None, Bad(cur)
        PROVE \A j \in k + 1..Len(From(Pipe, n)) : From(Pipe, n)[j][1] = cur
    BY <1>p
  <2>1. \A j \in d + 1..Len(Pipe) : Pipe[j][1] = cur
    BY <1>0, <1>1 DEF Fragment
  <2>2. Pipe \in Seq(Bytes) /\ cur \in Messages
    BY <1>0, PartsType, ProgressType
  <2> QED
    BY <1>6, <2>1, <2>2, OneFrom
<1>9. cur # None => Len(Pipe') - k = Progress
        /\ \A j \in 1..Progress : Pipe'[k + j] = <<cur, j>>
  <2> SUFFICES ASSUME cur # None
        PROVE Len(Pipe') - k = Progress /\ \A j \in 1..Progress : Pipe'[k + j] = <<cur, j>>
    OBVIOUS
  <2>1. Len(Pipe) - d = Progress /\ \A j \in 1..Progress : Pipe[d + j] = <<cur, j>>
    BY <1>0, <1>1 DEF Fragment
  <2>2. ASSUME NEW j \in 1..Progress PROVE Pipe'[k + j] = <<cur, j>>
    <3>1. k + j \in 1..Len(Pipe')
      <4>1. Len(Pipe') - k = Progress /\ Progress \in Nat /\ Len(Pipe') \in Nat
        BY <1>0, <1>3, <1>6, <2>1, ProgressType
      <4> QED
        BY <4>1
    <3>2. n + (k + j) = d + j
      BY <1>6
    <3> QED
      BY <1>a, <2>1, <3>1, <3>2
  <2> QED
    BY <1>6, <2>1, <2>2
<1>10. k < Len(Pipe') => Pipe'[k + 1][2] = 1
  <2> SUFFICES ASSUME k < Len(Pipe') PROVE Pipe'[k + 1][2] = 1
    OBVIOUS
  <2>1. Len(Pipe) \in Nat /\ Len(Pipe') \in Nat
    BY <1>0, <1>3, PartsType
  <2>2. Pipe[d + 1][2] = 1
    <3>1. d < Len(Pipe)
      BY <1>6
    <3> QED
      BY <1>0, <1>1, <3>1 DEF Fragment
  <2>3. k + 1 \in 1..Len(Pipe') /\ n + (k + 1) = d + 1
    BY <1>6
  <2> QED
    BY <1>a, <2>2, <2>3
<1>11. Bad(cur)' = Bad(cur) /\ (Harmless(Pipe', k) => Harmless(Pipe, k)')
  BY <1>0, <1>4 DEF Harmless, Bad, Oversized
<1>12. Fragment(Pipe, k)'
  BY <1>4, <1>7, <1>8, <1>9, <1>10, <1>11 DEF Fragment
<1> QED
  BY <1>5, <1>6, <1>12 DEF InPipe

-----------------------------------------------------------------------------
\* The host's steps, and time.
LEMMA SameHistory ==
    ASSUME History, UNCHANGED <<handled, sent, link>> PROVE History'
BY DEF History, Bad, Oversized

LEMMA BytesOfAt ==
    ASSUME NEW m \in Messages
    PROVE  /\ Len(BytesOf(m)) = Size[m] /\ Size[m] \in Nat \ {0}
           /\ \A j \in 1..Size[m] : BytesOf(m)[j] = <<m, j>>
BY Sizes DEF BytesOf

\* It starts a message: the pipe then holds requests and nothing else.
LEMMA StartDelivery == ASSUME DeliveryInv, NEW m \in Messages, StartMessage(m) PROVE DInv'
<1>1. /\ cur = None /\ ~owesSilence /\ cur' = m /\ rest' = BytesOf(m)
      /\ UNCHANGED <<line, reader, silent, owesSilence, sent, handled, gap>>
  BY DEF StartMessage
<1>2. m # None
  BY WireAssumption
<1>3. Pipe' = Pipe
  BY <1>1 DEF Pipe, reader
<1>4. History'
  BY <1>1, SameHistory DEF DeliveryInv, DInv, reader
<1>5. Len(rest') = Size[m] /\ Size[m] \in Nat \ {0} /\ Progress' = 0
  BY <1>1, BytesOfAt DEF Progress
<1>6. Sending'
  <2>1. \A j \in 1..Len(rest') : rest'[j] = <<m, 0 + j>>
    BY <1>1, <1>5, BytesOfAt
  <2> QED
    BY <1>1, <1>5, <2>1 DEF Sending
<1>7. PICK d \in 0..Len(Pipe) : Whole(Pipe, d, Len(handled), sent) /\ Fragment(Pipe, d)
  BY DEF DeliveryInv, DInv, InPipe
<1>8. d = Len(Pipe) /\ Len(Pipe) \in Nat
  BY <1>1, <1>7, PartsType DEF Fragment
<1>9. InPipe'
  <2>1. Fragment(Pipe, d)'
    BY <1>1, <1>2, <1>3, <1>5, <1>8 DEF Fragment
  <2> QED
    BY <1>1, <1>3, <1>7, <2>1 DEF InPipe
<1>10. Forced'
  <2>1. ASSUME pc = "force", buf # <<>> PROVE FALSE
    <3>1. Len(handled) = Len(sent)
      BY <2>1 DEF DeliveryInv, DInv, Forced
    <3>2. d = 0
      BY <1>7, <3>1, PartsType, WholeNone
    <3>3. Pipe = buf \o line
      BY <2>1 DEF Pipe
    <3>4. Len(buf) \in Nat \ {0} /\ Len(line) \in Nat
            /\ Len(buf \o line) = Len(buf) + Len(line)
      BY <2>1, PartsType, Joined
    <3>5. PICK a \in Nat \ {0} : a = Len(buf)
      BY <3>4
    <3>6. PICK b \in Nat : b = Len(line)
      BY <3>4
    <3>7. 0 = a + b
      BY <1>8, <3>2, <3>3, <3>4, <3>5, <3>6, Zenon
    <3> QED
      BY <3>7
  <2> QED
    BY <1>1, <2>1 DEF Forced, reader
<1>11. Rejects' /\ Quiet'
  BY <1>1 DEF DeliveryInv, DInv, Rejects, Quiet, reader
<1> QED
  BY <1>4, <1>6, <1>9, <1>10, <1>11 DEF DInv

\* One more byte, of a message the host has not finished.
LEMMA Longer ==
    ASSUME NEW x \in Bytes
    PROVE  DeliveryInv /\ cur # None /\ x = Head(rest) /\ line' = Append(line, x)
        /\ UNCHANGED <<buf, fresh, pc, late>>
           => /\ x = <<cur, Progress + 1>> /\ Pipe' = Append(Pipe, x)
              /\ \A d \in 0..Len(Pipe) : Whole(Pipe, d, Len(handled), sent) => Whole(Pipe',
                 d, Len(handled), sent)
<1>0. SUFFICES ASSUME DeliveryInv, cur # None, x = Head(rest), line' = Append(line, x),
        UNCHANGED <<buf, fresh, pc, late>>
               PROVE  /\ x = <<cur, Progress + 1>> /\ Pipe' = Append(Pipe, x)
                      /\ \A d \in 0..Len(Pipe) : Whole(Pipe, d, Len(handled),
                         sent) => Whole(Pipe', d, Len(handled), sent)
  OBVIOUS
<1>1. x = rest[1]
  BY <1>0, PartsType, ProgressType
<1>2. rest[1] = <<cur, Progress + 1>>
  BY <1>0, ProgressType DEF DeliveryInv, DInv, Sending
<1>3. Pipe' = Append(Pipe, x)
  <2>1. fresh \o Append(line, x) = Append(fresh \o line, x)
          /\ buf \o Append(line, x) = Append(buf \o line, x)
    BY <1>0, PartsType, JoinedOne
  <2>2. /\ pc = "stale" => Pipe' = fresh \o Append(line, x)
        /\ pc = "read" /\ late => Pipe' = Append(line, x)
        /\ pc # "stale" /\ ~(pc = "read" /\ late) => Pipe' = buf \o Append(line, x)
    BY <1>0 DEF Pipe
  <2> QED
    BY <2>1, <2>2 DEF Pipe
<1>4. Pipe \in Seq(Bytes) /\ Append(Pipe, x) \in Seq(Bytes)
        /\ Len(Append(Pipe, x)) = Len(Pipe) + 1
      /\ \A j \in 1..Len(Pipe) : Append(Pipe, x)[j] = Pipe[j]
  BY <1>0, PartsType
<1>5. ASSUME NEW d \in 0..Len(Pipe), Whole(Pipe, d, Len(handled), sent)
      PROVE  Whole(Append(Pipe, x), d, Len(handled), sent)
  <2>1. Len(Pipe) <= Len(Append(Pipe, x)) /\ \A j \in 1..d : Append(Pipe, x)[j] = Pipe[j]
    BY <1>4
  <2>2. sent \in Seq(Messages) /\ Len(handled) \in 0..Len(sent)
    BY <1>0, PartsType
  <2> QED
    BY <1>4, <1>5, <2>1, <2>2, WholeGrows
<1> QED
  BY <1>1, <1>2, <1>3, <1>5

\* The fragment gets longer; with the last byte it becomes a request sent, or harmless.
LEMMA SendDelivery == DeliveryInv /\ SendByte => DInv'
<1>0. SUFFICES ASSUME DeliveryInv, SendByte PROVE DInv'
  OBVIOUS
<1> DEFINE x == Head(rest)
<1>1. /\ cur # None /\ line' = Append(line, x) /\ rest' = Tail(rest) /\ silent' = FALSE
      /\ gap' = (gap \/ silent) /\ UNCHANGED <<reader, handled>>
  BY <1>0 DEF SendByte
<1>2. cur \in Messages /\ Size[cur] \in Nat \ {0} /\ Progress \in Nat
        /\ Progress < Size[cur]
      /\ Len(rest) \in Nat \ {0} /\ Len(rest) = Size[cur] - Progress
  BY <1>0, <1>1, ProgressType
<1>3. x \in Bytes /\ Tail(rest) \in Seq(Bytes) /\ Len(Tail(rest)) = Len(rest) - 1
  BY <1>0, <1>2, PartsType
<1> HIDE DEF x
<1>4. /\ x = <<cur, Progress + 1>> /\ Pipe' = Append(Pipe, x)
      /\ \A d \in 0..Len(Pipe) : Whole(Pipe, d, Len(handled), sent) => Whole(Pipe', d,
         Len(handled), sent)
  BY <1>0, <1>1, <1>3, Longer DEF reader, x
<1>5. Pipe' \in Seq(Bytes) /\ Len(Pipe') = Len(Pipe) + 1 /\ Len(Pipe) \in Nat
        /\ Pipe'[Len(Pipe) + 1] = x
      /\ \A j \in 1..Len(Pipe) : Pipe'[j] = Pipe[j]
  BY <1>0, <1>3, <1>4, PartsType
<1>6. PICK d \in 0..Len(Pipe) : Whole(Pipe, d, Len(handled), sent) /\ Fragment(Pipe, d)
  BY <1>0 DEF DeliveryInv, DInv, InPipe
<1>7. Whole(Pipe', d, Len(handled), sent) /\ d \in 0..Len(Pipe')
  <2>1. Whole(Pipe', d, Len(handled), sent)
    BY <1>4, <1>6
  <2>2. Len(Pipe') = Len(Pipe) + 1 /\ Len(Pipe) \in Nat /\ d \in 0..Len(Pipe)
    BY <1>5
  <2>3. d \in 0..Len(Pipe')
    BY <2>2
  <2> QED
    BY <2>1, <2>3
<1>8. ASSUME Len(handled) < Len(sent) \/ ~Bad(cur)
      PROVE  Len(Pipe') = d + (Progress + 1)
          /\ \A j \in 1..Progress + 1 : Pipe'[d + j] = <<cur, j>>
  <2>1. Len(Pipe) - d = Progress /\ \A j \in 1..Progress : Pipe[d + j] = <<cur, j>>
    BY <1>1, <1>6, <1>8 DEF Fragment
  <2>2. Len(Pipe) = d + Progress /\ d \in Nat
    BY <1>2, <1>5, <2>1
  <2>3. ASSUME NEW j \in 1..Progress + 1 PROVE Pipe'[d + j] = <<cur, j>>
    <3>1. CASE j = Progress + 1
      BY <1>2, <1>4, <1>5, <2>2, <3>1
    <3>2. CASE j # Progress + 1
      <4>1. j \in 1..Progress /\ d + j \in 1..Len(Pipe)
        BY <1>2, <2>2, <3>2
      <4> QED
        BY <1>5, <2>1, <4>1
    <3> QED
      BY <3>1, <3>2
  <2>4. Len(Pipe') = d + (Progress + 1)
    BY <1>2, <1>5, <2>2
  <2> QED
    BY <2>3, <2>4
<1>9. Bad(cur) => \A j \in d + 1..Len(Pipe') : Pipe'[j][1] = cur
  <2> SUFFICES ASSUME Bad(cur), NEW j \in d + 1..Len(Pipe') PROVE Pipe'[j][1] = cur
    OBVIOUS
  <2>1. CASE j = Len(Pipe) + 1
    BY <1>4, <1>5, <2>1
  <2>2. CASE j # Len(Pipe) + 1
    <3>1. j \in 1..Len(Pipe) /\ j \in d + 1..Len(Pipe)
      BY <1>5, <2>2
    <3> QED
      BY <1>1, <1>5, <1>6, <3>1 DEF Fragment
  <2> QED
    BY <2>1, <2>2
<1>10. Len(handled) < Len(sent) => Pipe'[d + 1][2] = 1
  <2> SUFFICES ASSUME Len(handled) < Len(sent) PROVE Pipe'[d + 1][2] = 1
    OBVIOUS
  <2>1. 1 \in 1..Progress + 1
    BY <1>2
  <2>2. Pipe'[d + 1] = <<cur, 1>>
    BY <1>8, <2>1
  <2> QED
    BY <2>2
<1>11. Rejects'
  BY <1>0, <1>1 DEF DeliveryInv, DInv, Rejects, reader
<1>12. Quiet'
  <2>1. line' # <<>>
    <3>1. line \in Seq(Bytes)
      BY <1>0, PartsType
    <3>2. Len(Append(line, x)) = Len(line) + 1 /\ Len(line) \in Nat
      BY <1>3, <3>1
    <3>3. Append(line, x) # <<>>
      BY <3>2
    <3> QED
      BY <1>1, <3>3
  <2>2. ~elapsed' /\ (pc' = "read" /\ late' => gap')
    BY <1>0, <1>1 DEF DeliveryInv, DInv, Quiet, reader
  <2> QED
    BY <2>1, <2>2 DEF Quiet
<1>13. Bad(cur) = (cur \in Noise \/ Oversized(cur))
  BY DEF Bad
<1>14. link' = link /\ pc' = pc /\ buf' = buf /\ handled' = handled
  BY <1>1 DEF reader
<1>15. CASE Len(rest) > 1
  <2>1. UNCHANGED <<cur, sent, owesSilence>>
    BY <1>0, <1>15 DEF SendByte
  <2>2. Progress' = Progress + 1
    BY <1>1, <1>2, <1>3, <2>1 DEF Progress
  <2>3. Bad(cur)' = Bad(cur)
    BY <1>14, <2>1 DEF Bad, Oversized
  <2>4. Sending'
    <3>1. Len(rest') \in 1..Size[cur]
      BY <1>1, <1>2, <1>3, <1>15
    <3>2. ASSUME NEW j \in 1..Len(rest') PROVE rest'[j] = <<cur, (Progress + 1) + j>>
      <4>1. j + 1 \in 1..Len(rest) /\ rest'[j] = rest[j + 1]
        BY <1>0, <1>1, <1>2, <1>3, PartsType
      <4>2. rest[j + 1] = <<cur, Progress + (j + 1)>>
        BY <1>0, <1>1, <4>1 DEF DeliveryInv, DInv, Sending
      <4>3. Progress + (j + 1) = (Progress + 1) + j
        BY <1>2
      <4> QED
        BY <4>1, <4>2, <4>3
    <3> QED
      BY <2>1, <2>2, <3>1, <3>2 DEF Sending
  <2>5. Fragment(Pipe, d)'
    <3>1. Len(handled) < Len(sent) \/ ~Bad(cur) => Len(Pipe') - d = Progress'
      BY <1>2, <1>7, <1>8, <2>2
    <3> QED
      BY <1>1, <1>8, <1>9, <1>10, <1>14, <2>1, <2>2, <2>3, <3>1 DEF Fragment
  <2>6. InPipe'
    BY <1>7, <1>14, <2>1, <2>5 DEF InPipe
  <2>7. History' /\ Forced'
    BY <1>0, <1>14, <2>1, <2>3, SameHistory DEF DeliveryInv, DInv, Forced
  <2> QED
    BY <1>11, <1>12, <2>4, <2>6, <2>7 DEF DInv
<1>16. CASE ~(Len(rest) > 1)
  <2>1. /\ cur' = None /\ owesSilence' = (cur \in Noise \/ Oversized(cur))
        /\ sent' = IF owesSilence' THEN sent ELSE Append(sent, cur)
    BY <1>0, <1>16 DEF SendByte
  <2>2. Progress + 1 = Size[cur]
    BY <1>2, <1>16
  <2>3. Sending'
    BY <2>1 DEF Sending
  <2>4. CASE Bad(cur)
    <3>1. owesSilence' /\ sent' = sent
      BY <1>13, <2>1, <2>4
    <3>2. Harmless(Pipe, d)'
      <4>1. \A j \in d + 1..Len(Pipe') : Bad(Pipe'[j][1])
        BY <1>9, <2>4
      <4>2. \A m : Bad(m)' = Bad(m)
        BY <1>14 DEF Bad, Oversized
      <4> QED
        BY <4>1, <4>2, <1>14 DEF Harmless, Bad, Oversized
    <3>3. Fragment(Pipe, d)'
      BY <1>10, <1>14, <2>1, <3>1, <3>2 DEF Fragment
    <3>4. InPipe'
      BY <1>7, <1>14, <3>1, <3>3 DEF InPipe
    <3>5. History' /\ Forced'
      BY <1>0, <1>14, <2>1, <3>1, SameHistory DEF DeliveryInv, DInv, Forced
    <3> QED
      BY <1>11, <1>12, <2>3, <3>4, <3>5 DEF DInv
  <2>5. CASE ~Bad(cur)
    <3>1. ~owesSilence' /\ sent' = Append(sent, cur)
      BY <1>13, <2>1, <2>5
    <3>2. sent \in Seq(Messages) /\ Len(handled) \in 0..Len(sent)
      BY <1>0, PartsType
    <3>3. Len(Pipe') = d + Size[cur] /\ \A j \in 1..Size[cur] : Pipe'[d + j] = <<cur, j>>
      BY <1>8, <2>2, <2>5
    <3>4. Whole(Pipe', Len(Pipe'), Len(handled), Append(sent, cur))
      BY <1>2, <1>5, <1>7, <3>2, <3>3, WholeEnds
    <3>5. Fragment(Pipe, Len(Pipe))'
      BY <1>5, <2>1 DEF Fragment, Harmless
    <3>6. InPipe'
      <4>1. Len(Pipe') \in 0..Len(Pipe')
        BY <1>5
      <4> QED
        BY <1>14, <3>1, <3>4, <3>5, <4>1 DEF InPipe
    <3>7. History'
      <4>1. sent' \in Seq(Messages) /\ Len(sent') = Len(sent) + 1
              /\ sent'[Len(sent) + 1] = cur
            /\ \A i \in 1..Len(sent) : sent'[i] = sent[i]
        BY <1>2, <3>1, <3>2
      <4>2. handled' \in Seq(Messages) /\ Len(handled') <= Len(sent')
              /\ \A i \in 1..Len(handled') : handled'[i] = sent'[i]
        BY <1>0, <1>14, <3>2, <4>1 DEF DeliveryInv, DInv, History
      <4>3. ASSUME NEW i \in 1..Len(sent') PROVE ~Bad(sent'[i])
        BY <1>0, <2>5, <3>2, <4>1 DEF DeliveryInv, DInv, History
      <4> QED
        BY <1>14, <4>1, <4>2, <4>3 DEF History, Bad, Oversized
    <3>8. Forced'
      BY <1>0, <1>1, <1>14, <2>5 DEF DeliveryInv, DInv, Forced
    <3> QED
      BY <1>11, <1>12, <2>3, <3>6, <3>7, <3>8 DEF DInv
  <2> QED
    BY <2>4, <2>5
<1> QED
  BY <1>15, <1>16

\* A pipe that is empty, when all requests have been handled and no message is being sent.
LEMMA Emptied ==
    ASSUME DeliveryInv, Len(handled) = Len(sent), UNCHANGED <<sent, handled>>,
           cur' = None, Pipe' = <<>>
    PROVE  InPipe'
<1>1. <<>> \in Seq(Bytes) /\ Len(<<>>) = 0
  OBVIOUS
<1>2. Whole(Pipe', 0, Len(handled'), sent')
  BY <1>1, PartsType, WholeNone
<1>3. Fragment(Pipe, 0)'
  BY <1>1, PartsType DEF Fragment, Harmless
<1> QED
  BY <1>1, <1>2, <1>3 DEF InPipe

\* A message broken off is harmless: it is short of its length.
LEMMA BreakOffDelivery == DeliveryInv /\ BreakOff => DInv'
<1>0. SUFFICES ASSUME DeliveryInv, BreakOff PROVE DInv'
  OBVIOUS
<1>1. /\ cur # None /\ cur' = None /\ rest' = <<>> /\ owesSilence' = TRUE
      /\ UNCHANGED <<line, reader, queue, silent, sent, handled, gap>>
  BY <1>0 DEF BreakOff
<1>2. Pipe' = Pipe /\ link' = link
  BY <1>1 DEF Pipe, reader
<1>3. PICK d \in 0..Len(Pipe) : Whole(Pipe, d, Len(handled), sent) /\ Fragment(Pipe, d)
  BY <1>0 DEF DeliveryInv, DInv, InPipe
<1>4. Harmless(Pipe, d)
  <2> SUFFICES ASSUME NEW j \in d + 1..Len(Pipe)
               PROVE  Bad(Pipe[j][1]) \/ Pipe[j][2] # 1 \/ Size[Pipe[j][1]] > Len(Pipe) - j + 1
    BY DEF Harmless
  <2>1. CASE Bad(cur)
    <3>1. Pipe[j][1] = cur
      BY <1>1, <1>3, <2>1 DEF Fragment
    <3> QED
      BY <2>1, <3>1
  <2>2. CASE ~Bad(cur)
    <3>1. Len(Pipe) - d = Progress /\ \A i \in 1..Progress : Pipe[d + i] = <<cur, i>>
      BY <1>1, <1>3, <2>2 DEF Fragment
    <3>2. Len(Pipe) \in Nat /\ Progress \in Nat /\ Size[cur] \in Nat /\ Progress < Size[cur]
      BY <1>0, <1>1, PartsType, ProgressType
    <3>3. j - d \in 1..Progress /\ d + (j - d) = j
      BY <3>1, <3>2
    <3>4. Pipe[j] = <<cur, j - d>>
      BY <3>1, <3>3
    <3>5. CASE j - d = 1
      BY <3>1, <3>2, <3>4, <3>5
    <3>6. CASE j - d # 1
      BY <3>4, <3>6
    <3> QED
      BY <3>5, <3>6
  <2> QED
    BY <2>1, <2>2
<1>5. Harmless(Pipe, d)'
  BY <1>2, <1>4 DEF Harmless, Bad, Oversized
<1>6. InPipe'
  <2>1. Fragment(Pipe, d)'
    BY <1>1, <1>2, <1>3, <1>5 DEF Fragment
  <2> QED
    BY <1>1, <1>2, <1>3, <2>1 DEF InPipe
<1>7. History'
  BY <1>0, <1>1, <1>2, SameHistory DEF DeliveryInv, DInv
<1>8. Sending' /\ Forced' /\ Rejects' /\ Quiet'
  BY <1>0, <1>1 DEF DeliveryInv, DInv, Sending, Forced, Rejects, Quiet, reader
<1> QED
  BY <1>6, <1>7, <1>8 DEF DInv

\* What rests in the buffer becomes stale only when every request has been handled.
LEMMA TimeDelivery == DeliveryInv /\ TimePasses /\ ~MayStall => DInv'
<1>0. SUFFICES ASSUME DeliveryInv, TimePasses, ~MayStall PROVE DInv'
  OBVIOUS
<1>1. /\ pc = "read" /\ line = <<>> /\ cur = None /\ late' = TRUE
      /\ silent' = TRUE /\ owesSilence' = FALSE
      /\ UNCHANGED <<link, line, buf, fresh, pc, reject, elapsed, cur, rest, sent, handled>>
  BY <1>0 DEF TimePasses
<1>2. InPipe'
  BY <1>0, <1>1, AllDone, Emptied DEF Pipe
<1>3. History'
  BY <1>0, <1>1, SameHistory DEF DeliveryInv, DInv
<1>4. Sending' /\ Forced' /\ Rejects' /\ Quiet'
  BY <1>0, <1>1 DEF DeliveryInv, DInv, Sending, Forced, Rejects, Quiet
<1> QED
  BY <1>2, <1>3, <1>4 DEF DInv

\* The same holds for what BLE drops with the connection.
LEMMA DisconnectDelivery == DeliveryInv /\ Disconnect => DInv'
<1>0. SUFFICES ASSUME DeliveryInv, Disconnect PROVE DInv'
  OBVIOUS
<1>1. /\ pc = "read" /\ line = <<>> /\ buf' = <<>> /\ cur' = None
      /\ UNCHANGED <<link, line, fresh, pc, reject, late, elapsed, silent, sent, handled,
         gap>>
  BY <1>0 DEF Disconnect, DisconnectWith
<1>2. Pipe' = <<>>
  BY <1>1 DEF Pipe
<1>3. InPipe'
  BY <1>0, <1>1, <1>2, AllDone, Emptied
<1>4. History'
  BY <1>0, <1>1, SameHistory DEF DeliveryInv, DInv
<1>5. Sending' /\ Forced' /\ Rejects' /\ Quiet'
  BY <1>0, <1>1 DEF DeliveryInv, DInv, Sending, Forced, Rejects, Quiet
<1> QED
  BY <1>3, <1>4, <1>5 DEF DInv

\* The main task takes a request from the queue.
LEMMA IdleDelivery == DeliveryInv /\ (TakeMessage \/ UNCHANGED vars) => DInv'
<1>0. SUFFICES ASSUME DeliveryInv, TakeMessage \/ UNCHANGED vars PROVE DInv'
  OBVIOUS
<1>1. UNCHANGED <<line, reader, host, handled, gap>>
  BY <1>0 DEF TakeMessage, vars
<1>2. Pipe' = Pipe
  BY <1>1 DEF Pipe, reader
<1>3. InPipe'
  BY <1>0, <1>1, <1>2, SamePipe DEF DeliveryInv, DInv, reader
<1>4. History'
  BY <1>0, <1>1, SameHistory DEF DeliveryInv, DInv, host, reader
<1>5. Sending'
  BY <1>0, <1>1 DEF DeliveryInv, DInv, Sending, Progress, host
<1>6. Forced' /\ Rejects' /\ Quiet'
  BY <1>0, <1>1 DEF DeliveryInv, DInv, Forced, Rejects, Quiet, host, reader, Bad, Oversized
<1> QED
  BY <1>3, <1>4, <1>5, <1>6 DEF DInv

-----------------------------------------------------------------------------
\* The reader's steps.  handle_data() takes bytes from the line, and sets those aside
\* that are stale.
LEMMA TakenIn ==
    ASSUME NEW n \in 0..Len(line), NEW force \in BOOLEAN
    PROVE  DeliveryInv /\ pc = "read" /\ HandleData(n, force) => Pipe' = Pipe
<1>0. SUFFICES ASSUME DeliveryInv, pc = "read", HandleData(n, force) PROVE Pipe' = Pipe
  OBVIOUS
<1>1. line' = From(line, n)
  BY <1>0 DEF HandleData, HandleDataWith
<1>2. CASE Stale
  <2>1. pc' = "stale" /\ fresh' = SubSeq(line, 1, n) /\ late
    BY <1>0, <1>2 DEF HandleData, HandleDataWith, Stale
  <2>2. SubSeq(line, 1, n) \o From(line, n) = line
    BY <1>0, PartsType, CutInTwo
  <2> QED
    BY <1>0, <1>1, <2>1, <2>2 DEF Pipe
<1>3. CASE ~Stale
  <2>1. pc' \in {"force", "parse"} /\ buf' = buf \o SubSeq(line, 1, n)
    BY <1>0, <1>3 DEF HandleData, HandleDataWith
  <2>2. (buf \o SubSeq(line, 1, n)) \o From(line, n) = buf \o line
    BY <1>0, PartsType, JoinedNew
  <2>3. Pipe = buf \o line
    BY <1>0, <1>3, PartsType, Joined DEF Pipe, Stale
  <2> QED
    BY <1>1, <2>1, <2>2, <2>3 DEF Pipe
<1> QED
  BY <1>2, <1>3

\* In the middle of a message that can be delivered there is always room for a BLE write.
LEMMA NoRoom ==
    ASSUME NEW n \in 1..Len(line)
    PROVE  /\ DeliveryInv /\ pc = "read" /\ link = "ble" /\ buf # <<>> /\ ~late
           /\ n < Cap /\ (\A i \in 2..n : line[i][2] > 1) /\ Len(buf) + n >= Cap
           => Len(handled) = Len(sent) /\ (cur # None => Bad(cur))
<1>0. SUFFICES ASSUME DeliveryInv, pc = "read", link = "ble", buf # <<>>, ~late,
                      n < Cap, \A i \in 2..n : line[i][2] > 1, Len(buf) + n >= Cap
               PROVE  Len(handled) = Len(sent) /\ (cur # None => Bad(cur))
  OBVIOUS
<1>1. PICK d \in 0..Len(Pipe) : Whole(Pipe, d, Len(handled), sent) /\ Fragment(Pipe, d)
  BY <1>0 DEF DeliveryInv, DInv, InPipe
<1>2. Pipe = buf \o line
  BY <1>0 DEF Pipe
<1>3. PICK b \in Nat \ {0} : b = Len(buf)
  BY <1>0, PartsType
<1>4. /\ Len(Pipe) \in Nat /\ Len(Pipe) >= Cap /\ Len(Pipe) >= b + n /\ Cap \in Nat
        /\ n \in Nat
      /\ b + n >= Cap
  <2>1. Len(Pipe) = b + Len(line) /\ Len(line) \in Nat
    BY <1>0, <1>2, <1>3, PartsType, Joined
  <2>2. b + n >= Cap
    BY <1>0, <1>3
  <2> QED
    BY <2>1, <2>2, WireAssumption
<1>5. ASSUME Len(handled) < Len(sent) PROVE FALSE
  <2> DEFINE m == sent[Len(handled) + 1]
  <2>1. m \in Messages /\ ~Bad(m) /\ Head(buf) = <<m, 1>> /\ Item[Head(buf)] = Size[m]
    BY <1>0, <1>2, <1>5, NextThere
  <2>2. /\ m \in Messages /\ Size[m] \in 1..d
        /\ Size[m] < d => Pipe[Size[m] + 1][2] = 1
    BY <1>0, <1>1, <1>5, PartsType, WholeFirst
  <2> HIDE DEF m
  <2>3. PICK z \in Nat \ {0} : z = Size[m]
    BY <2>1, Sizes
  <2>4. z < Cap
    BY <1>0, <1>4, <2>1, <2>3 DEF Bad, Oversized
  <2>5. z > b
    BY <1>0, <1>3, <2>1, <2>3 DEF DeliveryInv, IInv, AtRest, MessageLength
  <2>6. Pipe[z + 1][2] > 1
    <3>1. PICK i \in 2..n : z + 1 = b + i
      <4>1. (z + 1) - b \in 2..n /\ z + 1 = b + ((z + 1) - b)
        BY <1>4, <2>4, <2>5
      <4> QED
        BY <4>1
    <3>2. i \in 1..Len(line)
      OBVIOUS
    <3>3. Pipe[b + i] = line[i]
      BY <1>0, <1>2, <1>3, <3>2, PartsType, Joined
    <3> QED
      BY <1>0, <3>1, <3>3
  <2>7. CASE z < d
    BY <2>2, <2>3, <2>6, <2>7
  <2>8. CASE ~(z < d)
    <3>1. z = d /\ d < Len(Pipe)
      BY <1>4, <2>2, <2>3, <2>4, <2>8
    <3>2. Pipe[d + 1][2] = 1
      BY <1>1, <1>5, <3>1 DEF Fragment
    <3> QED
      BY <2>6, <3>1, <3>2
  <2> QED
    BY <2>7, <2>8
<1>6. Len(handled) = Len(sent)
  BY <1>0, <1>5, PartsType
<1>7. ASSUME cur # None, ~Bad(cur) PROVE FALSE
  <2>1. d = 0
    BY <1>0, <1>1, <1>6, PartsType, WholeNone
  <2>2. Len(Pipe) - d = Progress
    BY <1>1, <1>7 DEF Fragment
  <2>3. Len(Pipe) = Progress
    BY <1>4, <2>1, <2>2
  <2>4. Progress \in Nat /\ Size[cur] \in Nat /\ Progress < Size[cur]
    BY <1>0, <1>7, ProgressType
  <2>5. Size[cur] <= Cap - 1
    BY <1>0, <1>4, <1>7, <2>4 DEF Bad, Oversized
  <2> QED
    BY <1>4, <2>3, <2>4, <2>5
<1> QED
  BY <1>6, <1>7

\* handle_data() starts.
LEMMA HandleDataDelivery ==
    ASSUME NEW n \in 0..Len(line), NEW force \in BOOLEAN
    PROVE  /\ DeliveryInv /\ pc = "read" /\ HandleData(n, force)
           /\ UNCHANGED <<link, host, handled>>
           /\ (link = "ble" => Len(buf) + n < Cap)
           /\ (force => n = 0)
           /\ (force /\ buf # <<>> /\ ~late =>
                  Len(handled) = Len(sent) /\ (cur # None => Bad(cur)))
           => DInv'
<1>0. SUFFICES ASSUME DeliveryInv, pc = "read", HandleData(n, force),
                      UNCHANGED <<link, host, handled>>,
                      link = "ble" => Len(buf) + n < Cap,
                      force => n = 0,
                      force /\ buf # <<>> /\ ~late =>
                          Len(handled) = Len(sent) /\ (cur # None => Bad(cur))
               PROVE  DInv'
  OBVIOUS
<1>1. InPipe'
  BY <1>0, TakenIn, SamePipe DEF DeliveryInv, DInv
<1>2. History'
  BY <1>0, SameHistory DEF DeliveryInv, DInv, host
<1>3. Sending'
  BY <1>0 DEF DeliveryInv, DInv, Sending, Progress, host
<1> DEFINE new == SubSeq(line, 1, n)
<1>4. new \in Seq(Bytes) /\ Len(new) = n /\ Len(buf \o new) = Len(buf) + n
      /\ Len(buf) \in Nat /\ n \in Nat
  BY <1>0, PartsType, CutInTwo, Joined
<1>5. /\ elapsed' = FALSE /\ pc' # "read"
      /\ pc' = "stale" => fresh' = new
      /\ pc' = "parse" => ~force /\ buf' = buf \o new /\ reject' = (Len(buf') = Cap)
      /\ pc' = "force" => force /\ ~Stale /\ buf' = buf \o new
  BY <1>0 DEF HandleData, HandleDataWith
<1> HIDE DEF new
<1>6. Quiet'
  BY <1>5 DEF Quiet
<1>7. Rejects'
  <2>1. pc' = "parse" /\ reject' => Len(buf') = Cap
    BY <1>5
  <2>2. link' = "ble" => (pc' = "parse" => Len(buf') < Cap)
          /\ (pc' = "stale" => Len(fresh') < Cap)
    <3>1. Cap \in Nat
      BY WireAssumption
    <3> QED
      BY <1>0, <1>4, <1>5, <3>1
  <2> QED
    BY <2>1, <2>2 DEF Rejects
<1>8. Forced'
  <2> SUFFICES ASSUME pc' = "force", buf' # <<>>
               PROVE  Len(handled') = Len(sent') /\ (cur' # None => Bad(cur)')
    BY DEF Forced
  <2>1. cur' = cur /\ sent' = sent /\ handled' = handled /\ Bad(cur)' = Bad(cur)
    BY <1>0 DEF Bad, Oversized, host
  <2>2. CASE buf # <<>>
    <3>1. ~late
      BY <1>5, <2>2 DEF Stale
    <3> QED
      BY <1>0, <1>5, <2>1, <2>2, <3>1
  <2>3. CASE buf = <<>>
    <3>1. buf' \in Seq(Bytes) /\ Len(buf') = 0
      <4>1. n = 0 /\ buf' = buf \o new
        BY <1>0, <1>5
      <4>2. Len(buf) = 0
        BY <2>3
      <4> QED
        BY <1>0, <1>4, <4>1, <4>2, PartsType, Joined
    <3> QED
      BY <3>1
  <2> QED
    BY <2>2, <2>3
<1> QED
  BY <1>1, <1>2, <1>3, <1>6, <1>7, <1>8 DEF DInv

\* Bytes are read, as many as fit, or what rests is rejected before a BLE write.
LEMMA ReadDelivery == DeliveryInv /\ (ReadSerial \/ ReadBle) => DInv'
<1>0. SUFFICES ASSUME DeliveryInv, ReadSerial \/ ReadBle PROVE DInv'
  OBVIOUS
<1>1. CASE ReadSerial
  <2>1. PICK n \in 1..Len(line) : HandleData(n, FALSE)
    BY <1>1 DEF ReadSerial
  <2>2. pc = "read" /\ link = "serial" /\ UNCHANGED <<link, host, handled>>
          /\ n \in 0..Len(line)
    BY <1>1 DEF ReadSerial
  <2> QED
    BY <1>0, <2>1, <2>2, HandleDataDelivery
<1>2. CASE ReadBle
  <2>1. PICK n \in 1..Len(line) :
            /\ n < Cap /\ \A i \in 2..n : line[i][2] > 1
            /\ IF Len(buf) + n >= Cap THEN HandleData(0, TRUE) ELSE HandleData(n, FALSE)
    BY <1>2 DEF ReadBle, ReadBleBelow
  <2>2. pc = "read" /\ link = "ble" /\ UNCHANGED <<link, host, handled>>
          /\ n \in 0..Len(line)
    BY <1>2 DEF ReadBle, ReadBleBelow
  <2>3. Len(buf) \in Nat /\ Len(line) \in Nat /\ Cap \in Nat
    BY <1>0, PartsType, WireAssumption
  <2>4. CASE Len(buf) + n >= Cap
    <3>1. HandleData(0, TRUE)
      BY <2>1, <2>4
    <3>a. 0 \in 0..Len(line)
      BY <2>3
    <3>2. Len(buf) + 0 < Cap
      BY <1>0, <2>2, <2>3 DEF DeliveryInv, IInv, AtRest
    <3>3. buf # <<>> /\ ~late => Len(handled) = Len(sent) /\ (cur # None => Bad(cur))
      BY <1>0, <2>1, <2>2, <2>4, NoRoom
    <3> QED
      BY <1>0, <2>2, <3>1, <3>a, <3>2, <3>3, HandleDataDelivery
  <2>5. CASE ~(Len(buf) + n >= Cap)
    <3>1. HandleData(n, FALSE)
      BY <2>1, <2>5
    <3>2. Len(buf) + n < Cap
      BY <2>3, <2>5
    <3> QED
      BY <1>0, <2>2, <3>1, <3>2, HandleDataDelivery
  <2> QED
    BY <2>4, <2>5
<1> QED
  BY <1>0, <1>1, <1>2

\* A full buffer that holds no message holds nothing of a request.
LEMMA FullOfNothing ==
    ASSUME DeliveryInv, pc = "parse", reject, MessageLength(buf) = 0
    PROVE  Len(handled) = Len(sent) /\ (cur # None => Bad(cur))
<1>1. PICK d \in 0..Len(Pipe) : Whole(Pipe, d, Len(handled), sent) /\ Fragment(Pipe, d)
  BY DEF DeliveryInv, DInv, InPipe
<1>2. Pipe = buf \o line
  BY DEF Pipe
<1>3. Len(buf) = Cap /\ Cap \in Nat \ {0} /\ link # "ble" /\ buf # <<>>
  BY WireAssumption, PartsType DEF DeliveryInv, DInv, Rejects
<1>4. ASSUME Len(handled) < Len(sent) PROVE FALSE
  <2> DEFINE m == sent[Len(handled) + 1]
  <2>1. m \in Messages /\ ~Bad(m) /\ Item[Head(buf)] = Size[m]
    BY <1>2, <1>3, <1>4, NextThere
  <2> HIDE DEF m
  <2>2. Size[m] \in Nat \ {0} /\ Size[m] <= Cap
    BY <1>3, <2>1, Sizes DEF Bad, Oversized
  <2> QED
    BY <1>3, <2>1, <2>2 DEF MessageLength
<1>5. Len(handled) = Len(sent)
  BY <1>4, PartsType
<1>6. ASSUME cur # None, ~Bad(cur) PROVE FALSE
  <2>1. d = 0
    BY <1>1, <1>5, PartsType, WholeNone
  <2>2. Len(Pipe) - d = Progress
    BY <1>1, <1>6 DEF Fragment
  <2>3. Len(Pipe) \in Nat /\ Len(Pipe) >= Cap
    BY <1>2, <1>3, PartsType, Joined
  <2>4. Progress \in Nat /\ Size[cur] \in Nat /\ Progress < Size[cur]
    BY <1>6, ProgressType
  <2>5. Size[cur] <= Cap
    BY <1>3, <1>6, <2>4 DEF Bad, Oversized
  <2> QED
    BY <1>3, <2>1, <2>2, <2>3, <2>4, <2>5
<1> QED
  BY <1>5, <1>6

\* What is left of the pipe when the buffer is emptied.
LEMMA Emptying ==
    ASSUME DeliveryInv
    PROVE  Len(buf) \in 0..Len(buf \o line) /\ From(buf \o line, Len(buf)) = line
<1>1. From(buf \o line, Len(buf)) = line
  BY PartsType, FromJoined
<1>2. Len(buf \o line) = Len(buf) + Len(line) /\ Len(buf) \in Nat /\ Len(line) \in Nat
  BY PartsType, Joined
<1> QED
  BY <1>1, <1>2

\* Without a complete message: what is rejected holds nothing of a request.
LEMMA NoMessageDelivery == DeliveryInv /\ NoMessage => DInv'
<1>0. SUFFICES ASSUME DeliveryInv, NoMessage PROVE DInv'
  OBVIOUS
<1>1. /\ pc \in {"stale", "force", "parse"} /\ MessageLength(buf) = 0
      /\ Return(IF reject THEN <<>> ELSE buf)
      /\ UNCHANGED <<link, line, elapsed, queue, host, handled, gap>>
  BY <1>0 DEF NoMessage, Parsing
<1>2. History'
  BY <1>0, <1>1, SameHistory DEF DeliveryInv, DInv, host
<1>3. Sending'
  BY <1>0, <1>1 DEF DeliveryInv, DInv, Sending, Progress, host
<1>4. CASE pc = "stale"
  <2>1. reject
    BY <1>0, <1>4 DEF DeliveryInv, IInv, Doomed
  <2>2. /\ pc' = IF fresh = <<>> THEN "force" ELSE "parse"
        /\ buf' = fresh /\ fresh' = <<>> /\ reject' = (fresh = <<>> \/ Len(fresh) = Cap)
    BY <1>1, <1>4, <2>1 DEF Return, ReturnWith
  <2>3. Pipe' = Pipe
    BY <1>1, <1>4, <2>2 DEF Pipe
  <2>4. InPipe'
    BY <1>0, <1>1, <2>3, SamePipe DEF DeliveryInv, DInv
  <2>5. Forced' /\ Quiet'
    BY <1>0, <1>1, <2>2 DEF DeliveryInv, DInv, Forced, Quiet
  <2>6. Rejects'
    BY <1>0, <1>1, <1>4, <2>2 DEF DeliveryInv, DInv, Rejects
  <2> QED
    BY <1>2, <1>3, <2>4, <2>5, <2>6 DEF DInv
<1>5. CASE pc # "stale"
  <2>1. /\ pc' = "read" /\ buf' = (IF reject THEN <<>> ELSE buf) /\ reject' = FALSE
        /\ late' = elapsed /\ ~elapsed /\ elapsed' = elapsed
    <3>1. pc = "force" => reject
      BY <1>0 DEF DeliveryInv, IInv, Doomed
    <3> QED
      BY <1>0, <1>1, <1>5, <3>1 DEF Return, ReturnWith, DeliveryInv, DInv, Quiet
  <2>2. Forced' /\ Quiet' /\ Rejects'
    BY <2>1 DEF Forced, Quiet, Rejects
  <2>3. Pipe = buf \o line /\ Pipe' = buf' \o line
    BY <1>1, <1>5, <2>1 DEF Pipe
  <2>4. CASE buf' = buf
    <3>1. InPipe'
      BY <1>0, <1>1, <2>3, <2>4, SamePipe DEF DeliveryInv, DInv
    <3> QED
      BY <1>2, <1>3, <2>2, <3>1 DEF DInv
  <2>5. CASE buf' # buf
    <3>1. reject /\ buf' = <<>> /\ buf # <<>>
      BY <2>1, <2>5
    <3>2. Len(handled) = Len(sent) /\ (cur # None => Bad(cur))
      <4>1. CASE pc = "force"
        BY <1>0, <3>1, <4>1 DEF DeliveryInv, DInv, Forced
      <4>2. CASE pc = "parse"
        BY <1>0, <1>1, <3>1, <4>2, FullOfNothing
      <4> QED
        BY <1>1, <1>5, <4>1, <4>2
    <3>3. Len(buf) \in 0..Len(Pipe) /\ Pipe' = From(Pipe, Len(buf))
      BY <1>0, <2>3, <3>1, Emptying, PartsType, Joined
    <3>4. InPipe'
      BY <1>0, <1>1, <3>2, <3>3, Dropped
    <3> QED
      BY <1>2, <1>3, <2>2, <3>4 DEF DInv
  <2> QED
    BY <2>4, <2>5
<1> QED
  BY <1>4, <1>5

\* A complete item is the next request, or not taken for one.
LEMMA GotMessageDelivery == DeliveryInv /\ GotMessage => DInv'
<1>0. SUFFICES ASSUME DeliveryInv, GotMessage PROVE DInv'
  OBVIOUS
<1>1. PICK n \in 1..Len(buf) : n = MessageLength(buf)
  <2>1. MessageLength(buf) \in 0..Len(buf) /\ MessageLength(buf) > 0 /\ Len(buf) \in Nat
    BY <1>0, PartsType, MessageLengthRange DEF GotMessage
  <2> QED
    BY <2>1
<1>2. /\ pc = "parse" /\ Dispatch(Head(buf)[1], n) /\ Consume(n)
      /\ UNCHANGED <<link, line, elapsed, host, gap>>
  BY <1>0, <1>1 DEF GotMessage, Parsing, DeliveryInv, IInv, Doomed
<1>3. Pipe = buf \o line /\ buf # <<>>
  BY <1>1, <1>2 DEF Pipe
<1>4. Len(buf) \in Nat /\ Len(buf) \in 0..Len(Pipe) /\ n \in Nat /\ n \in 0..Len(buf)
        /\ n \in 0..Len(Pipe)
  <2>1. Len(buf) \in Nat /\ Len(buf) \in 0..Len(Pipe) /\ Len(Pipe) \in Nat
    BY <1>0, <1>3, Emptying, PartsType
  <2> QED
    BY <2>1
<1>5. \/ pc' = "read" /\ late' = elapsed
      \/ pc' = "parse" /\ Len(buf') < Len(buf) /\ ~reject'
  <2>1. CASE n = Len(buf)
    BY <1>2, <2>1 DEF Consume, Return, ReturnWith
  <2>2. CASE n # Len(buf)
    <3>1. buf' = From(buf, n) /\ reject' = FALSE /\ pc' = pc
      BY <1>2, <2>2 DEF Consume
    <3>2. Len(buf') = Len(buf) - n
      BY <1>0, <1>4, <3>1, PartsType, FromAt
    <3> QED
      BY <1>1, <1>2, <1>4, <3>1, <3>2
  <2> QED
    BY <2>1, <2>2
<1>6. Pipe' = From(Pipe, n)
  <2>1. CASE n = Len(buf)
    <3>1. pc' = "read" /\ buf' = <<>>
      BY <1>2, <2>1 DEF Consume, Return, ReturnWith
    <3>2. Pipe' = line
      BY <1>0, <1>2, <3>1, PartsType, Joined DEF Pipe
    <3> QED
      BY <1>0, <1>3, <2>1, <3>2, Emptying
  <2>2. CASE n # Len(buf)
    <3>1. buf' = From(buf, n) /\ pc' = "parse"
      BY <1>2, <2>2 DEF Consume
    <3>2. Pipe' = From(buf, n) \o line
      BY <1>2, <3>1 DEF Pipe
    <3> QED
      BY <1>0, <1>3, <1>4, <3>2, PartsType, JoinedRest
  <2> QED
    BY <2>1, <2>2
<1>7. Quiet' /\ Forced'
  BY <1>0, <1>2, <1>5 DEF Quiet, Forced, DeliveryInv, DInv
<1>8. Rejects'
  <2>1. link = "ble" => Len(buf) < Cap
    BY <1>0, <1>2 DEF DeliveryInv, DInv, Rejects
  <2>2. CASE pc' = "read"
    BY <2>2 DEF Rejects
  <2>3. CASE pc' # "read"
    <3>1. pc' = "parse" /\ Len(buf') < Len(buf) /\ ~reject'
      BY <1>5, <2>3
    <3>2. Len(buf') \in Nat
      BY <1>0, <1>2, <3>1, <1>4, PartsType, FromAt DEF Consume, Return, ReturnWith
    <3>3. Len(buf) < Cap => Len(buf') < Cap
      BY <1>4, <3>1, <3>2, WireAssumption
    <3> QED
      BY <1>2, <2>1, <3>1, <3>3 DEF Rejects
  <2> QED
    BY <2>2, <2>3
<1>9. Sending'
  BY <1>0, <1>2 DEF DeliveryInv, DInv, Sending, Progress, host
<1>10. CASE Len(handled) < Len(sent)
  <2> DEFINE m == sent[Len(handled) + 1]
  <2>1. /\ m \in Messages /\ ~Bad(m) /\ Head(buf) = <<m, 1>> /\ Item[Head(buf)] = Size[m]
        /\ \A j \in 1..Len(buf) : j <= Size[m] => buf[j] = <<m, j>>
    BY <1>0, <1>3, <1>10, NextThere
  <2> HIDE DEF m
  <2>2. n = Size[m]
    BY <1>1, <2>1 DEF MessageLength
  <2>3. SubSeq(buf, 1, n) = BytesOf(m)
    <3>1. /\ SubSeq(buf, 1, n) \in Seq(Bytes) /\ Len(SubSeq(buf, 1, n)) = n
          /\ \A j \in 1..n : SubSeq(buf, 1, n)[j] = buf[j]
      BY <1>0, <1>4, PartsType
    <3>2. BytesOf(m) \in Seq(Bytes) /\ Len(BytesOf(m)) = n
            /\ \A j \in 1..n : BytesOf(m)[j] = <<m, j>>
      BY <2>1, <2>2, BytesOfType, BytesOfAt
    <3>3. \A j \in 1..n : buf[j] = <<m, j>>
      BY <1>4, <2>1, <2>2
    <3> QED
      BY <3>1, <3>2, <3>3
  <2>4. handled' = Append(handled, m)
    <3>1. m \notin Noise /\ Head(buf)[1] = m
      BY <2>1 DEF Bad
    <3> QED
      BY <1>2, <2>3, <3>1 DEF Dispatch, DispatchWith
  <2>5. InPipe'
    BY <1>0, <1>2, <1>4, <1>6, <1>10, <2>2, <2>4, Served DEF m
  <2>6. History'
    <3>1. handled \in Seq(Messages) /\ sent \in Seq(Messages) /\ Len(handled) \in Nat
            /\ Len(sent) \in Nat
      BY <1>0, PartsType
    <3>2. /\ handled' \in Seq(Messages) /\ Len(handled') = Len(handled) + 1
          /\ handled'[Len(handled) + 1] = m
          /\ \A i \in 1..Len(handled) : handled'[i] = handled[i]
      BY <2>1, <2>4, <3>1
    <3>3. \A i \in 1..Len(handled') : handled'[i] = sent[i]
      <4> SUFFICES ASSUME NEW i \in 1..Len(handled') PROVE handled'[i] = sent[i]
        OBVIOUS
      <4>1. CASE i = Len(handled) + 1
        BY <3>2, <4>1 DEF m
      <4>2. CASE i # Len(handled) + 1
        <5>1. i \in 1..Len(handled)
          BY <3>1, <3>2, <4>2
        <5> QED
          BY <1>0, <3>2, <5>1 DEF DeliveryInv, DInv, History
      <4> QED
        BY <4>1, <4>2
    <3>4. sent' = sent /\ Len(handled') <= Len(sent)
      BY <1>2, <1>10, <3>1, <3>2 DEF host
    <3>5. (\A i \in 1..Len(sent) : ~Bad(sent[i]))'
      BY <1>0, <1>2, <3>4 DEF DeliveryInv, DInv, History, Bad, Oversized
    <3> QED
      BY <3>1, <3>2, <3>3, <3>4, <3>5 DEF History
  <2> QED
    BY <1>7, <1>8, <1>9, <2>5, <2>6 DEF DInv
<1>11. CASE ~(Len(handled) < Len(sent))
  <2>1. Len(handled) = Len(sent)
    BY <1>0, <1>11, PartsType
  <2>2. (cur # None => Bad(cur)) /\ (Head(buf)[1] \in Noise \/ Head(buf)[2] # 1)
    BY <1>0, <1>1, <1>2, <1>3, <2>1, NothingThere
  <2>3. handled' = handled
    BY <1>2, <2>2 DEF Dispatch, DispatchWith
  <2>4. InPipe'
    BY <1>0, <1>2, <1>4, <1>6, <2>1, <2>2, <2>3, Dropped
  <2>5. History'
    BY <1>0, <1>2, <2>3, SameHistory DEF DeliveryInv, DInv, host
  <2> QED
    BY <1>7, <1>8, <1>9, <2>4, <2>5 DEF DInv
<1> QED
  BY <1>10, <1>11

-----------------------------------------------------------------------------
LEMMA DeliveryInitially == Init => DeliveryInv
<1>0. SUFFICES ASSUME Init PROVE DeliveryInv
  OBVIOUS
<1>1. <<>> \in Seq(Bytes) /\ <<>> \in Seq(Messages) /\ Len(<<>>) = 0
  OBVIOUS
<1>2. Pipe = <<>> /\ handled = <<>> /\ sent = <<>> /\ cur = None /\ ~owesSilence
  BY <1>0, <1>1, Joined DEF Init, Pipe
<1>3. InPipe
  <2>1. Whole(Pipe, 0, Len(handled), sent)
    BY <1>1, <1>2, WholeNone
  <2>2. Fragment(Pipe, 0)
    BY <1>1, <1>2 DEF Fragment, Harmless
  <2> QED
    BY <1>1, <1>2, <2>1, <2>2 DEF InPipe
<1>4. History /\ Sending
  BY <1>1, <1>2 DEF History, Sending
<1>5. Forced /\ Rejects /\ Quiet
  BY <1>0 DEF Init, Forced, Rejects, Quiet
<1> QED
  BY <1>0, <1>3, <1>4, <1>5, Initially DEF DeliveryInv, DInv

LEMMA DeliveryInductive == ~MayStall => (DeliveryInv /\ [Next]_vars => DeliveryInv')
<1>0. SUFFICES ASSUME ~MayStall, DeliveryInv, [Next]_vars PROVE DInv'
  BY Inductive DEF DeliveryInv
<1>1. CASE \E m \in Messages : StartMessage(m)
  BY <1>0, <1>1, StartDelivery
<1>2. CASE SendByte \/ BreakOff
  BY <1>0, <1>2, SendDelivery, BreakOffDelivery
<1>3. CASE TimePasses \/ Disconnect
  BY <1>0, <1>3, TimeDelivery, DisconnectDelivery
<1>4. CASE Reader
  BY <1>0, <1>4, ReadDelivery, NoMessageDelivery, GotMessageDelivery DEF Reader
<1>5. CASE TakeMessage \/ UNCHANGED vars
  BY <1>0, <1>5, IdleDelivery
<1> QED
  BY <1>0, <1>1, <1>2, <1>3, <1>4, <1>5 DEF Next, Host

\* While the queue is never full for over two seconds, handle_data() cuts the stream
\* into exactly the requests sent, whole, once and in order, whatever noise, broken-off
\* or oversized messages are between them; and at rest none of them is missing.
THEOREM EachOnceInOrder == ASSUME ~MayStall PROVE Spec => []Delivered
<1>1. DeliveryInv => Delivered
  <2>1. ASSUME DeliveryInv PROVE IsPrefix(handled, sent)
    <3>1. /\ handled \in Seq(Messages) /\ sent \in Seq(Messages)
          /\ Len(handled) \in 0..Len(sent) /\ Len(sent) \in Nat
          /\ \A i \in 1..Len(handled) : handled[i] = sent[i]
      BY <2>1, PartsType DEF DeliveryInv, DInv, History
    <3>2. SubSeq(handled, 1, Len(handled)) = SubSeq(sent, 1, Len(handled))
      BY <3>1
    <3> QED
      BY <3>1, <3>2 DEF IsPrefix
  <2>2. ASSUME DeliveryInv, pc = "read", line = <<>> PROVE handled = sent
    <3>1. Len(handled) = Len(sent)
      BY <2>2, AllDone
    <3>2. /\ handled \in Seq(Messages) /\ sent \in Seq(Messages)
          /\ \A i \in 1..Len(handled) : handled[i] = sent[i]
      BY <2>2, PartsType DEF DeliveryInv, DInv, History
    <3> QED
      BY <3>1, <3>2
  <2> QED
    BY <2>1, <2>2 DEF Delivered
<1>2. DeliveryInv /\ [Next]_vars => DeliveryInv'
  BY DeliveryInductive
<1> QED
  BY <1>1, <1>2, DeliveryInitially, PTL DEF Spec

\* Under the same condition handle_data() takes bytes for stale only if the host sent
\* nothing for over two seconds before those that have just arrived.
THEOREM TimeoutIsSilence == ASSUME ~MayStall PROVE Spec => TimeoutMeansSilence
<1>1. DeliveryInv /\ [Next]_vars => [pc = "read" /\ pc' = "stale" => gap]_vars
  <2> SUFFICES ASSUME DeliveryInv, Next, pc = "read", pc' = "stale" PROVE gap
    BY DEF vars, reader
  <2>1. ReadSerial \/ ReadBle
    BY DEF Next, Host, StartMessage, SendByte, BreakOff, TimePasses, Disconnect,
           DisconnectWith, TakeMessage, Reader, NoMessage, GotMessage, Parsing, reader
  <2>2. line # <<>>
    <3>1. PICK n \in 1..Len(line) : TRUE
      BY <2>1 DEF ReadSerial, ReadBle, ReadBleBelow
    <3> QED
      BY <3>1
  <2>3. late
    BY <2>1 DEF ReadSerial, ReadBle, ReadBleBelow, HandleData, HandleDataWith, Stale
  <2> QED
    BY <2>2, <2>3 DEF DeliveryInv, DInv, Quiet
<1>2. DeliveryInv /\ [Next]_vars => DeliveryInv'
  BY DeliveryInductive
<1> QED
  BY <1>1, <1>2, DeliveryInitially, PTL DEF Spec, TimeoutMeansSilence

-----------------------------------------------------------------------------
(* Every request is handled.  Each step of the reader brings the bytes closer to their
   end, and until all has been handled the host has only so much to send: a few
   requests, and then at most one thing after which it must be silent. *)

Stage ==
    CASE pc = "read" -> 1
      [] pc = "parse" \/ (pc = "force" /\ buf = <<>>) -> 2
      [] OTHER -> 0

\* What is left to do with the bytes that the host has begun to send.
Work == 5 * (Len(rest) + Len(line)) + 3 * (Len(fresh) + Len(buf)) + Stage

Unsent == MaxSent - Len(sent)

Course ==
    /\ pc # "stale" => fresh = <<>>
    /\ pc = "stale" => buf # <<>>
    /\ owesSilence => cur = None
    /\ cur # None => Len(sent) < MaxSent
    /\ Len(sent) <= MaxSent

\* What is read: some bytes, or none, so that what rests in the buffer is rejected.
LEMMA Reading ==
    ASSUME DeliveryInv, ReadSerial \/ ReadBle
    PROVE  \/ \E n \in 1..Len(line) : HandleData(n, FALSE)
           \/ HandleData(0, TRUE) /\ buf # <<>>
<1>1. CASE ReadSerial
  BY <1>1 DEF ReadSerial
<1>2. CASE ReadBle
  <2>1. PICK k \in 1..Len(line) :
          /\ k < Cap
          /\ IF Len(buf) + k >= Cap THEN HandleData(0, TRUE) ELSE HandleData(k, FALSE)
    BY <1>2 DEF ReadBle, ReadBleBelow
  <2>2. CASE Len(buf) + k >= Cap
    <3>1. Len(buf) # 0
      BY <2>1, <2>2, PartsType, WireAssumption
    <3>2. buf # <<>>
      BY <3>1
    <3>3. HandleData(0, TRUE)
      BY <2>1, <2>2
    <3> QED
      BY <3>2, <3>3
  <2>3. CASE ~(Len(buf) + k >= Cap)
    BY <2>1, <2>3
  <2> QED
    BY <2>2, <2>3
<1> QED
  BY <1>1, <1>2

LEMMA CourseStep == ASSUME MaxSent \in Nat PROVE DeliveryInv /\ Course /\ [Next]_vars => Course'
<1> SUFFICES ASSUME DeliveryInv, Course, [Next]_vars PROVE Course'
  OBVIOUS
<1>t. /\ buf \in Seq(Bytes) /\ line \in Seq(Bytes) /\ fresh \in Seq(Bytes)
      /\ rest \in Seq(Bytes) /\ sent \in Seq(Messages)
  BY PartsType
<1>1. ASSUME NEW m \in Messages, StartMessage(m) PROVE Course'
  BY <1>1 DEF StartMessage, Course, reader
<1>2. CASE SendByte
  <2>1. UNCHANGED <<pc, fresh, buf>> /\ cur # None /\ ~owesSilence
    BY <1>2 DEF SendByte, reader, Course
  <2>2. CASE Len(rest) > 1
    BY <1>2, <2>1, <2>2 DEF SendByte, Course
  <2>3. CASE ~(Len(rest) > 1)
    <3>1. cur' = None /\ (sent' = sent \/ sent' = Append(sent, cur)) /\ cur \in Messages
      BY <1>2, <2>1, <2>3 DEF SendByte, DeliveryInv, IInv, TypesOK
    <3>2. Len(sent') \in {Len(sent), Len(sent) + 1} /\ Len(sent) \in Nat
      BY <1>t, <3>1
    <3> QED
      BY <2>1, <3>1, <3>2 DEF Course
  <2> QED
    BY <2>2, <2>3
<1>3. CASE BreakOff
  BY <1>3 DEF BreakOff, Course, reader
<1>4. CASE TimePasses
  BY <1>4 DEF TimePasses, Course
<1>5. CASE Disconnect
  BY <1>5 DEF Disconnect, DisconnectWith, Course
<1>6. CASE TakeMessage \/ UNCHANGED vars
  BY <1>6 DEF TakeMessage, vars, reader, host, Course
<1>7. CASE ReadSerial \/ ReadBle
  <2>1. \E n, force : HandleData(n, force)
    BY <1>7, Reading
  <2>2. pc = "read" /\ UNCHANGED host
    BY <1>7 DEF ReadSerial, ReadBle, ReadBleBelow
  <2>3. CASE Stale
    BY <2>1, <2>2, <2>3 DEF HandleData, HandleDataWith, Stale, host, Course
  <2>4. CASE ~Stale
    <3>1. pc' \in {"force", "parse"} /\ fresh' = fresh
      BY <2>1, <2>4 DEF HandleData, HandleDataWith
    <3> QED
      BY <2>2, <3>1 DEF host, Course
  <2> QED
    BY <2>3, <2>4
<1>8. CASE NoMessage \/ GotMessage
  <2>1. UNCHANGED host /\ pc \in {"stale", "force", "parse"}
    BY <1>8 DEF NoMessage, GotMessage, Parsing
  <2>2. \/ UNCHANGED <<pc, fresh>> /\ pc = "parse"
        \/ pc' # "stale" /\ (pc = "stale" => fresh' = <<>>) /\ (pc # "stale" => fresh' = fresh)
        \/ pc' = "aborted" /\ FALSE
    <3>1. CASE NoMessage
      <4>1. Return(IF reject THEN <<>> ELSE buf)
        BY <3>1 DEF NoMessage
      <4>2. pc \in {"stale", "force"} => reject
        BY DEF DeliveryInv, IInv, Doomed
      <4> QED
        BY <2>1, <4>1, <4>2 DEF Return, ReturnWith
    <3>2. CASE GotMessage
      <4>1. MessageLength(buf) > 0 /\ Consume(MessageLength(buf))
        BY <3>2 DEF GotMessage
      <4>2. pc = "parse"
        BY <2>1, <4>1 DEF DeliveryInv, IInv, Doomed
      <4> QED
        BY <4>1, <4>2 DEF Consume, Return, ReturnWith
    <3> QED
      BY <1>8, <3>1, <3>2
  <2> QED
    BY <2>1, <2>2 DEF host, Course
<1> QED
  BY <1>1, <1>2, <1>3, <1>4, <1>5, <1>6, <1>7, <1>8 DEF Next, Host, Reader

LEMMA RanksAreNatural == ASSUME MaxSent \in Nat, DeliveryInv, Course PROVE Work \in Nat /\ Unsent \in Nat
<1>1. /\ Len(rest) \in Nat /\ Len(line) \in Nat /\ Len(fresh) \in Nat /\ Len(buf) \in Nat
      /\ Len(sent) \in Nat
  BY PartsType
<1>2. Stage \in 0..2
  BY DEF Stage
<1> QED
  BY <1>1, <1>2 DEF Work, Unsent, Course

\* A step of the reader gets on with the work.
LEMMA ReaderWorks == ASSUME DeliveryInv, Course, Reader PROVE Work' < Work
<1>t. /\ buf \in Seq(Bytes) /\ line \in Seq(Bytes) /\ fresh \in Seq(Bytes)
      /\ rest \in Seq(Bytes)
  BY PartsType
<1>u. /\ Len(rest) \in Nat /\ Len(line) \in Nat /\ Len(fresh) \in Nat /\ Len(buf) \in Nat
  BY <1>t
<1>1. CASE ReadSerial \/ ReadBle
  <2>1. PICK n \in 0..Len(line), force \in BOOLEAN :
          /\ HandleData(n, force)
          /\ \/ n > 0 /\ ~force
             \/ n = 0 /\ force /\ buf # <<>>
    <3>1. ASSUME NEW k \in 1..Len(line), HandleData(k, FALSE)
          PROVE  k \in 0..Len(line) /\ k > 0
      BY <1>u, <3>1
    <3>2. 0 \in 0..Len(line)
      BY <1>u
    <3> QED
      BY <1>1, <3>1, <3>2, Reading
  <2>n. n \in Nat /\ n <= Len(line)
    BY <1>u, <2>1
  <2>2. pc = "read" /\ rest' = rest /\ fresh = <<>> /\ Len(fresh) = 0
    BY <1>1 DEF ReadSerial, ReadBle, ReadBleBelow, host, Course
  <2>3. Len(line') = Len(line) - n
    <3>1. line' = From(line, n)
      BY <2>1 DEF HandleData, HandleDataWith
    <3> QED
      BY <1>t, <3>1, FromType
  <2>4. LET new == SubSeq(line, 1, n) IN new \in Seq(Bytes) /\ Len(new) = n
    BY <1>t
  <2>5. Stage = 1
    BY <2>2 DEF Stage
  <2>6. CASE Stale
    <3>1. pc' = "stale" /\ fresh' = SubSeq(line, 1, n) /\ buf' = buf
      BY <2>1, <2>6 DEF HandleData, HandleDataWith
    <3>2. Len(fresh') = n /\ Stage' = 0
      BY <2>4, <3>1 DEF Stage
    <3>3. Len(rest') = Len(rest) /\ Len(buf') = Len(buf) /\ Len(fresh) = 0
      BY <2>2, <3>1
    <3> QED
      BY <1>u, <2>3, <2>5, <2>n, <3>2, <3>3 DEF Work
  <2>7. CASE ~Stale
    <3>1. /\ pc' = IF force THEN "force" ELSE "parse"
          /\ buf' = buf \o SubSeq(line, 1, n) /\ fresh' = fresh
      BY <2>1, <2>7 DEF HandleData, HandleDataWith
    <3>2. Len(buf') = Len(buf) + n
      BY <1>t, <2>4, <3>1
    <3>3. Stage' = IF force THEN 0 ELSE 2
      <4>1. force => buf' # <<>>
        BY <1>t, <2>1, <2>4, <3>1, Len(<<>>) = 0, <3>2, EmptySeq
      <4> QED
        BY <3>1, <4>1 DEF Stage
    <3> QED
      <4>1. Len(fresh') = 0
        BY <2>2, <3>1
      <4>2. (n > 0 /\ Stage' = 2) \/ (n = 0 /\ Stage' = 0)
        BY <2>1, <3>3
      <4> QED
        BY <1>u, <2>2, <2>3, <2>5, <2>n, <3>2, <4>1, <4>2 DEF Work
  <2> QED
    BY <2>6, <2>7
<1>2. CASE NoMessage \/ GotMessage
  <2>1. UNCHANGED <<line, rest>> /\ pc \in {"stale", "force", "parse"}
    BY <1>2 DEF NoMessage, GotMessage, Parsing, host
  <2>2. CASE NoMessage
    <3>1. Return(IF reject THEN <<>> ELSE buf)
      BY <2>2 DEF NoMessage
    <3>2. pc \in {"stale", "force"} => reject
      BY DEF DeliveryInv, IInv, Doomed
    <3>3. CASE pc = "stale"
      <4>1. pc' = (IF fresh = <<>> THEN "force" ELSE "parse") /\ buf' = fresh /\ fresh' = <<>>
        BY <3>1, <3>2, <3>3 DEF Return, ReturnWith
      <4>2. Stage = 0 /\ Stage' = 2
        BY <3>3, <4>1 DEF Stage
      <4>3. Len(buf) > 0 /\ Len(fresh') = 0
        BY <1>t, <3>3, <4>1 DEF Course
      <4> QED
        BY <1>u, <2>1, <4>1, <4>2, <4>3 DEF Work
    <3>4. CASE pc = "force"
      <4>1. pc' = "read" /\ buf' = <<>> /\ fresh' = fresh
        BY <3>1, <3>2, <3>4 DEF Return, ReturnWith
      <4>2. Stage' = 1 /\ Len(buf') = 0
        BY <4>1 DEF Stage
      <4>3. (Len(buf) = 0 /\ Stage = 2) \/ (Len(buf) > 0 /\ Stage = 0)
        <5>1. CASE buf = <<>>
          BY <3>4, <5>1 DEF Stage
        <5>2. CASE buf # <<>>
          BY <1>t, <3>4, <5>2 DEF Stage
        <5> QED
          BY <5>1, <5>2
      <4>4. Len(rest') = Len(rest) /\ Len(line') = Len(line) /\ Len(fresh') = Len(fresh)
        BY <2>1, <4>1
      <4> QED
        BY <1>u, <4>2, <4>3, <4>4 DEF Work
    <3>5. CASE pc = "parse"
      <4>1. pc' = "read" /\ buf' = (IF reject THEN <<>> ELSE buf) /\ fresh' = fresh
        BY <3>1, <3>5 DEF Return, ReturnWith
      <4>2. Stage = 2 /\ Stage' = 1 /\ Len(buf') <= Len(buf) /\ Len(buf') \in Nat
        BY <1>u, <3>5, <4>1 DEF Stage
      <4>3. Len(rest') = Len(rest) /\ Len(line') = Len(line) /\ Len(fresh') = Len(fresh)
        BY <2>1, <4>1
      <4> QED
        BY <1>u, <4>2, <4>3 DEF Work
    <3> QED
      BY <2>1, <3>3, <3>4, <3>5
  <2>3. CASE GotMessage
    <3>1. MessageLength(buf) > 0 /\ Consume(MessageLength(buf))
      BY <2>3 DEF GotMessage
    <3>2. pc = "parse" /\ Stage = 2
      BY <2>1, <3>1 DEF DeliveryInv, IInv, Doomed, Stage
    <3>3. MessageLength(buf) \in 1..Len(buf)
      BY <1>t, <3>1, MessageLengthRange
    <3>4. CASE MessageLength(buf) = Len(buf)
      <4>1. pc' = "read" /\ buf' = <<>> /\ fresh' = fresh
        BY <3>1, <3>2, <3>4 DEF Consume, Return, ReturnWith
      <4>2. Stage' = 1 /\ Len(buf') = 0
        BY <4>1 DEF Stage
      <4> QED
        BY <1>u, <2>1, <3>2, <3>3, <4>1, <4>2 DEF Work
    <3>5. CASE MessageLength(buf) # Len(buf)
      <4>1. pc' = pc /\ buf' = From(buf, MessageLength(buf)) /\ fresh' = fresh
        BY <3>1, <3>5 DEF Consume
      <4>2. Stage' = 2 /\ Len(buf') = Len(buf) - MessageLength(buf)
        BY <1>t, <3>2, <3>3, <4>1, FromType DEF Stage
      <4> QED
        BY <1>u, <2>1, <3>2, <3>3, <4>1, <4>2 DEF Work
    <3> QED
      BY <3>4, <3>5
  <2> QED
    BY <1>2, <2>2, <2>3
<1> QED
  BY <1>1, <1>2 DEF Reader

\* As many handled as sent: all of them.
LEMMA Caught == ASSUME DeliveryInv PROVE handled = sent <=> Len(handled) = Len(sent)
<1>1. /\ handled \in Seq(Messages) /\ sent \in Seq(Messages)
      /\ \A i \in 1..Len(handled) : handled[i] = sent[i]
  BY PartsType DEF DeliveryInv, DInv, History
<1> QED
  BY <1>1

\* Whoever sends nothing, or must be silent next, adds no work; nor do the others.
LEMMA OthersWork ==
    ASSUME DeliveryInv, Course, [Next]_vars, cur # None \/ owesSilence \/ cur' = None
    PROVE  Work' <= Work
<1>t. /\ buf \in Seq(Bytes) /\ line \in Seq(Bytes) /\ fresh \in Seq(Bytes)
      /\ rest \in Seq(Bytes)
  BY PartsType
<1>u. /\ Len(rest) \in Nat /\ Len(line) \in Nat /\ Len(fresh) \in Nat /\ Len(buf) \in Nat
      /\ Stage \in 0..2
  BY <1>t DEF Stage
<1>1. CASE \E m \in Messages : StartMessage(m)
  <2>1. PICK m \in Messages : StartMessage(m)
    BY <1>1
  <2>2. cur = None /\ ~owesSilence /\ cur' = m
    BY <2>1 DEF StartMessage
  <2> QED
    BY <2>2, WireAssumption
<1>2. CASE SendByte
  <2>1. UNCHANGED <<pc, fresh, buf>> /\ cur # None
    BY <1>2 DEF SendByte, reader
  <2>2. line' = Append(line, Head(rest)) /\ rest' = Tail(rest) /\ rest # <<>>
    BY <1>2, <2>1 DEF SendByte, DeliveryInv, IInv, TypesOK
  <2>3. Len(line') = Len(line) + 1 /\ Len(rest') = Len(rest) - 1
    BY <1>t, <2>2
  <2>4. Stage' = Stage /\ Len(fresh') = Len(fresh) /\ Len(buf') = Len(buf)
    BY <2>1 DEF Stage
  <2> QED
    BY <1>u, <2>3, <2>4 DEF Work
<1>3. CASE BreakOff
  <2>1. Len(rest') = 0 /\ UNCHANGED <<line, pc, fresh, buf>>
    BY <1>3 DEF BreakOff, reader
  <2>2. Stage' = Stage /\ UNCHANGED <<Len(line), Len(fresh), Len(buf)>>
    BY <2>1 DEF Stage
  <2> QED
    BY <1>u, <2>1, <2>2 DEF Work
<1>4. CASE Disconnect
  <2>1. Len(rest') = 0 /\ Len(buf') = 0 /\ UNCHANGED <<line, pc, fresh>> /\ pc = "read"
    BY <1>4 DEF Disconnect, DisconnectWith
  <2>2. Stage' = Stage /\ UNCHANGED <<Len(line), Len(fresh)>>
    BY <2>1 DEF Stage
  <2> QED
    BY <1>u, <2>1, <2>2 DEF Work
<1>5. CASE TimePasses \/ TakeMessage \/ UNCHANGED vars
  <2>1. UNCHANGED <<rest, line, fresh, buf, pc>>
    BY <1>5 DEF TimePasses, TakeMessage, vars, reader, host
  <2> QED
    BY <1>u, <2>1 DEF Work, Stage
<1>6. CASE Reader
  <2>1. Work' < Work
    BY <1>6, ReaderWorks
  <2>2. IInv'
    BY Inductive DEF DeliveryInv
  <2>3. Len(rest') \in Nat /\ Len(line') \in Nat /\ Len(fresh') \in Nat /\ Len(buf') \in Nat
    BY <2>2 DEF IInv, TypesOK
  <2>4. Stage' \in 0..2
    BY DEF Stage
  <2>5. Work' \in Nat /\ Work \in Nat
    BY <1>u, <2>3, <2>4 DEF Work
  <2> QED
    BY <2>1, <2>5
<1> QED
  BY <1>1, <1>2, <1>3, <1>4, <1>5, <1>6 DEF Next, Host

\* Until all has been handled, a host that owes a silence stays silent, and one that is
\* sending goes on until it has sent a request or owes a silence.
LEMMA HostEnds ==
    ASSUME DeliveryInv, Course, handled # sent, [Next]_vars, ~MayStall
    PROVE  /\ owesSilence => owesSilence'
           /\ cur # None /\ Len(sent') = Len(sent) => cur' # None \/ owesSilence'
<1>1. ~(pc = "read" /\ line = <<>>)
  <2>1. SUFFICES ASSUME pc = "read", line = <<>> PROVE FALSE
    OBVIOUS
  <2> QED
    BY <2>1, AllDone, Caught
<1>2. ~TimePasses /\ ~Disconnect
  BY <1>1 DEF TimePasses, Disconnect, DisconnectWith
<1>3. CASE \E m \in Messages : StartMessage(m)
  BY <1>3 DEF StartMessage
<1>4. CASE SendByte
  <2>1. ~owesSilence /\ cur \in Messages
    BY <1>4 DEF SendByte, Course, DeliveryInv, IInv, TypesOK
  <2>2. CASE Len(rest) > 1
    BY <1>4, <2>1, <2>2 DEF SendByte
  <2>3. CASE ~(Len(rest) > 1) /\ ~owesSilence'
    <3>1. sent' = Append(sent, cur)
      BY <1>4, <2>3 DEF SendByte
    <3>2. Len(sent') = Len(sent) + 1 /\ Len(sent) \in Nat
      BY <2>1, <3>1, PartsType
    <3> QED
      BY <2>1, <3>2
  <2> QED
    BY <2>1, <2>2, <2>3
<1>5. CASE BreakOff
  BY <1>5 DEF BreakOff
<1>6. CASE Reader
  <2>1. UNCHANGED host
    BY <1>6 DEF Reader, ReadSerial, ReadBle, ReadBleBelow, NoMessage, GotMessage
  <2> QED
    BY <2>1 DEF host
<1>7. CASE TakeMessage \/ UNCHANGED vars
  BY <1>7 DEF TakeMessage, vars, host
<1> QED
  BY <1>2, <1>3, <1>4, <1>5, <1>6, <1>7 DEF Next, Host

\* What has been sent stays sent.
LEMMA SentGrows ==
    ASSUME MaxSent \in Nat, DeliveryInv, Course, [Next]_vars
    PROVE  /\ Unsent' <= Unsent
           /\ Unsent' = Unsent => Len(sent') = Len(sent)
<1>1. sent \in Seq(Messages) /\ Len(sent) \in Nat
  BY PartsType
<1>2. \/ sent' = sent
      \/ sent' = Append(sent, cur) /\ cur \in Messages
  BY DEF Next, Host, StartMessage, SendByte, BreakOff, TimePasses, Disconnect, DisconnectWith,
         TakeMessage, Reader, ReadSerial, ReadBle, ReadBleBelow, NoMessage, GotMessage, host,
         vars, DeliveryInv, IInv, TypesOK
<1>3. Len(sent') \in {Len(sent), Len(sent) + 1}
  BY <1>1, <1>2
<1> QED
  BY <1>1, <1>3 DEF Unsent

\* Somebody can go on: the main task, when the reader waits for room, or the reader.
CanRead == (Parsing /\ ~Blocked) \/ (pc = "read" /\ line # <<>>)

LEMMA SomebodyReads ==
    ASSUME DeliveryInv, handled # sent
    PROVE  /\ ~(pc = "read" /\ line = <<>>)
           /\ CanRead \/ Blocked
<1>1. pc \in Labels \ {"aborted"}
  BY DEF DeliveryInv, IInv, TypesOK
<1>2. ~(pc = "read" /\ line = <<>>)
  BY AllDone, Caught
<1> QED
  BY <1>1, <1>2 DEF CanRead, Parsing, Labels

LEMMA ReadersTurn ==
    ASSUME DeliveryInv, Lists, handled # sent, [Next]_vars, ~MayStall
    PROVE  /\ CanRead => CanRead' \/ Reader
           /\ Blocked => Blocked' \/ CanRead' \/ Reader
           /\ Blocked /\ TakeMessage => CanRead'
<1>0. pc \in Labels \ {"aborted"}
  BY DEF DeliveryInv, IInv, TypesOK
<1>1. ~(pc = "read" /\ line = <<>>)
  BY SomebodyReads
<1>2. CanRead \/ Blocked
  BY SomebodyReads
<1>3. ~TimePasses /\ ~Disconnect
  BY <1>1 DEF TimePasses, Disconnect, DisconnectWith
<1>4. ASSUME TakeMessage PROVE CanRead'
  <2>1. UNCHANGED <<pc, buf, line>> /\ queue # <<>> /\ queue' = Tail(queue)
    BY <1>4 DEF TakeMessage, reader
  <2>2. queue \in Seq(Messages) /\ Len(queue) <= QueueSize /\ QueueSize \in Nat
    BY WireAssumption DEF Lists
  <2>3. Len(queue') # QueueSize
    BY <2>1, <2>2
  <2>4. ~Blocked' /\ Parsing' = Parsing
    BY <2>1, <2>3 DEF Blocked, Parsing
  <2> QED
    BY <1>1, <1>0, <2>1, <2>4 DEF CanRead, Parsing, Labels
<1>5. CASE Host \/ UNCHANGED vars
  <2>1. UNCHANGED <<pc, buf, queue>> /\ (line # <<>> => line' # <<>>)
    <3>1. CASE SendByte
      <4>1. line \in Seq(Bytes) /\ line' = Append(line, Head(rest))
        BY <3>1, PartsType DEF SendByte
      <4>2. line' # <<>>
        BY <4>1
      <4> QED
        BY <3>1, <4>2 DEF SendByte, reader
    <3>2. CASE BreakOff \/ (\E m \in Messages : StartMessage(m)) \/ UNCHANGED vars
      BY <3>2 DEF BreakOff, StartMessage, reader, vars
    <3> QED
      BY <1>5, <3>1, <3>2 DEF Host
  <2>2. UNCHANGED <<Parsing, Blocked>>
    BY <2>1 DEF Parsing, Blocked, MessageLength
  <2> QED
    BY <1>2, <1>4, <2>1, <2>2 DEF CanRead
<1> QED
  BY <1>2, <1>3, <1>4, <1>5 DEF Next

\* A natural number that only goes down settles.
WorkSettles == <>[][Work' <= Work]_vars => <>[][Work' = Work]_vars
UnsentSettles == <>[][Unsent' <= Unsent]_vars => <>[][Unsent' = Unsent]_vars

\* The reader and the main task can take a step when it is their turn.
ReaderCanGo == CanRead => ENABLED <<Reader>>_vars
MainCanTake == Blocked => ENABLED <<TakeMessage>>_vars

ServiceInv == DeliveryInv /\ Lists /\ Course

LEMMA ServiceInductive ==
    ASSUME ~MayStall, MaxSent \in Nat PROVE Spec => []ServiceInv
<1>1. Init => ServiceInv
  <2> SUFFICES ASSUME Init PROVE ServiceInv
    OBVIOUS
  <2>1. Len(<<>>) = 0 /\ <<>> \in Seq(Messages) /\ 0 <= QueueSize
    BY WireAssumption
  <2>2. Lists /\ Course
    BY <2>1 DEF Init, Lists, Course
  <2> QED
    BY <2>2, DeliveryInitially DEF ServiceInv
<1>2. ServiceInv /\ [Next]_vars => ServiceInv'
  BY DeliveryInductive, ListsStep, CourseStep DEF ServiceInv, DeliveryInv
<1> QED
  BY <1>1, <1>2, PTL DEF Spec

\* What the two have to do is counted by natural numbers.
THEOREM WorkIsCounted ==
    ASSUME ~MayStall, MaxSent \in Nat
    PROVE  Spec => [](Work \in Nat /\ Unsent \in Nat)
<1>1. ServiceInv => Work \in Nat /\ Unsent \in Nat
  BY RanksAreNatural DEF ServiceInv
<1> QED
  BY <1>1, ServiceInductive, PTL

\* While the queue is never full for over two seconds (~MayStall) and the reader and the
\* main task get their turns, every request sent is handled, whatever else the host sends
\* and however often it breaks off.
THEOREM NoneIsLeft ==
    ASSUME ~MayStall, MaxSent \in Nat
    PROVE  FairSpec /\ []ReaderCanGo /\ []MainCanTake /\ WorkSettles /\ UnsentSettles
             => AllHandled
<1> DEFINE done == handled = sent
<1> DEFINE sending == cur # None
<1>0. ASSUME ServiceInv, Reader PROVE Work' < Work /\ vars' # vars
  <2>1. Work' < Work /\ Work \in Nat
    BY <1>0, ReaderWorks, RanksAreNatural DEF ServiceInv
  <2>2. vars' = vars => Work' = Work
    BY DEF vars, reader, host, Work, Stage
  <2> QED
    BY <2>1, <2>2
<1>1. ServiceInv /\ [Next]_vars => [Unsent' <= Unsent]_vars
  BY SentGrows DEF ServiceInv
<1>2. ServiceInv /\ ~done /\ [Next]_vars /\ owesSilence => owesSilence'
  BY HostEnds DEF ServiceInv
<1>3. ServiceInv /\ ~done /\ [Next]_vars /\ [Unsent' = Unsent]_vars /\ sending
        => sending' \/ owesSilence'
  <2> SUFFICES ASSUME ServiceInv, ~done, [Next]_vars, [Unsent' = Unsent]_vars, sending
               PROVE  sending' \/ owesSilence'
    OBVIOUS
  <2>1. Len(sent') = Len(sent)
    BY SentGrows DEF ServiceInv, vars, host, Unsent
  <2> QED
    BY <2>1, HostEnds DEF ServiceInv
<1>4. ServiceInv /\ [Next]_vars => [Work' <= Work]_vars \/ (~sending /\ ~owesSilence /\ sending')
  BY OthersWork DEF ServiceInv
<1>5. ServiceInv /\ ~done => CanRead \/ Blocked
  BY SomebodyReads DEF ServiceInv
<1>6. ServiceInv /\ ~done /\ CanRead /\ [Next]_vars => CanRead' \/ <<Reader>>_vars
  BY <1>0, ReadersTurn DEF ServiceInv
<1>7. ServiceInv /\ ~done /\ Blocked /\ [Next]_vars => Blocked' \/ CanRead' \/ <<Reader>>_vars
  BY <1>0, ReadersTurn DEF ServiceInv
<1>8. ServiceInv /\ ~done /\ Blocked /\ <<TakeMessage>>_vars => CanRead'
  BY ReadersTurn DEF ServiceInv, Next
<1>9. ServiceInv /\ <<Reader>>_vars => ~[Work' = Work]_vars
  <2> SUFFICES ASSUME ServiceInv, Reader PROVE ~[Work' = Work]_vars
    OBVIOUS
  <2>1. Work' < Work /\ vars' # vars /\ Work \in Nat
    BY <1>0, RanksAreNatural DEF ServiceInv
  <2> QED
    BY <2>1
<1> QED
  BY <1>1, <1>2, <1>3, <1>4, <1>5, <1>6, <1>7, <1>8, <1>9, ServiceInductive, PTL
  DEF Spec, FairSpec, ReaderCanGo, MainCanTake, WorkSettles, UnsentSettles, AllHandled
=============================================================================
