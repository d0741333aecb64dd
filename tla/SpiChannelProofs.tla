-------------------------- MODULE SpiChannelProofs --------------------------
(***************************************************************************)
(* The SPI bus implements BusChannel when nothing fails, for any threads,  *)
(* traffic types, queue depths and bounds, stalls of the NCP included.     *)
(***************************************************************************)
EXTENDS SpiBusProofs

(* The abstract state: see Channel in SpiBus. *)
DownLine == IF txbuf > accepted THEN <<txbuf>> \o txq ELSE txq
UpLine == [t \in Bound |-> IF rxbuf.type = t THEN Append(rxq[t], rxbuf) ELSE rxq[t]]

(* The number of takes is no smaller than the last number taken; what is  *)
(* received is in hand only from the exchange to the delivery; no receive  *)
(* queue overflows.                                                        *)
Limits ==
  /\ accepted <= takes
  /\ rxbuf # NoMsg => epc \in {"second", "deliver"}
  /\ \A t \in Bound : Len(rxq[t]) <= RxqLen[t]

(* One step of the abstract channel each way. *)
Depth == [t \in Bound |-> RxqLen[t] + 1]

Enters ==
  /\ Len(DownLine) < TxqLen + 1
  /\ queued' = queued + 1
  /\ DownLine' = Append(DownLine, queued')

Taken ==
  /\ DownLine # <<>>
  /\ accepted' = Head(DownLine)
  /\ takes' = takes + 1
  /\ DownLine' = Tail(DownLine)

Given ==
  \E k \in Bound, m \in Msg :
    /\ Len(UpLine[k]) < Depth[k]
    /\ UpLine' = [UpLine EXCEPT ![k] = Append(@, m)]

Leaves == \E k \in Bound : UpLine[k] # <<>> /\ UpLine' = [UpLine EXCEPT ![k] = Tail(@)]

(***************************************************************************)
(* Sequences.                                                              *)
(***************************************************************************)

LEMMA ConsHeadTail ==
  ASSUME NEW S, NEW s \in Seq(S), s # <<>>
  PROVE  <<Head(s)>> \o Tail(s) = s
<1>1. /\ Len(s) \in Nat \ {0} /\ Head(s) \in S /\ Head(s) = s[1]
      /\ Tail(s) \in Seq(S) /\ Len(Tail(s)) = Len(s) - 1
      /\ \A i \in 1..(Len(s) - 1) : Tail(s)[i] = s[i + 1]
  BY HeadTailProperties, EmptySeq, LenProperties
<1> DEFINE h == <<Head(s)>>
<1>2. h \in Seq(S) /\ Len(h) = 1 /\ h[1] = s[1]
  BY <1>1
<1> DEFINE c == h \o Tail(s)
<1> HIDE DEF h
<1>3. /\ c \in Seq(S) /\ Len(c) = 1 + (Len(s) - 1)
      /\ \A i \in 1..(1 + (Len(s) - 1)) : c[i] = IF i <= 1 THEN h[i] ELSE Tail(s)[i - 1]
  <2>1. /\ c \in Seq(S) /\ Len(c) = Len(h) + Len(Tail(s))
        /\ \A i \in 1..(Len(h) + Len(Tail(s))) :
             c[i] = IF i <= Len(h) THEN h[i] ELSE Tail(s)[i - Len(h)]
    BY <1>1, <1>2, ConcatProperties, Zenon
  <2> HIDE DEF c
  <2> QED BY <1>1, <1>2, <2>1
<1>4. Len(c) = Len(s) /\ \A i \in 1..Len(s) : c[i] = s[i]
  <2>1. Len(c) = Len(s)
    BY <1>1, <1>3
  <2>2. ASSUME NEW i \in 1..Len(s) PROVE c[i] = s[i]
    <3>1. CASE i = 1
      BY <1>1, <1>2, <1>3, <3>1
    <3>2. CASE i # 1
      <4>1. i - 1 \in 1..(Len(s) - 1) /\ ~(i <= 1) /\ (i - 1) + 1 = i
        BY <1>1, <3>2
      <4>2. c[i] = Tail(s)[i - 1]
        BY <1>1, <1>3, <4>1
      <4> QED BY <1>1, <4>1, <4>2
    <3> QED BY <3>1, <3>2
  <2> QED BY <2>1, <2>2
<1>5. c = s
  <2> HIDE DEF c
  <2> QED BY <1>3, <1>4, SeqEqual
<1> QED BY <1>5 DEF h

LEMMA ConsFacts ==
  ASSUME NEW S, NEW s \in Seq(S), NEW x \in S
  PROVE  /\ <<x>> \o s # <<>>
         /\ Head(<<x>> \o s) = x
         /\ Tail(<<x>> \o s) = s
         /\ Len(<<x>> \o s) = Len(s) + 1
<1> DEFINE h == <<x>>
           c == h \o s
<1>1. h \in Seq(S) /\ Len(h) = 1 /\ h[1] = x
  OBVIOUS
<1> HIDE DEF h
<1>2. /\ c \in Seq(S) /\ Len(c) = 1 + Len(s) /\ Len(s) \in Nat
      /\ \A i \in 1..(1 + Len(s)) : c[i] = IF i <= 1 THEN h[i] ELSE s[i - 1]
  <2>1. /\ c \in Seq(S) /\ Len(c) = Len(h) + Len(s)
        /\ \A i \in 1..(Len(h) + Len(s)) : c[i] = IF i <= Len(h) THEN h[i] ELSE s[i - Len(h)]
    BY <1>1, ConcatProperties, Zenon
  <2>2. Len(s) \in Nat
    BY LenProperties
  <2> HIDE DEF c
  <2> QED BY <1>1, <2>1, <2>2
<1> HIDE DEF c
<1>3. c # <<>> /\ Head(c) = x
  <2>1. Len(c) # 0 /\ c[1] = x
    BY <1>1, <1>2
  <2>2. c # <<>>
    BY <2>1
  <2> QED BY <1>2, <2>1, <2>2, HeadTailProperties
<1>4. Tail(c) = s
  <2>1. /\ Tail(c) \in Seq(S) /\ Len(Tail(c)) = Len(s)
        /\ \A i \in 1..Len(s) : Tail(c)[i] = c[i + 1]
    BY <1>2, <1>3, HeadTailProperties
  <2>2. ASSUME NEW i \in 1..Len(s) PROVE Tail(c)[i] = s[i]
    <3>1. i + 1 \in 1..(1 + Len(s)) /\ ~(i + 1 <= 1) /\ (i + 1) - 1 = i
      BY <1>2
    <3> QED BY <1>2, <2>1, <3>1
  <2> QED BY <2>1, <2>2, SeqEqual
<1> QED BY <1>2, <1>3, <1>4 DEF c, h

LEMMA ConsAppend ==
  ASSUME NEW S, NEW s \in Seq(S), NEW x \in S, NEW y \in S
  PROVE  Append(<<x>> \o s, y) = <<x>> \o Append(s, y)
<1> DEFINE h == <<x>>
           v == <<y>>
           c == h \o s
<1>1. h \in Seq(S) /\ v \in Seq(S)
  OBVIOUS
<1>2. Append(s, y) = s \o v
  BY AppendIsConcat
<1> HIDE DEF h
<1>3. c \in Seq(S)
  BY <1>1, ConcatProperties
<1> HIDE DEF c
<1>4. Append(c, y) = c \o v
  BY <1>3, AppendIsConcat
<1> HIDE DEF v
<1>5. c \o v = h \o (s \o v)
  BY <1>1, ConcatAssociative DEF c
<1>6. Append(c, y) = h \o Append(s, y)
  BY <1>2, <1>4, <1>5
<1> QED BY <1>6 DEF c, h

LEMMA TailAppend ==
  ASSUME NEW S, NEW s \in Seq(S), s # <<>>, NEW x \in S
  PROVE  /\ Append(s, x) # <<>>
         /\ Tail(Append(s, x)) = Append(Tail(s), x)
<1>1. /\ Head(s) \in S /\ Tail(s) \in Seq(S) /\ s = <<Head(s)>> \o Tail(s)
  BY ConsHeadTail, HeadTailProperties
<1> DEFINE h == Head(s)
           u == Tail(s)
<1> HIDE DEF h, u
<1>2. h \in S /\ u \in Seq(S) /\ s = <<h>> \o u
  BY <1>1 DEF h, u
<1>3. Append(s, x) = <<h>> \o Append(u, x)
  <2>1. Append(<<h>> \o u, x) = <<h>> \o Append(u, x)
    BY <1>2, ConsAppend
  <2> QED BY <1>2, <2>1
<1>4. Append(u, x) \in Seq(S)
  BY <1>2, AppendProperties
<1>5. <<h>> \o Append(u, x) # <<>> /\ Tail(<<h>> \o Append(u, x)) = Append(u, x)
  BY <1>2, <1>4, ConsFacts, Zenon
<1> QED BY <1>3, <1>5 DEF u

(***************************************************************************)
(* The invariant.                                                          *)
(***************************************************************************)

LEMMA LimitsStep ==
  ASSUME TypeOK, TypeOK', Down, Limits, [Next]_vars PROVE Limits'
<1>1. accepted' <= takes'
  <2>1. \/ accepted' = txbuf /\ txbuf # 0 /\ takes' = takes + 1
        \/ accepted' = accepted /\ takes' = takes
    <3>1. CASE FirstPart \/ FirstPartFails
      BY <3>1 DEF FirstPart, FirstPartFails, Exchange, peer
    <3>2. CASE ~(FirstPart \/ FirstPartFails) /\ (EngineStep \/ EngineFault)
      BY <3>2 DEF EngineStep, EngineWake, StartTransfer, NothingToDo, TxnReady, SetUp,
                  SecondPart, Deliver, Discard, HeaderAcked, AckTimeout, PollReady,
                  EngineFault, TxnTimeout, SetUpFails, SecondPartFails, peer
    <3>3. CASE NcpStep \/ NcpSends \/ NcpFull
      BY <3>3 DEF NcpStep, RdyRises, RdyFalls, NcpHasRoom, NcpSends, NcpFull, peer
    <3>4. CASE UserStep \/ UserFault
      BY <3>4 DEF UserStep, Write, Call, LockCore, QueueMessage, SendTimeout, Signal,
                  NetifStep, ParserStep, NetifWake, StackRuns, NetifRead, NetifEmpty,
                  ReadAnswer, UserFault, SendNoMemory, NetifDrops, bus, peer
    <3>5. CASE Quiet \/ UNCHANGED vars
      BY <3>5 DEF Quiet, vars, peer
    <3> QED BY <3>1, <3>2, <3>3, <3>4, <3>5 DEF Next
  <2>2. txbuf # 0 => txbuf <= accepted + 1
    BY DEF Down, TypeOK
  <2>3. accepted <= takes
    BY DEF Limits
  <2>4. accepted \in Nat /\ takes \in Nat /\ txbuf \in Nat
    BY DEF TypeOK
  <2>5. CASE accepted' = txbuf /\ txbuf # 0 /\ takes' = takes + 1
    BY <2>2, <2>3, <2>4, <2>5
  <2> QED BY <2>1, <2>3, <2>5
<1>2. rxbuf' # NoMsg => epc' \in {"second", "deliver"}
  <2>1. CASE FirstPart
    BY <2>1 DEF FirstPart, Received
  <2>2. CASE SecondPart
    BY <2>2 DEF SecondPart, Received
  <2>3. CASE EngineFault \/ Deliver \/ Discard
    BY <2>3 DEF EngineFault, TxnTimeout, SetUpFails, FirstPartFails, SecondPartFails, GiveUp,
                Deliver, Discard
  <2>4. CASE \/ EngineWake \/ StartTransfer \/ NothingToDo \/ TxnReady \/ SetUp
             \/ HeaderAcked \/ AckTimeout \/ PollReady
    <3>1. UNCHANGED rxbuf /\ epc \notin {"second", "deliver"}
      BY <2>4 DEF EngineWake, StartTransfer, NothingToDo, TxnReady, SetUp,
                  HeaderAcked, AckTimeout, PollReady
    <3> QED BY <3>1 DEF Limits
  <2>5. CASE ~EngineStep /\ ~EngineFault
    <3>1. UNCHANGED <<rxbuf, epc>>
      <4>1. CASE NcpStep \/ NcpSends \/ NcpFull
        BY <4>1 DEF NcpStep, RdyRises, RdyFalls, NcpHasRoom, NcpSends, NcpFull, engine
      <4>2. CASE UserStep \/ UserFault
        BY <4>2 DEF UserStep, Write, Call, LockCore, QueueMessage, SendTimeout, Signal,
                    NetifStep, ParserStep, NetifWake, StackRuns, NetifRead, NetifEmpty,
                    ReadAnswer, UserFault, SendNoMemory, NetifDrops, bus, engine
      <4>3. CASE Quiet \/ UNCHANGED vars
        BY <4>3 DEF Quiet, vars, engine
      <4> QED BY <2>5, <4>1, <4>2, <4>3 DEF Next
    <3> QED BY <3>1 DEF Limits
  <2> QED BY <2>1, <2>2, <2>3, <2>4, <2>5 DEF EngineStep
<1>3. ASSUME NEW t \in Bound PROVE Len(rxq'[t]) <= RxqLen[t]
  <2>1. Len(rxq[t]) <= RxqLen[t] /\ rxq[t] \in Seq(Msg) /\ RxqLen[t] \in Nat
    BY <1>3, SpiAssumption DEF Limits, TypeOK
  <2>2. CASE Deliver
    <3>1. CASE rxbuf.type = t
      <4>1. rxq'[t] = Append(rxq[t], rxbuf) /\ Len(rxq[t]) < RxqLen[t]
        BY <1>3, <2>2, <3>1 DEF Deliver, TypeOK
      <4>2. Len(rxq'[t]) = Len(rxq[t]) + 1
        <5>1. rxbuf \in Msg
          BY <1>3, <3>1, NoMsgFacts DEF TypeOK, Types
        <5> QED BY <2>1, <4>1, <5>1, AppendProperties
      <4> QED BY <2>1, <4>1, <4>2, LenProperties
    <3>2. CASE rxbuf.type # t
      BY <1>3, <2>1, <2>2, <3>2 DEF Deliver, TypeOK
    <3> QED BY <3>1, <3>2
  <2>3. ASSUME NEW u \in Bound, rxq[u] # <<>>, rxq' = [rxq EXCEPT ![u] = Tail(@)]
        PROVE  Len(rxq'[t]) <= RxqLen[t]
    <3>1. CASE u = t
      <4>1. rxq'[t] = Tail(rxq[t])
        BY <1>3, <2>3, <3>1 DEF TypeOK
      <4>2. Len(Tail(rxq[t])) = Len(rxq[t]) - 1 /\ Len(rxq[t]) \in Nat
        BY <2>1, <2>3, <3>1, HeadTailProperties, LenProperties
      <4> QED BY <2>1, <4>1, <4>2
    <3>2. CASE u # t
      BY <1>3, <2>1, <2>3, <3>2 DEF TypeOK
    <3> QED BY <3>1, <3>2
  <2>4. CASE (\E u \in NetTypes : NetifRead(u) \/ NetifDrops(u)) \/ ReadAnswer
    BY <2>3, <2>4 DEF NetifRead, NetifDrops, ReadAnswer, Bound
  <2>5. CASE ~Deliver /\ ~(\E u \in NetTypes : NetifRead(u) \/ NetifDrops(u)) /\ ~ReadAnswer
    <3>1. UNCHANGED rxq
      <4>1. CASE EngineStep \/ EngineFault
        BY <2>5, <4>1
           DEF EngineStep, EngineWake, StartTransfer, NothingToDo, TxnReady, SetUp, FirstPart,
               SecondPart, Discard, HeaderAcked, AckTimeout, PollReady, EngineFault,
               TxnTimeout, SetUpFails, FirstPartFails, SecondPartFails, queues
      <4>2. CASE NcpStep \/ NcpSends \/ NcpFull
        BY <4>2 DEF NcpStep, RdyRises, RdyFalls, NcpHasRoom, NcpSends, NcpFull, queues
      <4>3. CASE UserStep \/ UserFault
        BY <2>5, <4>3
           DEF UserStep, Write, Call, LockCore, QueueMessage, SendTimeout, Signal,
               NetifStep, ParserStep, NetifWake, StackRuns, NetifEmpty, UserFault,
               SendNoMemory, bus, queues
      <4>4. CASE Quiet \/ UNCHANGED vars
        BY <4>4 DEF Quiet, vars, queues
      <4> QED BY <4>1, <4>2, <4>3, <4>4 DEF Next
    <3> QED BY <2>1, <3>1
  <2> QED BY <2>2, <2>4, <2>5
<1> QED BY <1>1, <1>2, <1>3 DEF Limits

(***************************************************************************)
(* The way to the NCP.                                                     *)
(***************************************************************************)

Lossless == TypeOK /\ Down /\ Credit /\ Limits /\ faults = 0

(* Without failures a message in hand has been taken only in the second    *)
(* part of a transfer that is about to free it.                            *)
LEMMA Unsent ==
  ASSUME Lossless
  PROVE  /\ txbuf = 0 => DownLine = txq
         /\ txbuf # 0 /\ ~(epc = "second" /\ ~rxStall /\ ~rxRestore)
              => accepted = txbuf - 1 /\ DownLine = <<txbuf>> \o txq
<1>1. accepted \in Nat /\ takes \in Nat /\ txbuf \in Nat /\ accepted <= takes
  BY DEF Lossless, TypeOK, Limits
<1>2. CASE txbuf = 0
  BY <1>1, <1>2 DEF DownLine
<1>3. CASE txbuf # 0 /\ ~(epc = "second" /\ ~rxStall /\ ~rxRestore)
  <2>1. accepted = txbuf => takes < accepted + 0
    BY <1>3 DEF Lossless, Credit
  <2>2. accepted \in {txbuf - 1, txbuf}
    BY <1>3 DEF Lossless, Down
  <2>3. accepted = txbuf - 1
    BY <1>1, <2>1, <2>2
  <2> QED BY <1>1, <1>3, <2>3 DEF DownLine
<1> QED BY <1>2, <1>3

(* spi_get_txbuf moves a message within the channel. *)
LEMMA DownGet ==
  ASSUME Lossless, epc = "loop", GetTxbuf, accepted' = accepted
  PROVE  DownLine' = DownLine
<1>1. CASE txbuf = 0 /\ txq # <<>>
  <2>1. txbuf' = Head(txq) /\ txq' = Tail(txq) /\ txq \in Seq(Nat \ {0})
    BY <1>1 DEF GetTxbuf, Lossless, TypeOK
  <2>2. txbuf' \in Nat \ {0}
    BY <1>1, <2>1, HeadTailProperties
  <2>3. txbuf' - 1 = accepted
    <3>1. accepted \in {txbuf' - 1, txbuf'} /\ accepted # txbuf'
      BY <1>1, <2>2, GetTxbufFacts DEF Lossless
    <3> QED BY <3>1
  <2>4. txbuf' > accepted'
    BY <2>2, <2>3
  <2>5. <<Head(txq)>> \o Tail(txq) = txq
    BY <1>1, <2>1, ConsHeadTail
  <2>6. DownLine = txq
    BY <1>1, Unsent
  <2> QED BY <2>1, <2>4, <2>5, <2>6 DEF DownLine
<1>2. CASE ~(txbuf = 0 /\ txq # <<>>)
  <2>1. UNCHANGED <<txbuf, txq>>
    BY <1>2 DEF GetTxbuf
  <2> QED BY <2>1 DEF DownLine
<1> QED BY <1>1, <1>2

LEMMA DownExchange ==
  ASSUME Lossless, FirstPart
  PROVE  Taken \/ UNCHANGED <<DownLine, accepted, takes>>
<1>1. /\ Exchange /\ epc = "first"
      /\ rxStall' = full /\ rxRestore' = (rxStall /\ ~full)
      /\ UNCHANGED txq
  BY DEF FirstPart, queues
<1>2. CASE txbuf # 0 /\ ~rxStall /\ ~full
  <2>1. accepted' = txbuf /\ takes' = takes + 1
    BY <1>1, <1>2 DEF Exchange
  <2>2. DownLine = <<txbuf>> \o txq
    BY <1>1, <1>2, Unsent
  <2>3. txbuf' \in {0, txbuf} /\ txbuf \in Nat \ {0} /\ txq \in Seq(Nat \ {0})
    BY <1>2 DEF FirstPart, Received, Lossless, TypeOK
  <2>4. DownLine' = txq
    <3>1. ~(txbuf' > accepted')
      BY <2>1, <2>3
    <3> QED BY <1>1, <3>1 DEF DownLine
  <2>5. DownLine # <<>> /\ Head(DownLine) = txbuf /\ Tail(DownLine) = txq
    BY <2>2, <2>3, ConsFacts
  <2> QED BY <2>1, <2>4, <2>5 DEF Taken
<1>3. CASE ~(txbuf # 0 /\ ~rxStall /\ ~full)
  <2>1. UNCHANGED <<accepted, takes>>
    BY <1>1, <1>3 DEF Exchange
  <2>2. txbuf' = txbuf
    <3>1. CASE txbuf = 0
      BY <3>1 DEF FirstPart, Received
    <3>2. CASE txbuf # 0
      <4>1. rxStall' \/ rxRestore'
        BY <1>1, <1>3, <3>2
      <4> QED BY <4>1 DEF FirstPart, Received
    <3> QED BY <3>1, <3>2
  <2> QED BY <1>1, <2>1, <2>2 DEF DownLine
<1> QED BY <1>2, <1>3

LEMMA DownFree ==
  ASSUME Lossless, SecondPart
  PROVE  UNCHANGED <<DownLine, accepted, takes>>
<1>1. /\ epc = "second" /\ UNCHANGED <<txq, accepted, takes>>
      /\ txbuf' = IF ~rxStall /\ ~rxRestore THEN 0 ELSE txbuf
  BY DEF SecondPart, Received, queues, peer
<1>2. CASE txbuf' # txbuf
  <2>1. txbuf' = 0 /\ txbuf # 0 /\ accepted = txbuf /\ accepted \in Nat
    BY <1>1, <1>2 DEF Lossless, Down, TypeOK
  <2>2. ~(txbuf > accepted) /\ ~(txbuf' > accepted')
    BY <1>1, <2>1
  <2> QED BY <1>1, <2>2 DEF DownLine
<1>3. CASE txbuf' = txbuf
  BY <1>1, <1>3 DEF DownLine
<1> QED BY <1>2, <1>3

LEMMA DownEnters ==
  ASSUME Lossless, NEW p, QueueMessage(p)
  PROVE  Enters
<1>1. /\ Len(txq) < TxqLen /\ txq' = Append(txq, queued + 1) /\ queued' = queued + 1
      /\ UNCHANGED <<txbuf, accepted>>
  BY DEF QueueMessage, engine, peer
<1>2. /\ txq \in Seq(Nat \ {0}) /\ Len(txq) \in Nat /\ queued + 1 \in Nat \ {0}
      /\ TxqLen \in Nat /\ txbuf \in Nat /\ accepted \in Nat
  BY LenProperties, SpiAssumption DEF Lossless, TypeOK
<1>3. CASE txbuf > accepted
  <2>1. txbuf \in Nat \ {0} /\ DownLine = <<txbuf>> \o txq
    BY <1>2, <1>3 DEF DownLine
  <2>2. DownLine' = <<txbuf>> \o txq'
    BY <1>1, <1>3 DEF DownLine
  <2>3. Len(<<txbuf>> \o txq) = Len(txq) + 1
    BY <1>2, <2>1, ConsFacts
  <2>4. Append(<<txbuf>> \o txq, queued + 1) = <<txbuf>> \o Append(txq, queued + 1)
    BY <1>2, <2>1, ConsAppend
  <2> QED BY <1>1, <1>2, <2>1, <2>2, <2>3, <2>4 DEF Enters
<1>4. CASE ~(txbuf > accepted)
  BY <1>1, <1>2, <1>4 DEF DownLine, Enters
<1> QED BY <1>3, <1>4

(***************************************************************************)
(* The way from the NCP.                                                   *)
(***************************************************************************)

LEMMA UpGiven ==
  ASSUME Lossless, FirstPart
  PROVE  Given \/ UNCHANGED UpLine
<1>1. /\ epc = "first" /\ UNCHANGED rxq
      /\ rxbuf' = IF outbox = <<>> THEN NoMsg ELSE Head(outbox)
  BY DEF FirstPart, queues
<1>2. rxbuf = NoMsg
  BY <1>1 DEF Lossless, Limits
<1>3. UpLine = rxq
  <2>1. \A t \in Bound : rxbuf.type # t
    BY <1>2, NoMsgFacts DEF Types
  <2> QED BY <2>1 DEF UpLine, Lossless, TypeOK
<1>4. CASE rxbuf' = NoMsg
  BY <1>1, <1>2, <1>4 DEF UpLine
<1>5. CASE rxbuf' # NoMsg
  <2>1. rxbuf' \in Msg
    BY <1>1, <1>5, HeadTailProperties DEF Lossless, TypeOK
  <2> PICK m \in Msg : m = rxbuf'
    BY <2>1
  <2>2. CASE m.type \in Bound
    <3> PICK k \in Bound : k = m.type
      BY <2>2
    <3>1. UpLine' = [UpLine EXCEPT ![k] = Append(@, m)]
      BY <1>1, <1>3 DEF UpLine, Lossless, TypeOK
    <3>2. Len(UpLine[k]) < Depth[k]
      <4>1. /\ Len(rxq[k]) <= RxqLen[k] /\ RxqLen[k] \in Nat /\ Len(rxq[k]) \in Nat
            /\ Depth[k] = RxqLen[k] + 1
        BY LenProperties, SpiAssumption DEF Lossless, Limits, TypeOK, Depth
      <4> QED BY <1>3, <4>1
    <3> QED BY <3>1, <3>2 DEF Given
  <2>3. CASE m.type \notin Bound
    <3>1. UpLine' = rxq
      BY <1>1, <2>3 DEF UpLine, Lossless, TypeOK
    <3> QED BY <1>3, <3>1
  <2> QED BY <2>2, <2>3
<1> QED BY <1>4, <1>5

(* xQueueSend moves a message within the channel. *)
LEMMA UpDelivered ==
  ASSUME Lossless, Deliver \/ Discard
  PROVE  UNCHANGED UpLine
<1>1. rxbuf' = NoMsg /\ \A t \in Bound : rxbuf'.type # t
  BY NoMsgFacts DEF Deliver, Discard, Types
<1>2. CASE Deliver
  <2>1. \A t \in Bound : rxq'[t] = IF rxbuf.type = t THEN Append(rxq[t], rxbuf) ELSE rxq[t]
    BY <1>2 DEF Deliver, Lossless, TypeOK
  <2> QED BY <1>1, <2>1 DEF UpLine
<1>3. CASE Discard
  BY <1>1, <1>3 DEF Discard, UpLine, queues
<1> QED BY <1>2, <1>3

LEMMA UpLeaves ==
  ASSUME Lossless, NEW u \in Bound, rxq[u] # <<>>,
         rxq' = [rxq EXCEPT ![u] = Tail(@)], UNCHANGED rxbuf
  PROVE  Leaves
<1>1. rxq[u] \in Seq(Msg) /\ rxq'[u] = Tail(rxq[u])
  BY DEF Lossless, TypeOK
<1>2. UpLine[u] # <<>> /\ UpLine'[u] = Tail(UpLine[u])
  <2>1. CASE rxbuf.type = u
    <3>1. rxbuf \in Msg
      BY <2>1, NoMsgFacts DEF Lossless, TypeOK, Types
    <3>2. Append(rxq[u], rxbuf) # <<>> /\ Tail(Append(rxq[u], rxbuf)) = Append(Tail(rxq[u]), rxbuf)
      BY <1>1, <3>1, TailAppend
    <3> QED BY <1>1, <2>1, <3>2 DEF UpLine
  <2>2. CASE rxbuf.type # u
    BY <1>1, <2>2 DEF UpLine
  <2> QED BY <2>1, <2>2
<1>3. \A t \in Bound : t # u => UpLine'[t] = UpLine[t]
  BY DEF UpLine, Lossless, TypeOK
<1>4. UpLine' = [UpLine EXCEPT ![u] = Tail(@)]
  <2>1. UpLine = [t \in Bound |-> UpLine[t]] /\ UpLine' = [t \in Bound |-> UpLine'[t]]
    BY DEF UpLine
  <2> HIDE DEF UpLine
  <2> QED BY <1>2, <1>3, <2>1
<1> QED BY <1>2, <1>4 DEF Leaves

(***************************************************************************)
(* The refinement.                                                         *)
(***************************************************************************)

LEMMA ChannelSame ==
  ASSUME UNCHANGED <<txq, txbuf, accepted, queued, takes, rxq, rxbuf>>
  PROVE  UNCHANGED Channel!ChannelVars
BY DEF Channel!ChannelVars

LEMMA ChannelEngine ==
  ASSUME Lossless, EngineStep
  PROVE  Channel!ChannelNext \/ UNCHANGED Channel!ChannelVars
<1>1. UNCHANGED queued
  BY DEF EngineStep, EngineWake, StartTransfer, NothingToDo, TxnReady, SetUp, FirstPart,
         SecondPart, Deliver, Discard, HeaderAcked, AckTimeout, PollReady, users
<1>2. CASE StartTransfer \/ NothingToDo
  <2>1. DownLine' = DownLine /\ UNCHANGED <<accepted, takes>>
    BY <1>2, DownGet DEF StartTransfer, NothingToDo, peer
  <2>2. UNCHANGED UpLine
    BY <1>2 DEF StartTransfer, NothingToDo, UpLine
  <2> QED BY <1>1, <2>1, <2>2 DEF Channel!ChannelVars, DownLine, UpLine
<1>3. CASE FirstPart
  <2>1. CASE Taken /\ Given
    <3>1. Channel!Swap
      BY <1>1, <2>1 DEF Channel!Swap, Taken, Given, Depth, DownLine, UpLine
    <3> QED BY <3>1 DEF Channel!ChannelNext
  <2>2. CASE Taken /\ UNCHANGED UpLine
    <3>1. Channel!Take
      BY <1>1, <2>2 DEF Channel!Take, Taken, DownLine, UpLine
    <3> QED BY <3>1 DEF Channel!ChannelNext
  <2>3. CASE UNCHANGED <<DownLine, accepted, takes>> /\ Given
    <3>1. Channel!Give
      BY <1>1, <2>3 DEF Channel!Give, Given, Depth, DownLine, UpLine
    <3> QED BY <3>1 DEF Channel!ChannelNext
  <2>4. CASE UNCHANGED <<DownLine, accepted, takes, UpLine>>
    BY <1>1, <2>4 DEF Channel!ChannelVars, DownLine, UpLine
  <2> QED BY <1>3, <2>1, <2>2, <2>3, <2>4, DownExchange, UpGiven
<1>4. CASE SecondPart
  <2>1. UNCHANGED UpLine
    BY <1>4 DEF SecondPart, UpLine, queues
  <2> QED BY <1>1, <1>4, <2>1, DownFree DEF Channel!ChannelVars, DownLine, UpLine
<1>5. CASE Deliver \/ Discard
  <2>1. UNCHANGED <<DownLine, accepted, takes>>
    BY <1>5 DEF Deliver, Discard, DownLine, queues, peer
  <2> QED BY <1>1, <1>5, <2>1, UpDelivered DEF Channel!ChannelVars, DownLine, UpLine
<1>6. CASE EngineWake \/ TxnReady \/ SetUp \/ HeaderAcked \/ AckTimeout \/ PollReady
  BY <1>1, <1>6, ChannelSame
     DEF EngineWake, TxnReady, SetUp, HeaderAcked, AckTimeout, PollReady, queues, peer
<1> QED BY <1>2, <1>3, <1>4, <1>5, <1>6 DEF EngineStep

LEMMA ChannelUser ==
  ASSUME Lossless, UserStep
  PROVE  Channel!ChannelNext \/ UNCHANGED Channel!ChannelVars
<1>1. CASE \E p \in Threads : QueueMessage(p)
  <2>1. PICK p \in Threads : QueueMessage(p)
    BY <1>1
  <2>2. Enters /\ UNCHANGED <<accepted, takes, UpLine>>
    BY <2>1, DownEnters DEF QueueMessage, engine, peer, UpLine
  <2>3. Channel!Send
    BY <2>2 DEF Channel!Send, Enters, DownLine, UpLine
  <2> QED BY <2>3 DEF Channel!ChannelNext
<1>2. CASE (\E t \in NetTypes : NetifRead(t)) \/ ReadAnswer
  <2>1. PICK u \in Bound : rxq[u] # <<>> /\ rxq' = [rxq EXCEPT ![u] = Tail(@)]
    BY <1>2 DEF NetifRead, ReadAnswer, Bound
  <2>2. UNCHANGED <<txq, txbuf, accepted, queued, takes, rxbuf>>
    BY <1>2 DEF NetifRead, ReadAnswer, engine, peer
  <2>3. Leaves
    BY <2>1, <2>2, UpLeaves
  <2>4. Channel!Read
    BY <2>2, <2>3 DEF Channel!Read, Leaves, DownLine, UpLine
  <2> QED BY <2>4 DEF Channel!ChannelNext
<1>3. CASE /\ ~(\E p \in Threads : QueueMessage(p))
           /\ ~(\E t \in NetTypes : NetifRead(t)) /\ ~ReadAnswer
  <2>1. UNCHANGED <<txq, txbuf, accepted, queued, takes, rxq, rxbuf>>
    BY <1>3 DEF UserStep, Write, Call, LockCore, SendTimeout, Signal, NetifStep, ParserStep,
                NetifWake, StackRuns, NetifEmpty, bus, queues, engine, peer
  <2> QED BY <2>1, ChannelSame
<1> QED BY <1>1, <1>2, <1>3

LEMMA ChannelStep ==
  ASSUME Lossless, faults' = 0, [Next]_vars
  PROVE  [Channel!ChannelNext]_(Channel!ChannelVars)
<1>1. CASE NcpStep \/ NcpSends \/ NcpFull
  BY <1>1, ChannelSame
     DEF NcpStep, RdyRises, RdyFalls, NcpHasRoom, NcpSends, NcpFull, queues, engine, peer, users
<1>2. CASE Quiet \/ UNCHANGED vars
  BY <1>2, ChannelSame DEF Quiet, vars, queues, engine, peer, users
<1>3. ~EngineFault /\ ~UserFault
  BY DEF Lossless, EngineFault, TxnTimeout, SetUpFails, FirstPartFails, SecondPartFails, GiveUp,
         Fault, UserFault, SendNoMemory, NetifDrops, Failure
<1> QED BY <1>1, <1>2, <1>3, ChannelEngine, ChannelUser DEF Next

(* While nothing fails, the engine, its queues and its readers are two     *)
(* lossless FIFOs: whatever enters is taken once, in order, and whatever   *)
(* comes is read once, in order, stalls of the NCP included.               *)
THEOREM ChannelImplemented ==
  ASSUME MaxFaults = 0
  PROVE  Spec => ImplementsBusChannel
<1>1. Init => Limits
  <2> SUFFICES ASSUME Init PROVE Limits
    OBVIOUS
  <2>1. accepted = 0 /\ takes = 0 /\ rxbuf = NoMsg
    BY DEF Init
  <2>2. \A t \in Bound : Len(rxq[t]) = 0 /\ RxqLen[t] \in Nat
    BY EmptySeq, SpiAssumption DEF Init
  <2> QED BY <2>1, <2>2 DEF Limits
<1>2. IInv /\ IInv' /\ Limits /\ [Next]_vars => Limits'
  BY LimitsStep DEF IInv
<1>3. IInv /\ Limits => Lossless
  BY DEF IInv, Lossless, TypeOK
<1>4. Lossless => faults = 0
  BY DEF Lossless
<1>5. Init => Channel!ChannelInit
  <2> SUFFICES ASSUME Init PROVE Channel!ChannelInit
    OBVIOUS
  <2>1. txbuf = 0 /\ accepted = 0 /\ txq = <<>> /\ queued = 0 /\ takes = 0
    BY DEF Init
  <2>2. \A t \in Bound : rxbuf.type # t /\ rxq[t] = <<>>
    BY NoMsgFacts DEF Init, Types
  <2> QED BY <2>1, <2>2 DEF Channel!ChannelInit
<1>6. Lossless /\ Lossless' /\ [Next]_vars => [Channel!ChannelNext]_(Channel!ChannelVars)
  BY <1>4, ChannelStep DEF Lossless
<1> QED
  BY <1>1, <1>2, <1>3, <1>5, <1>6, InductiveInvariant, PTL
     DEF Spec, ImplementsBusChannel, Channel!ChannelSpec
=============================================================================
