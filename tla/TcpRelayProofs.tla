--------------------------- MODULE TcpRelayProofs ---------------------------
(***************************************************************************)
(* What the handlers of one relayed connection preserve, for every length  *)
(* of IV, header and buffer and for every framing.                         *)
(***************************************************************************)
EXTENDS TcpRelay, SequenceTheorems, TLAPS

-----------------------------------------------------------------------------
(* Streams.                                                                *)

\* A slice is a sequence of n positions, the i-th of which is b + i.
LEMMA SliceFacts ==
  ASSUME NEW b \in Nat, NEW n \in Nat
  PROVE  /\ Slice(b, n) \in Seq(Nat)
         /\ Len(Slice(b, n)) = n
         /\ \A i \in 1..n : Slice(b, n)[i] = b + i
<1>1. Slice(b, n) \in [1..n -> Nat]
  BY DEF Slice
<1>2. Slice(b, n) \in Seq(Nat) /\ Len(Slice(b, n)) = n
  BY <1>1
<1>. QED
  BY <1>2 DEF Slice

\* A stream that is in order stays so when the positions that follow are appended.
LEMMA ExtendInOrder ==
  ASSUME NEW q \in Seq(Nat), NEW h \in Nat, NEW n \in Nat,
         \A i \in DOMAIN q : q[i] = h + i
  PROVE  /\ q \o Slice(h + Len(q), n) \in Seq(Nat)
         /\ Len(q \o Slice(h + Len(q), n)) = Len(q) + n
         /\ \A i \in DOMAIN (q \o Slice(h + Len(q), n)) :
              (q \o Slice(h + Len(q), n))[i] = h + i
<1> DEFINE t == Slice(h + Len(q), n)
<1>1. t \in Seq(Nat) /\ Len(t) = n /\ \A i \in 1..n : t[i] = h + Len(q) + i
  <2>1. h + Len(q) \in Nat
    OBVIOUS
  <2>. QED
    BY <2>1, SliceFacts
<1> HIDE DEF t
<1>2. /\ q \o t \in Seq(Nat) /\ Len(q \o t) = Len(q) + n
      /\ DOMAIN (q \o t) = 1..(Len(q) + n)
      /\ \A i \in 1..(Len(q) + n) :
           (q \o t)[i] = IF i <= Len(q) THEN q[i] ELSE t[i - Len(q)]
  BY <1>1, ConcatProperties, LenProperties
<1>3. Len(q) \in Nat /\ DOMAIN q = 1..Len(q)
  BY LenProperties
<1>4. ASSUME NEW i \in 1..(Len(q) + n) PROVE (q \o t)[i] = h + i
  <2>0. i \in Nat /\ 1 <= i /\ i <= Len(q) + n
    BY <1>3, <1>4
  <2>1. CASE i <= Len(q)
    <3>1. i \in DOMAIN q
      BY <1>3, <2>0, <2>1
    <3>. QED
      BY <1>2, <1>4, <2>1, <3>1
  <2>2. CASE i > Len(q)
    <3>1. i - Len(q) \in 1..n
      BY <1>3, <2>0, <2>2
    <3>2. (q \o t)[i] = h + Len(q) + (i - Len(q))
      BY <1>1, <1>2, <1>3, <1>4, <2>0, <2>2, <3>1
    <3>. QED
      BY <1>3, <2>0, <3>2
  <2>3. i <= Len(q) \/ i > Len(q)
    BY <1>3, <2>0
  <2>. QED
    BY <2>1, <2>2, <2>3
<1>5. QED
  BY <1>2, <1>4 DEF t

\* Appending no bytes changes nothing.
LEMMA EmptySlice ==
  ASSUME NEW q \in Seq(Nat), NEW b \in Nat
  PROVE  q \o Slice(b, 0) = q
<1>1. Slice(b, 0) \in Seq(Nat) /\ Len(Slice(b, 0)) = 0
  BY SliceFacts
<1>2. Slice(b, 0) = <<>>
  BY <1>1, EmptySeq
<1>. QED
  BY <1>2, ConcatEmptySeq

-----------------------------------------------------------------------------
(* Buffers.                                                                *)

\* What is left of a buffer once its first s bytes are out.
LEMMA SentFacts ==
  ASSUME NEW buf \in Buffer, NEW s \in 0..buf.len
  PROVE  /\ Sent(buf, s) \in Buffer
         /\ Sent(buf, s).base = buf.base
         /\ Sent(buf, s).idx = buf.idx + s
         /\ Sent(buf, s).len = buf.len - s
<1> DEFINE b1 == [buf EXCEPT !.idx = @ + s]
           b2 == [b1 EXCEPT !.len = @ - s]
<1>1. /\ buf.base \in Nat /\ buf.idx \in Nat /\ buf.len \in Nat
      /\ s \in Nat /\ buf.len - s \in Nat
  BY DEF Buffer
<1>2. b1 \in Buffer /\ b1.base = buf.base /\ b1.idx = buf.idx + s /\ b1.len = buf.len
  BY <1>1 DEF Buffer
<1>3. Sent(buf, s) = [b1 EXCEPT !.len = buf.len - s]
  BY <1>1 DEF Sent
<1> HIDE DEF b1, b2
<1>. QED
  BY <1>1, <1>2, <1>3 DEF Buffer

-----------------------------------------------------------------------------
(* What a delivery does to the two output streams.                         *)

\* Sending the next n payload bytes extends the destination's stream in order.
LEMMA UpGrows ==
  ASSUME upOut \in Seq(Nat), UpInOrder, NEW n \in Nat,
         upOut' = upOut \o Slice(Header + Len(upOut), n)
  PROVE  upOut' \in Seq(Nat) /\ Len(upOut') = Len(upOut) + n /\ UpInOrder'
<1>1. Header \in Nat
  BY LengthsAssumption DEF Header
<1>. QED
  BY <1>1, ExtendInOrder DEF UpInOrder

\* Sending the next n bytes back extends the client's stream in order.
LEMMA DnGrows ==
  ASSUME dnOut \in Seq(Nat), DnInOrder, NEW n \in Nat,
         dnOut' = dnOut \o Slice(Len(dnOut), n)
  PROVE  dnOut' \in Seq(Nat) /\ Len(dnOut') = Len(dnOut) + n /\ DnInOrder'
<1> DEFINE h == 0
<1>1. h \in Nat /\ Len(dnOut) \in Nat /\ DOMAIN dnOut = 1..Len(dnOut)
  BY LenProperties
<1>2. \A i \in Nat : h + i = i
  OBVIOUS
<1> HIDE DEF h
<1>3. \A i \in DOMAIN dnOut : dnOut[i] = h + i
  <2>1. \A i \in DOMAIN dnOut : i \in Nat
    BY <1>1
  <2>2. \A i \in DOMAIN dnOut : dnOut[i] = i
    BY DEF DnInOrder
  <2> QED BY <1>2, <2>1, <2>2
<1>4. dnOut' = dnOut \o Slice(h + Len(dnOut), n)
  <2>1. h + Len(dnOut) = Len(dnOut)
    BY <1>1, <1>2
  <2> QED BY <2>1
<1> DEFINE r == dnOut \o Slice(h + Len(dnOut), n)
<1>5. r \in Seq(Nat) /\ Len(r) = Len(dnOut) + n /\ \A i \in DOMAIN r : r[i] = h + i
  BY <1>1, <1>3, ExtendInOrder
<1>6. DOMAIN r = 1..Len(r)
  BY <1>5, LenProperties
<1> HIDE DEF r
<1>7. \A i \in DOMAIN r : i \in Nat
  BY <1>1, <1>5, <1>6
<1>8. \A i \in DOMAIN r : r[i] = i
  BY <1>2, <1>5, <1>7
<1>9. dnOut' = r
  BY <1>4 DEF r
<1>. QED
  BY <1>5, <1>8, <1>9 DEF DnInOrder

-----------------------------------------------------------------------------
(* Every way of closing keeps the invariant: what is left has no watcher,  *)
(* no remote and no query.                                                 *)

\* Freeing the server, and the remote when there is one, keeps the invariant.
LEMMA ClosingKeeps ==
  ASSUME IndInv, NEW w \in Reasons,
         CloseBoth(w) \/ (CloseServer(w) /\ ~remote),
         UNCHANGED <<session, peers, net, reading, stage, connected, fastOpen, buffers, output>>,
         w = "remote_eof" => "rrecv" \in active /\ rRead = rSent,
         w = "client_eof" => "srecv" \in active
  PROVE  IndInv'
<1>. USE DEF session, peers, reading, buffers, output
<1>1. conn' = "closed" /\ why' = w /\ query' = FALSE
  BY DEF CloseBoth, CloseServer
<1>2. active' = {} /\ remote' = FALSE
  <2>1. CASE CloseBoth(w)
    BY <2>1 DEF IndInv, TypeOK, CloseBoth
  <2>2. CASE CloseServer(w) /\ ~remote
    <3>1. remote' = FALSE
      BY <2>2 DEF IndInv, TypeOK, CloseServer
    <3>2. active \subseteq ServerWatchers
      BY <2>2 DEF IndInv, TypeOK, Shape, NoOrphans, ServerWatchers, Stages
    <3>. QED
      BY <2>2, <3>1, <3>2 DEF CloseServer
  <2>. QED
    BY <2>1, <2>2
<1>3. TypeOK'
  BY <1>1, <1>2 DEF IndInv, TypeOK
<1>4. Shape' /\ NoOrphans'
  BY <1>1, <1>2 DEF IndInv, Shape, NoOrphans
<1>5. UpAccount' /\ DnAccount' /\ DirectionsAlternate' /\ NothingOverwritten'
  BY <1>1, <1>2 DEF UpAccount, DnAccount, DirectionsAlternate, NothingOverwritten
<1>6. UpInOrder' /\ DnInOrder'
  BY DEF IndInv, UpInOrder, DnInOrder
<1>7. GracefulEof'
  BY <1>1 DEF IndInv, GracefulEof, NothingOverwritten, Enciphered
<1>. QED
  BY <1>3, <1>4, <1>5, <1>6, <1>7 DEF IndInv

-----------------------------------------------------------------------------
(* A fresh connection, and the steps of the two programs and the network.  *)

\* A connection fresh from accept_cb satisfies the invariant.
LEMMA InitKeeps == SafeClients /\ Init => IndInv
<1>. SUFFICES ASSUME SafeClients, Init PROVE IndInv
  OBVIOUS
<1>1. PICK c \in Clients : /\ kind = c.kind /\ fastOpen = c.fast
                           /\ frames = {f \in c.frames : f > IvLen}
  BY DEF Init
<1>2. /\ kind \in Kinds /\ fastOpen \in BOOLEAN /\ (kind = "ip" => ~fastOpen)
      /\ frames \subseteq (IvLen + 1)..UpTotal
  BY <1>1, LengthsAssumption, ClientsAssumption DEF SafeClients, Positions
<1>3. <<>> \in Seq(Nat) /\ Len(<<>>) = 0 /\ DOMAIN <<>> = {}
  BY EmptySeq
<1>4. TypeOK
  <2>1. sbuf \in Buffer /\ rbuf \in Buffer /\ sbuf.len = 0
    BY DEF Init, Buffer, Buf
  <2>2. /\ cSent \in 0..UpTotal /\ rSent \in 0..DnTotal /\ cRead \in 0..cSent
        /\ dec \in Nat /\ dec = IvLen /\ rRead \in 0..rSent /\ hlen \in Nat
    BY LengthsAssumption DEF Init
  <2>3. /\ active \subseteq ServerWatchers \cup RemoteWatchers
        /\ why \in Reasons /\ stage \in Stages
    BY DEF Init, Reasons, Stages, ServerWatchers, RemoteWatchers
  <2>4. upOut \in Seq(Nat) /\ dnOut \in Seq(Nat)
    BY <1>3 DEF Init
  <2>5. /\ cEof \in BOOLEAN /\ rEof \in BOOLEAN /\ remote \in BOOLEAN /\ query \in BOOLEAN
        /\ connected \in BOOLEAN /\ conn \in {"open", "closed"}
        /\ net \in {"none", "connecting", "up", "failed"}
    BY DEF Init
  <2>6. sbuf.len <= IvLen + 1 /\ dec >= IvLen
    BY <2>1, <2>2, LengthsAssumption
  <2>. QED
    BY <1>2, <2>1, <2>2, <2>3, <2>4, <2>5, <2>6 DEF TypeOK
<1>5. Shape /\ DirectionsAlternate /\ NothingOverwritten /\ NoOrphans /\ GracefulEof
  BY <1>2 DEF Init, Shape, DirectionsAlternate, NothingOverwritten, NoOrphans, GracefulEof
<1>6. UpAccount /\ DnAccount
  BY DEF Init, UpAccount, DnAccount
<1>7. UpInOrder /\ DnInOrder
  BY <1>3 DEF Init, UpInOrder, DnInOrder
<1>. QED
  BY <1>4, <1>5, <1>6, <1>7 DEF IndInv

\* Their steps move only the ends of the streams and the state of the socket.
Environment ==
  \/ \E n \in 1..UpTotal : ClientWrites(n)
  \/ ClientCloses
  \/ \E n \in 1..DnTotal : RemoteWrites(n)
  \/ RemoteCloses
  \/ NetConnects

\* What the two programs and the network do by themselves disturbs nothing.
LEMMA EnvironmentKeeps == IndInv /\ Environment => IndInv'
<1>. SUFFICES ASSUME IndInv, Environment PROVE IndInv'
  OBVIOUS
<1>. USE DEF session, peers, reading, lifecycle, buffers, output
<1>1. /\ UNCHANGED <<session, reading, lifecycle, stage, connected, fastOpen, buffers, output>>
      /\ conn = "open"
      /\ cSent' \in cSent..UpTotal /\ cEof' \in BOOLEAN
      /\ rSent' \in rSent..DnTotal /\ rEof' \in BOOLEAN
      /\ net = "none" => net' = "none" /\ rSent' = rSent
      /\ net' \in {"none", "connecting", "up", "failed"} /\ (net' = "none" => net = "none")
  <2>1. ASSUME NEW n \in 1..UpTotal, ClientWrites(n) PROVE <1>1!:
    BY <2>1, LengthsAssumption DEF ClientWrites, IndInv, TypeOK
  <2>2. ASSUME ClientCloses PROVE <1>1!:
    BY <2>2, LengthsAssumption DEF ClientCloses, IndInv, TypeOK
  <2>3. ASSUME NEW n \in 1..DnTotal, RemoteWrites(n) PROVE <1>1!:
    BY <2>3, LengthsAssumption DEF RemoteWrites, IndInv, TypeOK
  <2>4. ASSUME RemoteCloses PROVE <1>1!:
    BY <2>4, LengthsAssumption DEF RemoteCloses, IndInv, TypeOK
  <2>5. ASSUME NetConnects PROVE <1>1!:
    BY <2>5, LengthsAssumption DEF NetConnects, IndInv, TypeOK
  <2>. QED
    BY <2>1, <2>2, <2>3, <2>4, <2>5 DEF Environment
<1>2. TypeOK'
  <2>1. /\ cSent' \in 0..UpTotal /\ rSent' \in 0..DnTotal
        /\ cRead' \in 0..cSent' /\ rRead' \in 0..rSent'
        /\ dec' \in Nat /\ dec' >= IvLen /\ (dec' = IvLen \/ dec' <= cSent')
    <3>1. /\ UpTotal \in Nat /\ DnTotal \in Nat /\ IvLen \in Nat
          /\ cSent \in 0..UpTotal /\ rSent \in 0..DnTotal /\ cRead \in 0..cSent
          /\ dec \in Nat /\ dec >= IvLen /\ (dec = IvLen \/ dec <= cSent)
          /\ rRead \in 0..rSent
      BY LengthsAssumption DEF IndInv, TypeOK
    <3>2. /\ cSent' \in cSent..UpTotal /\ rSent' \in rSent..DnTotal
          /\ cRead' = cRead /\ dec' = dec /\ rRead' = rRead
      BY <1>1
    <3>3. cSent' \in 0..UpTotal
      BY <3>1, <3>2
    <3>4. rSent' \in 0..DnTotal
      BY <3>1, <3>2
    <3>5. cRead' \in 0..cSent'
      BY <3>1, <3>2
    <3>6. dec' \in Nat /\ dec' >= IvLen /\ (dec' = IvLen \/ dec' <= cSent')
      BY <3>1, <3>2
    <3>7. rRead' \in 0..rSent'
      BY <3>1, <3>2
    <3>. QED
      BY <3>3, <3>4, <3>5, <3>6, <3>7
  <2>. QED
    BY <1>1, <2>1 DEF IndInv, TypeOK
<1>3. Shape' /\ NoOrphans' /\ DirectionsAlternate'
  BY <1>1 DEF IndInv, Shape, NoOrphans, DirectionsAlternate
<1>4. UpAccount' /\ NothingOverwritten' /\ UpInOrder' /\ DnInOrder'
  BY <1>1 DEF IndInv, UpAccount, NothingOverwritten, UpInOrder, DnInOrder
<1>5. DnAccount' /\ GracefulEof'
  BY <1>1 DEF IndInv, DnAccount, GracefulEof, Shape
<1>. QED
  BY <1>2, <1>3, <1>4, <1>5 DEF IndInv

-----------------------------------------------------------------------------
(* Reading from the client.                                                *)

\* A handler that reads the client runs on an open connection, before relaying
\* begins or while it lasts, and never reads past what the client wrote.
LEMMA Reads ==
  ASSUME IndInv, Receives
  PROVE  /\ conn = "open" /\ "srecv" \in active
         /\ \/ stage \in {"init", "handshake", "error"}
            \/ stage = "stream" /\ "rsend" \notin active
         /\ Readable \in Nat /\ cRead' \in 0..cSent
         /\ cRead + Readable \in Nat /\ cRead + Readable <= cSent
         /\ UNCHANGED <<session, peers, rRead, dnOut>>
<1>1. "srecv" \in active /\ cRead < cSent /\ cRead' = cRead + Readable
      /\ UNCHANGED <<session, peers, rRead, dnOut>>
  BY DEF Receives
<1>2. conn = "open"
  BY <1>1 DEF IndInv, NoOrphans, TypeOK
<1>3. \/ stage \in {"init", "handshake", "error"}
      \/ stage = "stream" /\ "rsend" \notin active
  BY <1>1, <1>2 DEF IndInv, TypeOK, Shape, DirectionsAlternate, Stages
<1>4. /\ cSent \in Nat /\ cRead \in Nat /\ cSent - cRead \in Nat
      /\ cRead + (cSent - cRead) = cSent
  BY <1>1, LengthsAssumption DEF IndInv, TypeOK
<1>5. Held \in Nat /\ BufSize - Held \in Nat
  <2>1. CASE stage = "init"
    <3>1. sbuf.len \in Nat /\ sbuf.len <= IvLen + 1
      BY <2>1 DEF IndInv, TypeOK, Buffer
    <3>. QED
      BY <2>1, <3>1, LengthsAssumption DEF Held
  <2>2. CASE stage # "init"
    BY <2>2, LengthsAssumption DEF Held
  <2>. QED
    BY <2>1, <2>2
<1>6. Readable \in Nat /\ Readable <= cSent - cRead
  <2> DEFINE a == cSent - cRead
             b == BufSize - Held
  <2>1. a \in Nat /\ b \in Nat /\ Readable = (IF a < b THEN a ELSE b)
    BY <1>4, <1>5 DEF Readable, Lesser
  <2> HIDE DEF a, b
  <2>2. Readable \in Nat /\ Readable <= a
    BY <2>1
  <2>. QED
    BY <2>2 DEF a
<1>7. cRead + Readable \in Nat /\ cRead + Readable <= cSent
  BY <1>4, <1>6
<1>. QED
  BY <1>1, <1>2, <1>3, <1>6, <1>7

\* A frame that is decoded ends within what has been read.
LEMMA Decoded ==
  ASSUME IndInv, NEW d \in frames \cup {IvLen}, Decodes(d)
  PROVE  /\ d \in Nat /\ d >= IvLen /\ (d = IvLen \/ d <= cSent)
         /\ dec' = d /\ dec \in Nat /\ dec >= IvLen /\ stage # "error"
<1>1. IvLen \in Nat /\ UpTotal \in Nat /\ frames \subseteq (IvLen + 1)..UpTotal
      /\ dec \in Nat /\ dec >= IvLen
  BY LengthsAssumption DEF IndInv, TypeOK
<1>2. d <= cRead + Readable /\ dec' = d /\ Receives /\ stage # "error"
  BY DEF Decodes, LastFrameEnd
<1>3. cRead + Readable \in Nat /\ cRead + Readable <= cSent /\ cSent \in Nat
  <2>1. cSent \in Nat
    BY LengthsAssumption DEF IndInv, TypeOK
  <2>. QED
    BY <1>2, <2>1, Reads
<1>4. d \in Nat /\ d >= IvLen
  BY <1>1
<1>5. d <= cSent
  BY <1>2, <1>3, <1>4
<1>. QED
  BY <1>1, <1>2, <1>4, <1>5

\* Before there is a remote, a handler that only moves bytes between buffers and keeps
\* header_buf's length in step with what is decoded keeps the invariant.
LEMMA GatheringKeeps ==
  ASSUME IndInv, conn = "open", stage \in {"init", "handshake", "error"},
         stage' \in {"init", "handshake", "error"},
         UNCHANGED <<session, peers, net, rRead, lifecycle, connected, fastOpen, output>>,
         cRead' \in 0..cSent,
         dec' \in Nat, dec' >= IvLen, dec' = IvLen \/ dec' <= cSent,
         sbuf' \in Buffer, rbuf' \in Buffer, hlen' \in Nat,
         stage' = "init" => sbuf'.len <= IvLen + 1 /\ dec' = IvLen,
         stage' = "handshake" => hlen' = dec' - IvLen
  PROVE  IndInv'
<1>. USE DEF session, peers, lifecycle, output
<1>1. TypeOK'
  BY DEF IndInv, TypeOK, Stages
<1>2. active = {"srecv", "timer"} /\ ~remote /\ ~query /\ net = "none"
  BY DEF IndInv, Shape
<1>3. Shape' /\ NoOrphans' /\ DirectionsAlternate'
  BY <1>2 DEF IndInv, Shape, NoOrphans, DirectionsAlternate
<1>4. UpAccount' /\ UpInOrder' /\ DnInOrder'
  BY <1>2 DEF IndInv, UpAccount, UpInOrder, DnInOrder
<1>5. DnAccount' /\ NothingOverwritten' /\ GracefulEof'
  <2>1. why = "none"
    BY DEF IndInv, Shape
  <2>. QED
    BY <1>2, <2>1 DEF IndInv, DnAccount, NothingOverwritten, GracefulEof
<1>. QED
  BY <1>1, <1>3, <1>4, <1>5 DEF IndInv

\* Throwing bytes away in STAGE_ERROR keeps the invariant.
LEMMA RecvDiscardsKeeps == IndInv /\ RecvDiscards => IndInv'
<1>. SUFFICES ASSUME IndInv, RecvDiscards PROVE IndInv'
  OBVIOUS
<1>1. /\ Receives /\ stage = "error" /\ stage' = stage /\ sbuf' = Buf(0, 0)
      /\ UNCHANGED <<dec, net, lifecycle, connected, fastOpen, rbuf, hlen, upOut>>
  BY DEF RecvDiscards
<1>2. conn = "open" /\ cRead' \in 0..cSent /\ UNCHANGED <<session, peers, rRead, dnOut>>
  BY <1>1, Reads
<1>3. /\ dec \in Nat /\ dec >= IvLen /\ (dec = IvLen \/ dec <= cSent)
      /\ rbuf \in Buffer /\ hlen \in Nat
  BY DEF IndInv, TypeOK
<1>4. sbuf' \in Buffer
  BY <1>1 DEF Buf, Buffer
<1>. QED
  BY <1>1, <1>2, <1>3, <1>4, GatheringKeeps DEF output

\* Gathering the IV keeps the invariant.
LEMMA RecvWaitsForIvKeeps == IndInv /\ RecvWaitsForIv => IndInv'
<1>. SUFFICES ASSUME IndInv, RecvWaitsForIv PROVE IndInv'
  OBVIOUS
<1>1. /\ Receives /\ stage = "init" /\ Held + Readable <= IvLen + 1 /\ stage' = stage
      /\ sbuf' = [sbuf EXCEPT !.len = @ + Readable]
      /\ UNCHANGED <<dec, net, lifecycle, connected, fastOpen, rbuf, hlen, upOut>>
  BY DEF RecvWaitsForIv, IvPending
<1>2. /\ conn = "open" /\ cRead' \in 0..cSent /\ Readable \in Nat
      /\ UNCHANGED <<session, peers, rRead, dnOut>>
  BY <1>1, Reads
<1>3. /\ dec \in Nat /\ dec >= IvLen /\ (dec = IvLen \/ dec <= cSent)
      /\ rbuf \in Buffer /\ hlen \in Nat /\ sbuf \in Buffer /\ dec = IvLen
  BY <1>1, <1>2 DEF IndInv, TypeOK, UpAccount
<1>4. sbuf' \in Buffer /\ sbuf'.len <= IvLen + 1
  <2>1. sbuf.len \in Nat /\ Held = sbuf.len
    BY <1>1, <1>3 DEF Held, Buffer
  <2>. QED
    BY <1>1, <1>2, <1>3, <2>1 DEF Buffer
<1>. QED
  BY <1>1, <1>2, <1>3, <1>4, GatheringKeeps DEF output

\* Bytes that complete no frame leave both streams as they were.
LEMMA RecvNoFrameKeeps ==
  ASSUME IndInv, NEW d \in frames \cup {IvLen}, RecvNoFrame(d)
  PROVE  IndInv'
<1>1. /\ Decodes(d) /\ Receives /\ d = dec /\ stage' = stage
      /\ UNCHANGED <<net, lifecycle, connected, fastOpen, hlen, upOut>>
  BY DEF RecvNoFrame, Decodes
<1>2. /\ conn = "open" /\ cRead' \in 0..cSent /\ "srecv" \in active
      /\ UNCHANGED <<session, peers, rRead, dnOut>>
      /\ \/ stage \in {"init", "handshake", "error"}
         \/ stage = "stream" /\ "rsend" \notin active
  BY <1>1, Reads
<1>3. /\ d \in Nat /\ d >= IvLen /\ (d = IvLen \/ d <= cSent) /\ dec' = d /\ dec' = dec
  BY <1>1, Decoded
<1>4. rbuf \in Buffer /\ sbuf \in Buffer /\ hlen \in Nat /\ Buf(d, 0) \in Buffer
  BY <1>3 DEF IndInv, TypeOK, Buffer, Buf
<1>5. CASE stage # "stream"
  <2>1. sbuf' = Buf(d, 0) /\ rbuf' = rbuf /\ stage \in {"init", "handshake", "error"}
    BY <1>2, <1>5 DEF RecvNoFrame
  <2>2. sbuf'.len <= IvLen + 1
    BY <2>1, LengthsAssumption DEF Buf
  <2>3. /\ stage' = "init" => dec' = IvLen
        /\ stage' = "handshake" => hlen' = dec' - IvLen
    BY <1>1, <1>2, <1>3 DEF IndInv, UpAccount
  <2>. QED
    BY <1>1, <1>2, <1>3, <1>4, <2>1, <2>2, <2>3, GatheringKeeps DEF output
<1>6. CASE stage = "stream"
  <2>. USE DEF session, peers, lifecycle
  <2>1. rbuf' = Buf(d, 0) /\ sbuf' = sbuf /\ "rsend" \notin active
    BY <1>2, <1>6 DEF RecvNoFrame
  <2>2. TypeOK'
    BY <1>1, <1>2, <1>3, <1>4, <2>1 DEF IndInv, TypeOK
  <2>3. /\ Shape' /\ UpAccount' /\ UpInOrder' /\ DnInOrder' /\ DirectionsAlternate'
        /\ NoOrphans'
    BY <1>1, <1>2, <1>3, <1>6, <2>1
       DEF IndInv, Shape, UpAccount, UpInOrder, DnInOrder, DirectionsAlternate, NoOrphans
  <2>4. DnAccount' /\ NothingOverwritten' /\ GracefulEof'
    BY <1>1, <1>2, <1>3, <1>6, <2>1
       DEF IndInv, DnAccount, NothingOverwritten, GracefulEof
  <2>. QED
    BY <2>2, <2>3, <2>4 DEF IndInv
<1>. QED
  BY <1>5, <1>6

\* While data is relayed: what is decoded goes out at once, and what the socket does not
\* take is what remote_send_cb finds.
LEMMA RecvStreamKeeps ==
  ASSUME IndInv, NEW d \in frames \cup {IvLen}, RecvStream(d)
  PROVE  IndInv'
<1>. USE DEF session, peers
<1> DEFINE buf == Buf(dec, d - dec)
<1>1. /\ Decodes(d) /\ Receives /\ d > dec /\ stage = "stream"
      /\ UNCHANGED <<net, conn, remote, query, why, stage, connected, fastOpen, sbuf, hlen>>
  BY DEF RecvStream, Decodes
<1>2. /\ conn = "open" /\ cRead' \in 0..cSent /\ "srecv" \in active
      /\ UNCHANGED <<session, peers, rRead, dnOut>> /\ "rsend" \notin active
  BY <1>1, Reads
<1>3. /\ d \in Nat /\ d >= IvLen /\ (d = IvLen \/ d <= cSent) /\ dec' = d /\ dec \in Nat
  BY <1>1, Decoded
<1>4. PICK s \in 0..(d - dec) :
        /\ upOut' = upOut \o Slice(dec, s)
        /\ IF s = d - dec THEN rbuf' = buf /\ active' = active
                          ELSE rbuf' = Sent(buf, s) /\ Swap("srecv", "rsend")
  <2>1. PICK s \in 0..buf.len :
          /\ upOut' = upOut \o Front(buf, s)
          /\ IF s = buf.len THEN rbuf' = buf /\ active' = active
                            ELSE rbuf' = Sent(buf, s) /\ Swap("srecv", "rsend")
    BY DEF RecvStream
  <2>2. buf.len = d - dec /\ d - dec \in Nat
    BY <1>1, <1>3 DEF Buf
  <2>3. Front(buf, s) = Slice(dec, s)
    <3>1. buf.base = dec /\ buf.idx = 0 /\ dec + 0 = dec
      BY <1>3 DEF Buf
    <3>. QED
      BY <3>1 DEF Front
  <2>. QED
    BY <2>1, <2>2, <2>3
<1>5. s \in Nat /\ d - dec \in Nat /\ s <= d - dec
  BY <1>1, <1>3
<1>6. Header + Len(upOut) = dec /\ remote /\ ~query /\ connected /\ why = "none"
  BY <1>1, <1>2 DEF IndInv, NothingOverwritten, Shape
<1>7. upOut' \in Seq(Nat) /\ Len(upOut') = Len(upOut) + s /\ UpInOrder'
  <2>1. upOut' = upOut \o Slice(Header + Len(upOut), s)
    BY <1>4, <1>6
  <2>. QED
    BY <1>5, <2>1, UpGrows DEF IndInv, TypeOK
<1>8. Header + Len(upOut') = dec + s
  <2>1. Header \in Nat /\ Len(upOut) \in Nat
    BY LengthsAssumption, LenProperties DEF Header, IndInv, TypeOK
  <2>. QED
    BY <1>5, <1>6, <1>7, <2>1
<1>9. \/ s = d - dec /\ rbuf' \in Buffer /\ active' = active
      \/ /\ s < d - dec /\ rbuf' \in Buffer /\ active' = (active \ {"srecv"}) \cup {"rsend"}
         /\ rbuf'.base + rbuf'.idx = dec + s /\ rbuf'.len = (d - dec) - s /\ rbuf'.len > 0
  <2>1. CASE s = d - dec
    BY <1>3, <1>4, <1>5, <2>1 DEF Buf, Buffer
  <2>2. CASE s # d - dec
    <3>1. /\ rbuf' \in Buffer /\ rbuf'.base = dec /\ rbuf'.idx = s
          /\ rbuf'.len = (d - dec) - s
      <4>1. buf \in Buffer /\ s \in 0..buf.len /\ buf.base = dec /\ buf.idx = 0
            /\ buf.len = d - dec /\ rbuf' = Sent(buf, s)
        BY <1>3, <1>4, <1>5, <2>2 DEF Buf, Buffer
      <4>2. 0 + s = s
        BY <1>5
      <4> HIDE DEF buf
      <4>. QED
        BY <4>1, <4>2, SentFacts
    <3>2. (d - dec) - s \in Nat /\ (d - dec) - s > 0 /\ s < d - dec
      BY <1>5, <2>2
    <3>. QED
      BY <1>3, <1>4, <1>5, <2>2, <3>1, <3>2 DEF Swap, Buffer
  <2>. QED
    BY <2>1, <2>2
<1> HIDE DEF buf
<1>10. TypeOK'
  <2>1. active' \subseteq ServerWatchers \cup RemoteWatchers /\ rbuf' \in Buffer
    BY <1>9 DEF IndInv, TypeOK, RemoteWatchers
  <2>. QED
    BY <1>1, <1>2, <1>3, <1>7, <2>1 DEF IndInv, TypeOK
<1>11. Shape' /\ NoOrphans' /\ DnInOrder' /\ GracefulEof'
  BY <1>1, <1>2, <1>6 DEF IndInv, Shape, NoOrphans, DnInOrder, GracefulEof
<1>12. DirectionsAlternate'
  BY <1>1, <1>2, <1>9 DEF IndInv, DirectionsAlternate
<1>13. UpAccount'
  <2>1. CASE s = d - dec
    BY <1>1, <1>2, <1>6, <1>9, <2>1 DEF IndInv, UpAccount
  <2>2. CASE s < d - dec
    <3>1. /\ rbuf'.base + rbuf'.idx = Header + Len(upOut') /\ rbuf'.len > 0
          /\ rbuf'.len = (d - dec) - s
      BY <1>8, <1>9, <2>2
    <3>2. Header + Len(upOut') + rbuf'.len = dec'
      BY <1>3, <1>5, <1>8, <3>1
    <3>. QED
      BY <1>1, <1>2, <1>6, <3>1, <3>2 DEF IndInv, UpAccount
  <2>. QED
    BY <1>5, <2>1, <2>2
<1>14. DnAccount'
  BY <1>1, <1>2, <1>9 DEF IndInv, DnAccount
<1>15. NothingOverwritten'
  <2>1. "srecv" \in active' => Header + Len(upOut') = dec'
    BY <1>3, <1>5, <1>8, <1>9
  <2>2. "rrecv" \in active' => "rrecv" \in active
    BY <1>9
  <2>. QED
    BY <1>1, <1>2, <2>1, <2>2 DEF IndInv, NothingOverwritten
<1>. QED
  BY <1>7, <1>10, <1>11, <1>12, <1>13, <1>14, <1>15 DEF IndInv

-----------------------------------------------------------------------------
(* Writing to the destination.                                             *)

\* remote_send_cb runs on an open connection whose name, if it had one, is resolved.
LEMMA SendsUp ==
  ASSUME IndInv, "rsend" \in active
  PROVE  /\ conn = "open" /\ remote /\ ~query /\ why = "none"
         /\ \/ stage \in {"parse", "resolve"} /\ active = {"rsend", "timer"}
            \/ stage = "stream" /\ "srecv" \notin active /\ connected
<1>1. conn = "open"
  BY DEF IndInv, TypeOK, NoOrphans
<1>2. stage \in Stages /\ Shape /\ DirectionsAlternate
  BY DEF IndInv, TypeOK
<1>3. stage \notin {"init", "handshake", "error"}
  BY <1>1, <1>2 DEF Shape
<1>4. CASE stage \in {"parse", "resolve"}
  BY <1>1, <1>2, <1>4 DEF Shape
<1>5. CASE stage = "stream"
  BY <1>1, <1>2, <1>5 DEF Shape, DirectionsAlternate
<1>. QED
  BY <1>1, <1>2, <1>3, <1>4, <1>5 DEF Stages

\* Relaying begins with nothing held when the SYN carried the whole payload.
LEMMA RemoteReadyKeeps == IndInv /\ RemoteReady => IndInv'
<1>. SUFFICES ASSUME IndInv, RemoteReady PROVE IndInv'
  OBVIOUS
<1>. USE DEF session, peers, reading, buffers, output
<1>1. /\ "rsend" \in active /\ ~connected /\ net = "up" /\ rbuf.len = 0
      /\ connected' = TRUE /\ stage' = "stream"
      /\ active' = (active \ {"rsend"}) \cup {"srecv", "rrecv"}
      /\ UNCHANGED <<session, peers, net, reading, conn, remote, query, why, fastOpen,
                     buffers, output>>
  BY DEF RemoteReady
<1>2. /\ conn = "open" /\ remote /\ ~query /\ why = "none"
      /\ stage \in {"parse", "resolve"} /\ active = {"rsend", "timer"}
  BY <1>1, SendsUp
<1>3. active' = {"timer", "srecv", "rrecv"}
  BY <1>1, <1>2
<1>4. TypeOK'
  BY <1>1, <1>3 DEF IndInv, TypeOK, Stages, ServerWatchers, RemoteWatchers
<1>5. Shape' /\ NoOrphans' /\ DirectionsAlternate' /\ UpAccount' /\ DnAccount'
  BY <1>1, <1>2, <1>3
     DEF IndInv, Shape, NoOrphans, DirectionsAlternate, UpAccount, DnAccount
<1>6. UpInOrder' /\ DnInOrder' /\ GracefulEof'
  BY <1>1, <1>2 DEF IndInv, UpInOrder, DnInOrder, GracefulEof
<1>7. NothingOverwritten'
  <2>1. Header + Len(upOut) = dec
    <3>1. Header + Len(upOut) + rbuf.len = dec
      BY <1>1, <1>2 DEF IndInv, UpAccount
    <3>2. Header + Len(upOut) \in Nat
      BY LengthsAssumption, LenProperties DEF Header, IndInv, TypeOK
    <3>. QED
      BY <1>1, <3>1, <3>2
  <2>2. rRead = 0 /\ dnOut = <<>>
    BY <1>2 DEF IndInv, DnAccount
  <2>3. Len(dnOut) = Enciphered(rRead)
    BY <2>2, EmptySeq DEF Enciphered
  <2>. QED
    BY <1>1, <2>1, <2>3 DEF NothingOverwritten
<1>. QED
  BY <1>4, <1>5, <1>6, <1>7 DEF IndInv

\* Sending s held bytes to the destination keeps the two accounts balanced.
LEMMA RemoteSendKeeps ==
  ASSUME IndInv, NEW s \in Nat, RemoteSend(s)
  PROVE  IndInv'
<1>. USE DEF session, peers, reading
<1>1. /\ "rsend" \in active /\ (connected \/ net = "up") /\ rbuf.len > 0 /\ s <= rbuf.len
      /\ connected' = TRUE /\ upOut' = upOut \o Front(rbuf, s)
      /\ UNCHANGED <<session, peers, net, reading, conn, remote, query, why, fastOpen,
                     sbuf, hlen, dnOut>>
  BY DEF RemoteSend
<1>2. /\ conn = "open" /\ remote /\ ~query /\ why = "none"
      /\ \/ stage \in {"parse", "resolve"} /\ active = {"rsend", "timer"}
         \/ stage = "stream" /\ "srecv" \notin active /\ connected
  BY <1>1, SendsUp
<1>3. /\ rbuf.base + rbuf.idx = Header + Len(upOut)
      /\ Header + Len(upOut) + rbuf.len = dec
  BY <1>1, <1>2 DEF IndInv, UpAccount
<1>4. /\ rbuf \in Buffer /\ rbuf.len \in Nat /\ s \in 0..rbuf.len
      /\ Header + Len(upOut) \in Nat /\ upOut \in Seq(Nat)
  BY <1>1, LengthsAssumption, LenProperties DEF Header, IndInv, TypeOK, Buffer
<1>5. upOut' \in Seq(Nat) /\ Len(upOut') = Len(upOut) + s /\ UpInOrder'
  <2>1. upOut' = upOut \o Slice(Header + Len(upOut), s)
    BY <1>1, <1>3 DEF Front
  <2>. QED
    BY <1>4, <2>1, UpGrows DEF IndInv
<1>6. Header + Len(upOut') = Header + Len(upOut) + s
  <2>1. Header \in Nat /\ Len(upOut) \in Nat
    BY LengthsAssumption, LenProperties DEF Header, IndInv, TypeOK
  <2>. QED
    BY <1>5, <2>1
<1>7. DnInOrder' /\ GracefulEof'
  BY <1>1, <1>2 DEF IndInv, DnInOrder, GracefulEof
<1>8. CASE s < rbuf.len
  <2>1. rbuf' = Sent(rbuf, s) /\ active' = active /\ stage' = stage
    BY <1>1, <1>8 DEF RemoteSend
  <2>2. /\ rbuf' \in Buffer /\ rbuf'.base = rbuf.base /\ rbuf'.idx = rbuf.idx + s
        /\ rbuf'.len = rbuf.len - s
    BY <1>4, <2>1, SentFacts
  <2>3. TypeOK'
    BY <1>1, <1>5, <2>1, <2>2 DEF IndInv, TypeOK
  <2>4. Shape' /\ NoOrphans' /\ DirectionsAlternate' /\ DnAccount'
    BY <1>1, <1>2, <2>1
       DEF IndInv, Shape, NoOrphans, DirectionsAlternate, DnAccount
  <2>5. UpAccount'
    <3>1. /\ rbuf'.len > 0 /\ rbuf'.base + rbuf'.idx = Header + Len(upOut')
          /\ Header + Len(upOut') + rbuf'.len = dec'
      <4>1. rbuf.base \in Nat /\ rbuf.idx \in Nat
        BY <1>4 DEF Buffer
      <4>2. rbuf'.len > 0 /\ rbuf'.len \in Nat
        BY <1>4, <1>8, <2>2
      <4>3. rbuf'.base + rbuf'.idx = Header + Len(upOut')
        BY <1>3, <1>4, <1>6, <2>2, <4>1
      <4>4. Header + Len(upOut') + rbuf'.len = dec'
        BY <1>1, <1>3, <1>4, <1>6, <2>2, <4>2
      <4>. QED
        BY <4>2, <4>3, <4>4
    <3>. QED
      BY <1>1, <1>2, <2>1, <3>1 DEF UpAccount
  <2>6. NothingOverwritten'
    BY <1>1, <1>2, <2>1 DEF IndInv, NothingOverwritten
  <2>. QED
    BY <1>5, <1>7, <2>3, <2>4, <2>5, <2>6 DEF IndInv
<1>9. CASE s = rbuf.len
  <2>1. /\ rbuf' = [rbuf EXCEPT !.idx = 0, !.len = 0] /\ stage' = "stream"
        /\ active' = (active \ {"rsend"}) \cup {"srecv"}
                       \cup (IF stage = "stream" THEN {} ELSE {"rrecv"})
    BY <1>1, <1>9 DEF RemoteSend
  <2>2. rbuf' \in Buffer
    BY <1>4, <2>1 DEF Buffer
  <2>3. /\ active' \subseteq ServerWatchers \cup RemoteWatchers
        /\ "srecv" \in active' /\ "rsend" \notin active'
        /\ "ssend" \in active' <=> "ssend" \in active
        /\ \/ stage = "stream" /\ ("rrecv" \in active' <=> "rrecv" \in active)
           \/ stage # "stream" /\ "rrecv" \in active' /\ "ssend" \notin active'
    BY <1>2, <2>1 DEF IndInv, TypeOK, ServerWatchers, RemoteWatchers
  <2>4. TypeOK'
    BY <1>1, <1>5, <2>1, <2>2, <2>3 DEF IndInv, TypeOK, Stages
  <2>5. Shape' /\ NoOrphans' /\ DirectionsAlternate' /\ DnAccount' /\ UpAccount'
    BY <1>1, <1>2, <2>1, <2>3
       DEF IndInv, Shape, NoOrphans, DirectionsAlternate, DnAccount, UpAccount
  <2>6. NothingOverwritten'
    <3>1. Header + Len(upOut') = dec'
      BY <1>1, <1>3, <1>4, <1>6, <1>9
    <3>2. "rrecv" \in active' => Len(dnOut) = Enciphered(rRead)
      <4>1. CASE stage = "stream"
        BY <2>3, <4>1 DEF IndInv, NothingOverwritten
      <4>2. CASE stage # "stream"
        <5>1. rRead = 0 /\ dnOut = <<>>
          BY <1>2, <4>2 DEF IndInv, DnAccount
        <5>. QED
          BY <5>1, EmptySeq DEF Enciphered
      <4>. QED
        BY <4>1, <4>2
    <3>. QED
      BY <1>1, <3>1, <3>2 DEF NothingOverwritten, Enciphered
  <2>. QED
    BY <1>5, <1>7, <2>4, <2>5, <2>6 DEF IndInv
<1>. QED
  BY <1>1, <1>4, <1>8, <1>9

-----------------------------------------------------------------------------
(* The stream back to the client.                                          *)

\* The handlers of that direction run only while data is relayed.
LEMMA SendsDown ==
  ASSUME IndInv, "rrecv" \in active \/ "ssend" \in active
  PROVE  /\ conn = "open" /\ stage = "stream" /\ remote /\ ~query /\ connected
         /\ why = "none"
         /\ ("rrecv" \in active) # ("ssend" \in active)
<1>1. conn = "open"
  BY DEF IndInv, TypeOK, NoOrphans
<1>2. stage \in Stages /\ Shape /\ DirectionsAlternate
  BY DEF IndInv, TypeOK
<1>3. stage = "stream"
  BY <1>1, <1>2 DEF Shape, Stages
<1>. QED
  BY <1>1, <1>2, <1>3 DEF Shape, DirectionsAlternate

\* What the destination has written, enciphered, is counted as it is read.
LEMMA EncipheredCount ==
  ASSUME NEW r \in Nat, NEW k \in Nat \ {0}
  PROVE  /\ Enciphered(r) \in Nat /\ Enciphered(r + k) \in Nat
         /\ r = 0 => Enciphered(r + k) = Enciphered(r) + IvLen + k
         /\ r # 0 => Enciphered(r + k) = Enciphered(r) + k /\ Enciphered(r) = IvLen + r
  BY LengthsAssumption DEF Enciphered

\* What is read from the destination is sent at once or held, and reading stops.
LEMMA RemoteRecvKeeps == IndInv /\ RemoteRecv => IndInv'
<1>. SUFFICES ASSUME IndInv, RemoteRecv PROVE IndInv'
  OBVIOUS
<1>. USE DEF session, peers
<1> DEFINE k == Lesser(rSent - rRead, BufSize)
           buf == IF rRead = 0 THEN Buf(0, IvLen + k) ELSE Buf(IvLen + rRead, k)
<1>1. /\ "rrecv" \in active /\ rRead < rSent /\ rRead' = rRead + k
      /\ UNCHANGED <<session, peers, net, cRead, dec, conn, remote, query, why, stage,
                     connected, fastOpen, rbuf, hlen, upOut>>
  BY DEF RemoteRecv
<1>2. PICK s \in 0..buf.len :
        /\ dnOut' = dnOut \o Front(buf, s)
        /\ IF s = buf.len THEN sbuf' = buf /\ active' = active
                          ELSE sbuf' = Sent(buf, s) /\ Swap("rrecv", "ssend")
  BY DEF RemoteRecv
<1>3. /\ conn = "open" /\ stage = "stream" /\ remote /\ ~query /\ connected /\ why = "none"
      /\ "ssend" \notin active
  BY <1>1, SendsDown
<1>4. rRead \in Nat /\ rSent \in Nat /\ k \in Nat \ {0} /\ k <= rSent - rRead
  BY <1>1, LengthsAssumption DEF Lesser, IndInv, TypeOK
<1> HIDE DEF k
<1>5. /\ buf \in Buffer /\ buf.idx = 0 /\ buf.base = Enciphered(rRead) /\ buf.len > 0
      /\ buf.base + buf.len = Enciphered(rRead')
  <2>1. IvLen \in Nat
    BY LengthsAssumption
  <2>2. CASE rRead = 0
    <3>1. buf = Buf(0, IvLen + k) /\ Enciphered(rRead) = 0 /\ rRead' = k
      BY <1>1, <1>4, <2>2 DEF Enciphered
    <3>2. Enciphered(rRead') = IvLen + k
      BY <1>4, <3>1 DEF Enciphered
    <3> HIDE DEF buf
    <3>. QED
      BY <1>4, <2>1, <3>1, <3>2 DEF Buf, Buffer
  <2>3. CASE rRead # 0
    <3>1. buf = Buf(IvLen + rRead, k)
      BY <2>3
    <3>2. Enciphered(rRead') = IvLen + rRead + k /\ Enciphered(rRead) = IvLen + rRead
      <4>1. /\ rRead # 0 => Enciphered(rRead + k) = Enciphered(rRead) + k
            /\ rRead # 0 => Enciphered(rRead) = IvLen + rRead
        BY <1>4, EncipheredCount
      <4>. QED
        BY <1>1, <2>3, <4>1
    <3> HIDE DEF buf
    <3>. QED
      BY <1>4, <2>1, <3>1, <3>2 DEF Buf, Buffer
  <2>. QED
    BY <2>2, <2>3
<1> HIDE DEF buf
<1>6. Len(dnOut) = buf.base /\ dnOut \in Seq(Nat)
  BY <1>1, <1>5 DEF IndInv, TypeOK, NothingOverwritten
<1>7. buf.base \in Nat /\ buf.len \in Nat /\ s \in Nat /\ s <= buf.len
  BY <1>5 DEF Buffer
<1>8. dnOut' \in Seq(Nat) /\ Len(dnOut') = buf.base + s /\ DnInOrder'
  <2>1. buf.base + buf.idx = Len(dnOut)
    BY <1>5, <1>6, <1>7
  <2>2. dnOut' = dnOut \o Slice(Len(dnOut), s)
    BY <1>2, <2>1 DEF Front
  <2>. QED
    BY <1>6, <1>7, <2>2, DnGrows DEF IndInv
<1>9. UpInOrder' /\ GracefulEof' /\ UpAccount'
  <2>1. "rsend" \in active' <=> "rsend" \in active
    BY <1>2 DEF Swap
  <2>. QED
    BY <1>1, <1>3, <2>1 DEF IndInv, UpInOrder, GracefulEof, UpAccount
<1>10. rRead' \in 0..rSent
  BY <1>1, <1>4
<1>11. CASE s = buf.len
  <2>1. sbuf' = buf /\ active' = active
    BY <1>2, <1>11
  <2>2. TypeOK'
    BY <1>1, <1>3, <1>5, <1>8, <1>10, <2>1 DEF IndInv, TypeOK
  <2>3. Shape' /\ NoOrphans' /\ DirectionsAlternate' /\ DnAccount'
    BY <1>1, <1>3, <2>1 DEF IndInv, Shape, NoOrphans, DirectionsAlternate, DnAccount
  <2>4. NothingOverwritten'
    <3>1. Len(dnOut') = Enciphered(rRead)'
      BY <1>5, <1>8, <1>11 DEF Enciphered
    <3>. QED
      BY <1>1, <1>3, <2>1, <3>1 DEF IndInv, NothingOverwritten
  <2>. QED
    BY <1>8, <1>9, <2>2, <2>3, <2>4 DEF IndInv
<1>12. CASE s < buf.len
  <2>1. sbuf' = Sent(buf, s) /\ active' = (active \ {"rrecv"}) \cup {"ssend"}
    BY <1>2, <1>7, <1>12 DEF Swap
  <2>2. /\ sbuf' \in Buffer /\ sbuf'.base = buf.base /\ sbuf'.idx = s
        /\ sbuf'.len = buf.len - s
    BY <1>5, <1>7, <2>1, SentFacts
  <2>3. TypeOK'
    <3>1. active' \subseteq ServerWatchers \cup RemoteWatchers
      BY <2>1 DEF IndInv, TypeOK, ServerWatchers
    <3>. QED
      BY <1>1, <1>3, <1>8, <1>10, <2>2, <3>1 DEF IndInv, TypeOK
  <2>4. Shape' /\ NoOrphans' /\ DirectionsAlternate' /\ NothingOverwritten'
    BY <1>1, <1>3, <2>1
       DEF IndInv, Shape, NoOrphans, DirectionsAlternate, NothingOverwritten
  <2>5. DnAccount'
    <3>1. sbuf'.len > 0 /\ sbuf'.base + sbuf'.idx = Len(dnOut')
      BY <1>7, <1>8, <1>12, <2>2
    <3>2. Len(dnOut') + sbuf'.len = Enciphered(rRead')
      BY <1>5, <1>7, <1>8, <2>2
    <3>3. Enciphered(rRead') = Enciphered(rRead)'
      BY DEF Enciphered
    <3>. QED
      BY <1>1, <1>3, <3>1, <3>2, <3>3 DEF IndInv, DnAccount
  <2>. QED
    BY <1>8, <1>9, <2>3, <2>4, <2>5 DEF IndInv
<1>. QED
  BY <1>7, <1>11, <1>12

\* Sending s held bytes to the client keeps the two accounts balanced.
LEMMA ServerSendKeeps ==
  ASSUME IndInv, NEW s \in Nat, ServerSend(s)
  PROVE  IndInv'
<1>. USE DEF session, peers, reading
<1>1. /\ "ssend" \in active /\ sbuf.len > 0 /\ s <= sbuf.len
      /\ dnOut' = dnOut \o Front(sbuf, s)
      /\ IF s < sbuf.len
         THEN sbuf' = Sent(sbuf, s) /\ active' = active
         ELSE sbuf' = [sbuf EXCEPT !.idx = 0, !.len = 0] /\ Swap("ssend", "rrecv")
      /\ UNCHANGED <<session, peers, net, reading, conn, remote, query, why, stage,
                     connected, fastOpen, rbuf, hlen, upOut>>
  BY DEF ServerSend
<1>2. /\ conn = "open" /\ stage = "stream" /\ remote /\ ~query /\ connected /\ why = "none"
      /\ "rrecv" \notin active
  BY <1>1, SendsDown
<1>3. /\ sbuf.base + sbuf.idx = Len(dnOut) /\ Len(dnOut) + sbuf.len = Enciphered(rRead)
      /\ Enciphered(rRead)' = Enciphered(rRead)
  BY <1>1, <1>2 DEF IndInv, DnAccount, Enciphered
<1>4. /\ sbuf \in Buffer /\ sbuf.base \in Nat /\ sbuf.idx \in Nat /\ sbuf.len \in Nat
      /\ s \in 0..sbuf.len /\ dnOut \in Seq(Nat) /\ Len(dnOut) \in Nat
  BY <1>1, LenProperties DEF IndInv, TypeOK, Buffer
<1>5. dnOut' \in Seq(Nat) /\ Len(dnOut') = Len(dnOut) + s /\ DnInOrder'
  <2>1. dnOut' = dnOut \o Slice(Len(dnOut), s)
    BY <1>1, <1>3 DEF Front
  <2>. QED
    BY <1>4, <2>1, DnGrows DEF IndInv
<1>6. UpInOrder' /\ GracefulEof' /\ UpAccount'
  <2>1. "rsend" \in active' <=> "rsend" \in active
    BY <1>1 DEF Swap
  <2>. QED
    BY <1>1, <1>2, <2>1 DEF IndInv, UpInOrder, GracefulEof, UpAccount
<1>7. CASE s < sbuf.len
  <2>1. sbuf' = Sent(sbuf, s) /\ active' = active
    BY <1>1, <1>7
  <2>2. /\ sbuf' \in Buffer /\ sbuf'.base = sbuf.base /\ sbuf'.idx = sbuf.idx + s
        /\ sbuf'.len = sbuf.len - s
    BY <1>4, <2>1, SentFacts
  <2>3. TypeOK'
    BY <1>1, <1>2, <1>5, <2>1, <2>2 DEF IndInv, TypeOK
  <2>4. Shape' /\ NoOrphans' /\ DirectionsAlternate' /\ NothingOverwritten'
    BY <1>1, <1>2, <2>1
       DEF IndInv, Shape, NoOrphans, DirectionsAlternate, NothingOverwritten
  <2>5. DnAccount'
    <3>1. sbuf'.len > 0 /\ sbuf'.base + sbuf'.idx = Len(dnOut')
      <4>1. sbuf'.len > 0
        BY <1>4, <1>7, <2>2
      <4>2. sbuf'.base + sbuf'.idx = (sbuf.base + sbuf.idx) + s
        BY <1>4, <2>2
      <4>. QED
        BY <1>3, <1>5, <4>1, <4>2
    <3>2. Len(dnOut') + sbuf'.len = Enciphered(rRead)'
      BY <1>3, <1>4, <1>5, <2>2
    <3>. QED
      BY <1>1, <1>2, <3>1, <3>2 DEF IndInv, DnAccount
  <2>. QED
    BY <1>5, <1>6, <2>3, <2>4, <2>5 DEF IndInv
<1>8. CASE s = sbuf.len
  <2>1. /\ sbuf' = [sbuf EXCEPT !.idx = 0, !.len = 0]
        /\ active' = (active \ {"ssend"}) \cup {"rrecv"}
    BY <1>1, <1>4, <1>8 DEF Swap
  <2>2. sbuf' \in Buffer
    BY <1>4, <2>1 DEF Buffer
  <2>3. TypeOK'
    <3>1. active' \subseteq ServerWatchers \cup RemoteWatchers
      BY <2>1 DEF IndInv, TypeOK, RemoteWatchers
    <3>. QED
      BY <1>1, <1>2, <1>5, <2>2, <3>1 DEF IndInv, TypeOK
  <2>4. Shape' /\ NoOrphans' /\ DirectionsAlternate' /\ DnAccount'
    BY <1>1, <1>2, <2>1
       DEF IndInv, Shape, NoOrphans, DirectionsAlternate, DnAccount
  <2>5. NothingOverwritten'
    <3>1. Len(dnOut') = Enciphered(rRead)'
      BY <1>3, <1>5, <1>8
    <3>. QED
      BY <1>1, <1>2, <2>1, <3>1 DEF IndInv, NothingOverwritten
  <2>. QED
    BY <1>5, <1>6, <2>3, <2>4, <2>5 DEF IndInv
<1>. QED
  BY <1>4, <1>7, <1>8

-----------------------------------------------------------------------------
(* The handlers that close the connection.                                 *)

\* Closing from server_recv_cb leaves nothing behind, with or without a remote.
LEMMA RecvClosesKeeps == IndInv /\ (RecvEof \/ RecvFails) => IndInv'
<1>. SUFFICES ASSUME IndInv, RecvEof \/ RecvFails PROVE IndInv'
  OBVIOUS
<1>1. PICK w \in {"client_eof", "error"} : CloseFromRecv(w)
  BY DEF RecvEof, RecvFails
<1>2. /\ "srecv" \in active
      /\ UNCHANGED <<session, peers, net, reading, stage, connected, fastOpen, buffers, output>>
  BY DEF RecvEof, RecvFails
<1>3. w \in Reasons /\ w # "remote_eof"
  BY DEF Reasons
<1>4. CloseBoth(w) \/ (CloseServer(w) /\ ~remote)
  <2>1. conn = "open"
    BY <1>2 DEF IndInv, NoOrphans, TypeOK
  <2>2. CASE stage \in {"resolve", "stream"}
    BY <1>1, <2>2 DEF CloseFromRecv
  <2>3. CASE stage \notin {"resolve", "stream"}
    <3>1. CloseServer(w)
      BY <1>1, <2>3 DEF CloseFromRecv
    <3>2. ~remote
      BY <1>2, <2>1, <2>3 DEF IndInv, TypeOK, Shape, Stages
    <3>. QED
      BY <3>1, <3>2
  <2>. QED
    BY <2>2, <2>3
<1>. QED
  BY <1>2, <1>3, <1>4, ClosingKeeps

\* The handlers that close both halves leave nothing behind.
LEMMA RemoteClosesKeeps ==
  IndInv /\ (RemoteRefused \/ RemoteSendGivesUp \/ RemoteRecvEof \/ RemoteRecvFails
             \/ Timeout \/ Shutdown) => IndInv'
<1>. SUFFICES ASSUME IndInv,
                     RemoteRefused \/ RemoteSendGivesUp \/ RemoteRecvEof
                       \/ RemoteRecvFails \/ Timeout \/ Shutdown
              PROVE  IndInv'
  OBVIOUS
<1>1. UNCHANGED <<session, peers, net, reading, stage, connected, fastOpen, buffers, output>>
  BY DEF RemoteRefused, RemoteSendGivesUp, RemoteRecvEof, RemoteRecvFails, Timeout, Shutdown
<1>2. PICK w \in {"connect", "error", "remote_eof", "timeout", "shutdown"} :
        CloseBoth(w) /\ (w = "remote_eof" => "rrecv" \in active /\ rRead = rSent)
  BY DEF RemoteRefused, RemoteSendGivesUp, RemoteRecvEof, RemoteRecvFails, Timeout, Shutdown
<1>3. w \in Reasons /\ w # "client_eof"
  BY DEF Reasons
<1>. QED
  BY <1>1, <1>2, <1>3, ClosingKeeps

\* server_send_cb closes both halves, or the one there is.
LEMMA ServerSendGivesUpKeeps == IndInv /\ ServerSendGivesUp => IndInv'
<1>. SUFFICES ASSUME IndInv, ServerSendGivesUp PROVE IndInv'
  OBVIOUS
<1>1. UNCHANGED <<session, peers, net, reading, stage, connected, fastOpen, buffers, output>>
  BY DEF ServerSendGivesUp
<1>2. CloseBoth("error") \/ (CloseServer("error") /\ ~remote)
  BY DEF ServerSendGivesUp
<1>3. "error" \in Reasons
  BY DEF Reasons
<1>. QED
  BY <1>1, <1>2, <1>3, ClosingKeeps

\* A query is outstanding only on an open connection that waits for nothing else.
LEMMA Waiting ==
  ASSUME IndInv, query
  PROVE  /\ conn = "open" /\ ~remote /\ active = {"timer"} /\ stage = "resolve"
         /\ net = "none" /\ why = "none"
<1>1. conn = "open"
  BY DEF IndInv, TypeOK, NoOrphans
<1>2. stage = "resolve"
  BY <1>1 DEF IndInv, TypeOK, Shape, Stages
<1>. QED
  BY <1>1, <1>2 DEF IndInv, Shape

\* An unresolved name frees a server that has no remote yet.
LEMMA ResolveFailsKeeps == IndInv /\ ResolveFails => IndInv'
<1>. SUFFICES ASSUME IndInv, ResolveFails PROVE IndInv'
  OBVIOUS
<1>1. UNCHANGED <<session, peers, net, reading, stage, connected, fastOpen, buffers, output>>
  BY DEF ResolveFails
<1>2. CloseServer("unresolved") /\ ~remote
  BY Waiting DEF ResolveFails
<1>3. "unresolved" \in Reasons
  BY DEF Reasons
<1>. QED
  BY <1>1, <1>2, <1>3, ClosingKeeps

-----------------------------------------------------------------------------
(* Parsing the header, asking for its name, and connecting.                *)

\* The states in which there is no remote yet.
LEMMA Unconnected ==
  ASSUME IndInv, conn = "open", ~remote
  PROVE  /\ upOut = <<>> /\ dnOut = <<>> /\ rRead = 0 /\ net = "none" /\ rSent = 0
         /\ why = "none" /\ stage \in {"init", "handshake", "error", "resolve"}
         /\ active \subseteq {"srecv", "timer"}
<1>1. stage \in {"init", "handshake", "error", "resolve"}
  BY DEF IndInv, TypeOK, Shape, Stages
<1>2. net = "none" /\ why = "none" /\ active \subseteq {"srecv", "timer"}
  BY <1>1 DEF IndInv, Shape
<1>. QED
  BY <1>1, <1>2 DEF IndInv, UpAccount, DnAccount

\* Giving up before there is a remote leaves nothing behind, whatever the handler has
\* done to its buffers by then.
LEMMA GivingUpKeeps ==
  ASSUME IndInv, conn = "open", ~remote,
         NEW w \in {"malformed", "rejected", "connect"}, CloseServer(w),
         UNCHANGED <<session, peers, net, rRead, connected, output>>,
         stage' \in Stages \ {"init"}, fastOpen' \in {fastOpen, FALSE},
         cRead' \in 0..cSent,
         dec' \in Nat, dec' >= IvLen, dec' = IvLen \/ dec' <= cSent,
         sbuf' \in Buffer, rbuf' \in Buffer, hlen' \in Nat
  PROVE  IndInv'
<1>. USE DEF session, peers, output
<1>1. /\ conn' = "closed" /\ query' = FALSE /\ why' = w /\ remote' = FALSE
      /\ active' = active \ ServerWatchers
  BY DEF CloseServer, IndInv, TypeOK
<1>2. active' = {}
  <2>1. active \subseteq {"srecv", "timer"}
    BY Unconnected
  <2>. QED
    BY <1>1, <2>1 DEF ServerWatchers
<1>3. TypeOK'
  BY <1>1, <1>2 DEF IndInv, TypeOK, Reasons
<1>4. Shape' /\ NoOrphans' /\ UpAccount' /\ DnAccount' /\ DirectionsAlternate'
  <2>1. kind' = "ip" => ~fastOpen'
    BY DEF IndInv, Shape
  <2>2. Shape'
    BY <1>1, <2>1 DEF Shape
  <2>. QED
    BY <1>1, <1>2, <2>2 DEF NoOrphans, UpAccount, DnAccount, DirectionsAlternate
<1>5. UpInOrder' /\ DnInOrder' /\ GracefulEof' /\ NothingOverwritten'
  BY <1>1, <1>2 DEF IndInv, UpInOrder, DnInOrder, GracefulEof, NothingOverwritten
<1>. QED
  BY <1>3, <1>4, <1>5 DEF IndInv

\* A connect begins with the first s payload bytes in the SYN, and the buffer the write
\* watcher finds continues where they end.
LEMMA DialedKeeps ==
  ASSUME IndInv, conn = "open", ~remote,
         NEW buf \in Buffer, buf.base = Header, buf.idx = 0, Header + buf.len = dec',
         NEW s \in 0..buf.len, NEW from \in Nat, s < buf.len => from = Header + s,
         upOut' = upOut \o Front(buf, s),
         fastOpen' \in {fastOpen, FALSE},
         rbuf' = IF s < buf.len THEN Buf(from, buf.len - s) ELSE Buf(0, 0),
         sbuf' = [buf EXCEPT !.idx = IF s = buf.len THEN s ELSE 0, !.len = 0],
         net' = "connecting", connected' = FALSE, remote' = TRUE, query' = FALSE,
         active' = {"rsend", "timer"}, stage' \in {"parse", "resolve"},
         UNCHANGED <<session, peers, conn, why, rRead, dnOut>>,
         cRead' \in 0..cSent,
         dec' \in Nat, dec' >= IvLen, dec' = IvLen \/ dec' <= cSent, hlen' \in Nat
  PROVE  IndInv'
<1>. USE DEF session, peers
<1>1. /\ upOut = <<>> /\ dnOut = <<>> /\ rRead = 0 /\ net = "none" /\ rSent = 0
      /\ why = "none"
  BY Unconnected
<1>2. Header \in Nat /\ buf.len \in Nat /\ s \in Nat /\ s <= buf.len
  BY LengthsAssumption DEF Header, Buffer
<1>3. Len(upOut) = 0 /\ Header + Len(upOut) = Header
  BY <1>1, <1>2, EmptySeq
<1>4. upOut' \in Seq(Nat) /\ Len(upOut') = s /\ UpInOrder'
  <2>1. buf.base + buf.idx = Header + Len(upOut)
    BY <1>2, <1>3
  <2>2. upOut' = upOut \o Slice(Header + Len(upOut), s)
    BY <2>1 DEF Front
  <2>3. upOut' \in Seq(Nat) /\ Len(upOut') = Len(upOut) + s /\ UpInOrder'
    BY <1>2, <2>2, UpGrows DEF IndInv, TypeOK
  <2>. QED
    BY <1>2, <1>3, <2>3
<1>5. sbuf' \in Buffer
  <2> DEFINE i == IF s = buf.len THEN s ELSE 0
             b1 == [buf EXCEPT !.idx = i]
  <2>1. i \in Nat
    BY <1>2
  <2> HIDE DEF i
  <2>2. b1 \in Buffer
    BY <2>1 DEF Buffer
  <2>3. sbuf' = [b1 EXCEPT !.len = 0]
    BY DEF i
  <2> HIDE DEF b1
  <2>. QED
    BY <2>2, <2>3 DEF Buffer
<1>6. /\ rbuf' \in Buffer /\ rbuf'.len = buf.len - s
      /\ rbuf'.len > 0 => rbuf'.base + rbuf'.idx = Header + s
  <2>1. CASE s < buf.len
    <3>1. rbuf' = Buf(Header + s, buf.len - s) /\ Header + s \in Nat
          /\ buf.len - s \in Nat /\ Header + s + 0 = Header + s
      BY <1>2, <2>1
    <3>. QED
      BY <3>1 DEF Buf, Buffer
  <2>2. CASE s = buf.len
    BY <1>2, <2>2 DEF Buf, Buffer
  <2>. QED
    BY <1>2, <2>1, <2>2
<1>7. TypeOK'
  <2>1. active' \subseteq ServerWatchers \cup RemoteWatchers /\ stage' \in Stages
    BY DEF ServerWatchers, RemoteWatchers, Stages
  <2>. QED
    BY <1>1, <1>4, <1>5, <1>6, <2>1 DEF IndInv, TypeOK
<1>8. Shape' /\ NoOrphans' /\ DirectionsAlternate' /\ NothingOverwritten'
  <2>1. kind' = "ip" => ~fastOpen'
    BY DEF IndInv, Shape
  <2>2. Shape'
    BY <1>1, <2>1 DEF Shape
  <2>3. NoOrphans' /\ DirectionsAlternate' /\ NothingOverwritten'
    BY DEF NoOrphans, DirectionsAlternate, NothingOverwritten
  <2>. QED
    BY <2>2, <2>3
<1>9. DnAccount' /\ DnInOrder' /\ GracefulEof'
  BY <1>1 DEF IndInv, DnAccount, DnInOrder, GracefulEof
<1>10. UpAccount'
  <2>1. Header + Len(upOut') + rbuf'.len = dec'
    BY <1>2, <1>4, <1>6
  <2>2. rbuf'.len > 0 => rbuf'.base + rbuf'.idx = Header + Len(upOut')
    BY <1>4, <1>6
  <2>. QED
    BY <2>1, <2>2 DEF UpAccount
<1>. QED
  BY <1>4, <1>7, <1>8, <1>9, <1>10 DEF IndInv

\* The name is asked for, and the payload waits in the buffer meanwhile.
LEMMA AskingKeeps ==
  ASSUME IndInv, conn = "open", ~remote,
         NEW n \in Nat, sbuf' = Buf(Header, n), Header + n = dec',
         stage' = "resolve", query' = TRUE, active' = {"timer"},
         UNCHANGED <<session, peers, net, rRead, connected, fastOpen, rbuf, output,
                     conn, remote, why>>,
         cRead' \in 0..cSent,
         dec' \in Nat, dec' >= IvLen, dec' = IvLen \/ dec' <= cSent, hlen' \in Nat
  PROVE  IndInv'
<1>. USE DEF session, peers, output
<1>1. /\ upOut = <<>> /\ dnOut = <<>> /\ rRead = 0 /\ net = "none" /\ rSent = 0
      /\ why = "none"
  BY Unconnected
<1>2. Header \in Nat
  BY LengthsAssumption DEF Header
<1>3. /\ sbuf' \in Buffer /\ sbuf'.base = Header /\ sbuf'.idx = 0
      /\ sbuf'.base + sbuf'.len = dec'
  BY <1>2 DEF Buf, Buffer
<1>4. TypeOK'
  BY <1>1, <1>3 DEF IndInv, TypeOK, ServerWatchers, Stages
<1>5. Shape' /\ UpAccount' /\ DnAccount'
  BY <1>1, <1>3 DEF IndInv, Shape, UpAccount, DnAccount
<1>6. NoOrphans' /\ DirectionsAlternate' /\ NothingOverwritten'
  BY DEF NoOrphans, DirectionsAlternate, NothingOverwritten
<1>7. UpInOrder' /\ DnInOrder' /\ GracefulEof'
  BY <1>1 DEF IndInv, UpInOrder, DnInOrder, GracefulEof
<1>. QED
  BY <1>4, <1>5, <1>6, <1>7 DEF IndInv

\* Whatever the header turns out to be.
LEMMA ParseKeeps ==
  ASSUME IndInv, conn = "open", stage \in {"init", "handshake"},
         NEW n \in Nat, Parse(n), IvLen + n = dec',
         UNCHANGED <<session, peers, rRead, dnOut>>,
         cRead' \in 0..cSent,
         dec' \in Nat, dec' >= IvLen, dec' = IvLen \/ dec' <= cSent, hlen' \in Nat
  PROVE  IndInv'
<1>1. active = {"srecv", "timer"} /\ ~remote /\ ~query /\ remote = FALSE /\ query = FALSE
  BY DEF IndInv, TypeOK, Shape
<1>2. /\ HdrLen \in Nat /\ IvLen \in Nat /\ Header \in Nat /\ rbuf \in Buffer
      /\ Buf(IvLen, n) \in Buffer
  BY LengthsAssumption DEF IndInv, TypeOK, Header, Buf, Buffer
<1>3. {"parse", "resolve"} \subseteq Stages \ {"init"}
  BY DEF Stages
<1>4. CASE /\ stage' = "parse" /\ (CloseServer("malformed") \/ CloseServer("rejected"))
           /\ sbuf' = Buf(IvLen, n)
           /\ UNCHANGED <<net, connected, fastOpen, rbuf, upOut>>
  BY <1>1, <1>2, <1>3, <1>4, GivingUpKeeps DEF output
<1>5. ASSUME n >= HdrLen
      PROVE  /\ n - HdrLen \in Nat /\ Header + (n - HdrLen) = dec'
             /\ Buf(Header, n - HdrLen) \in Buffer
  <2>1. n - HdrLen \in Nat
    BY <1>2, <1>5
  <2>2. Header + (n - HdrLen) = dec'
    BY <1>2, <2>1 DEF Header
  <2>. QED
    BY <1>2, <2>1, <2>2 DEF Buf, Buffer
<1>6. CASE /\ n >= HdrLen /\ kind = "ip"
           /\ stage' = "parse" /\ Dial(Buf(Header, n - HdrLen), "array")
  <2> DEFINE buf == Buf(Header, n - HdrLen)
  <2>1. /\ buf \in Buffer /\ buf.base = Header /\ buf.idx = 0 /\ Header + buf.len = dec'
        /\ buf.len \in Nat
    BY <1>5, <1>6 DEF Buf
  <2>2. fastOpen = FALSE
    BY <1>6 DEF IndInv, TypeOK, Shape
  <2>3. Dial(buf, "array")
    BY <1>6
  <2> HIDE DEF buf
  <2>4. CASE /\ CloseServer("connect") /\ sbuf' = buf /\ fastOpen' \in {fastOpen, FALSE}
             /\ UNCHANGED <<net, connected, rbuf, upOut>>
    BY <1>1, <1>2, <1>3, <1>6, <2>1, <2>4, GivingUpKeeps DEF output
  <2>5. CASE /\ upOut' = upOut \o Front(buf, 0)
             /\ fastOpen' \in {fastOpen, FALSE}
             /\ rbuf' = IF 0 < buf.len THEN Buf(buf.base, buf.len - 0) ELSE Buf(0, 0)
             /\ sbuf' = [buf EXCEPT !.idx = IF 0 = buf.len THEN 0 ELSE 0, !.len = 0]
             /\ net' = "connecting" /\ connected' = FALSE /\ remote' = TRUE
             /\ Swap("srecv", "rsend") /\ query' = FALSE
             /\ UNCHANGED <<conn, why>>
    <3>1. 0 \in 0..buf.len /\ (0 < buf.len => buf.base = Header + 0) /\ buf.base \in Nat
      BY <1>2, <2>1
    <3>2. active' = {"rsend", "timer"}
      BY <1>1, <2>5 DEF Swap
    <3>. QED
      BY <1>1, <1>6, <2>1, <2>5, <3>1, <3>2, DialedKeeps
  <2>. QED
    BY <2>2, <2>3, <2>4, <2>5 DEF Dial, FromArray
<1>7. CASE /\ n >= HdrLen /\ kind = "name"
           /\ stage' = "resolve" /\ query' = TRUE
           /\ active' = active \ {"srecv"}
           /\ sbuf' = Buf(Header, n - HdrLen)
           /\ UNCHANGED <<conn, remote, why, net, connected, fastOpen, rbuf, upOut>>
  <2>1. active' = {"timer"}
    BY <1>1, <1>7
  <2>. QED
    BY <1>1, <1>5, <1>7, <2>1, AskingKeeps DEF output
<1>. QED
  BY <1>4, <1>6, <1>7 DEF Parse

\* The first decoded bytes: parsed, gathered or refused.
LEMMA RecvFirstKeeps ==
  ASSUME IndInv, NEW d \in frames \cup {IvLen}, RecvFirst(d)
  PROVE  IndInv'
<1>1. Decodes(d) /\ Receives /\ d > dec /\ stage = "init"
  BY DEF RecvFirst, Decodes
<1>2. conn = "open" /\ cRead' \in 0..cSent /\ UNCHANGED <<session, peers, rRead, dnOut>>
  BY <1>1, Reads
<1>3. /\ d \in Nat /\ d >= IvLen /\ (d = IvLen \/ d <= cSent) /\ dec' = d
      /\ dec = IvLen /\ IvLen \in Nat
  BY <1>1, <1>2, Decoded, LengthsAssumption DEF IndInv, UpAccount
<1>4. d - dec \in Nat /\ IvLen + (d - dec) = dec' /\ d - dec = dec' - IvLen
  BY <1>1, <1>3
<1>5. rbuf \in Buffer /\ hlen \in Nat
  BY DEF IndInv, TypeOK
<1>6. CASE Parse(d - dec) /\ hlen' = hlen
  BY <1>1, <1>2, <1>3, <1>4, <1>5, <1>6, ParseKeeps
<1>7. CASE /\ Verdict(d - dec) # 1
           /\ stage' = IF Verdict(d - dec) = 0 THEN "handshake" ELSE "error"
           /\ hlen' = IF Verdict(d - dec) = 0 THEN d - dec ELSE 0
           /\ sbuf' = Buf(d, 0)
           /\ UNCHANGED <<net, lifecycle, connected, fastOpen, rbuf, upOut>>
  <2>1. sbuf' \in Buffer
    BY <1>3, <1>7 DEF Buf, Buffer
  <2>2. /\ stage' \in {"init", "handshake", "error"} /\ stage' # "init"
        /\ hlen' \in Nat /\ (stage' = "handshake" => hlen' = dec' - IvLen)
    BY <1>4, <1>7
  <2>. QED
    BY <1>1, <1>2, <1>3, <1>5, <1>7, <2>1, <2>2, GatheringKeeps DEF output
<1>. QED
  BY <1>6, <1>7 DEF RecvFirst

\* Later pieces of a header: parsed, gathered or refused.
LEMMA RecvMoreKeeps ==
  ASSUME IndInv, NEW d \in frames \cup {IvLen}, RecvMore(d)
  PROVE  IndInv'
<1>1. Decodes(d) /\ Receives /\ d > dec /\ stage = "handshake"
  BY DEF RecvMore, Decodes
<1>2. conn = "open" /\ cRead' \in 0..cSent /\ UNCHANGED <<session, peers, rRead, dnOut>>
  BY <1>1, Reads
<1>3. /\ d \in Nat /\ d >= IvLen /\ (d = IvLen \/ d <= cSent) /\ dec' = d
      /\ dec \in Nat /\ dec >= IvLen /\ hlen = dec - IvLen /\ IvLen \in Nat
  BY <1>1, <1>2, Decoded, LengthsAssumption DEF IndInv, UpAccount
<1>4. /\ hlen + (d - dec) \in Nat /\ IvLen + (hlen + (d - dec)) = dec'
      /\ hlen + (d - dec) = dec' - IvLen
  BY <1>1, <1>3
<1>5. rbuf \in Buffer /\ 0 \in Nat
  BY DEF IndInv, TypeOK
<1>6. CASE Parse(hlen + (d - dec)) /\ hlen' = 0
  BY <1>1, <1>2, <1>3, <1>4, <1>5, <1>6, ParseKeeps
<1>7. CASE /\ stage' \in {"handshake", "error"} /\ hlen' = hlen + (d - dec)
           /\ sbuf' = Buf(d, 0)
           /\ UNCHANGED <<net, lifecycle, connected, fastOpen, rbuf, upOut>>
  <2>1. sbuf' \in Buffer
    BY <1>3, <1>7 DEF Buf, Buffer
  <2>2. /\ stage' \in {"init", "handshake", "error"} /\ stage' # "init"
        /\ hlen' \in Nat /\ (stage' = "handshake" => hlen' = dec' - IvLen)
    BY <1>4, <1>7
  <2>. QED
    BY <1>1, <1>2, <1>3, <1>5, <1>7, <2>1, <2>2, GatheringKeeps DEF output
<1>. QED
  BY <1>6, <1>7 DEF RecvMore

\* An answered query leads to a connect that carries the held payload on.
LEMMA ResolveAnswersKeeps == IndInv /\ ResolveAnswers => IndInv'
<1>. SUFFICES ASSUME IndInv, ResolveAnswers PROVE IndInv'
  OBVIOUS
<1>. USE DEF reading
<1>1. /\ query /\ Dial(sbuf, "idx")
      /\ UNCHANGED <<session, peers, reading, stage, hlen, dnOut>>
  BY DEF ResolveAnswers
<1>2. conn = "open" /\ ~remote /\ active = {"timer"} /\ stage = "resolve"
  BY <1>1, Waiting
<1>3. /\ sbuf \in Buffer /\ sbuf.base = Header /\ sbuf.idx = 0 /\ Header + sbuf.len = dec'
      /\ sbuf.len \in Nat /\ Header \in Nat
  BY <1>1, <1>2, LengthsAssumption DEF IndInv, TypeOK, UpAccount, Buffer, Header
<1>4. /\ dec' \in Nat /\ dec' >= IvLen /\ (dec' = IvLen \/ dec' <= cSent)
      /\ cRead' \in 0..cSent /\ hlen' \in Nat /\ rbuf \in Buffer /\ fastOpen \in BOOLEAN
      /\ stage' \in {"parse", "resolve"} /\ stage' \in Stages \ {"init"}
  BY <1>1, <1>2 DEF IndInv, TypeOK, Stages
<1>5. CASE /\ CloseServer("connect") /\ sbuf' = sbuf /\ fastOpen' \in {fastOpen, FALSE}
           /\ UNCHANGED <<net, connected, rbuf, upOut>>
  BY <1>1, <1>2, <1>3, <1>4, <1>5, GivingUpKeeps DEF output
<1>6. ASSUME NEW s \in 0..sbuf.len,
             /\ upOut' = upOut \o Front(sbuf, s)
             /\ fastOpen' \in {fastOpen} \cup (IF s = 0 THEN {FALSE} ELSE {})
             /\ rbuf' = IF s < sbuf.len THEN Buf(FromIdx(sbuf, s), sbuf.len - s)
                                        ELSE Buf(0, 0)
             /\ sbuf' = [sbuf EXCEPT !.idx = IF s = sbuf.len THEN s ELSE 0, !.len = 0]
             /\ net' = "connecting" /\ connected' = FALSE /\ remote' = TRUE
             /\ Swap("srecv", "rsend") /\ query' = FALSE
             /\ UNCHANGED <<conn, why>>
      PROVE  IndInv'
  <2>1. fastOpen' \in {fastOpen, FALSE}
    BY <1>6
  <2>2. active' = {"rsend", "timer"}
    BY <1>2, <1>6 DEF Swap
  <2>3. FromIdx(sbuf, s) \in Nat /\ FromIdx(sbuf, s) = Header + s
    BY <1>3 DEF FromIdx
  <2>. QED
    BY <1>1, <1>2, <1>3, <1>4, <1>6, <2>1, <2>2, <2>3, DialedKeeps
<1>7. (\E s \in (IF fastOpen THEN 0..sbuf.len ELSE {0}) :
             /\ upOut' = upOut \o Front(sbuf, s)
             /\ fastOpen' \in {fastOpen} \cup (IF s = 0 THEN {FALSE} ELSE {})
             /\ rbuf' = IF s < sbuf.len THEN Buf(FromIdx(sbuf, s), sbuf.len - s)
                                        ELSE Buf(0, 0)
             /\ sbuf' = [sbuf EXCEPT !.idx = IF s = sbuf.len THEN s ELSE 0, !.len = 0]
             /\ net' = "connecting" /\ connected' = FALSE /\ remote' = TRUE
             /\ Swap("srecv", "rsend") /\ query' = FALSE
             /\ UNCHANGED <<conn, why>>) => IndInv'
  <2>1. (IF fastOpen THEN 0..sbuf.len ELSE {0}) \subseteq 0..sbuf.len
    BY <1>3, <1>4
  <2>. QED
    BY <1>6, <2>1
<1>. QED
  BY <1>1, <1>5, <1>7 DEF Dial

-----------------------------------------------------------------------------
(* Every step, and the theorems.                                           *)

\* Every way server_recv_cb can end keeps the invariant.
LEMMA ServerRecvKeeps == IndInv /\ ServerRecv => IndInv'
<1>. SUFFICES ASSUME IndInv, ServerRecv PROVE IndInv'
  OBVIOUS
<1>1. CASE RecvDiscards \/ RecvWaitsForIv
  BY <1>1, RecvDiscardsKeeps, RecvWaitsForIvKeeps
<1>2. CASE RecvEof \/ RecvFails
  BY <1>2, RecvClosesKeeps
<1>3. ASSUME NEW d \in frames \cup {IvLen},
             RecvNoFrame(d) \/ RecvFirst(d) \/ RecvMore(d) \/ RecvStream(d)
      PROVE  IndInv'
  BY <1>3, RecvNoFrameKeeps, RecvFirstKeeps, RecvMoreKeeps, RecvStreamKeeps
<1>. QED
  BY <1>1, <1>2, <1>3 DEF ServerRecv

\* Every step keeps the invariant.
LEMMA NextKeeps == IndInv /\ [Next]_vars => IndInv'
<1>. SUFFICES ASSUME IndInv, [Next]_vars PROVE IndInv'
  OBVIOUS
<1>1. CASE Environment
  BY <1>1, EnvironmentKeeps
<1>2. CASE ServerRecv
  BY <1>2, ServerRecvKeeps
<1>3. CASE ResolveAnswers \/ ResolveFails
  BY <1>3, ResolveAnswersKeeps, ResolveFailsKeeps
<1>4. CASE RemoteSendCb \/ RemoteSend(0)
  <2>1. \A s \in 1..rbuf.len : s \in Nat
    BY DEF IndInv, TypeOK, Buffer
  <2>2. ASSUME NEW s \in 1..rbuf.len, RemoteSend(s) PROVE IndInv'
    BY <2>1, <2>2, RemoteSendKeeps
  <2>3. CASE RemoteSend(0)
    BY <2>3, RemoteSendKeeps
  <2>4. CASE RemoteReady \/ RemoteRefused
    BY <2>4, RemoteReadyKeeps, RemoteClosesKeeps
  <2>. QED
    BY <1>4, <2>2, <2>3, <2>4 DEF RemoteSendCb
<1>5. CASE RemoteRecv
  BY <1>5, RemoteRecvKeeps
<1>6. CASE RemoteSendGivesUp \/ RemoteRecvEof \/ RemoteRecvFails \/ Timeout \/ Shutdown
  BY <1>6, RemoteClosesKeeps
<1>7. CASE ServerSendCb
  <2>1. \A s \in 1..sbuf.len : s \in Nat
    BY DEF IndInv, TypeOK, Buffer
  <2>. QED
    BY <1>7, <2>1, ServerSendKeeps DEF ServerSendCb
<1>8. CASE ServerSendGivesUp
  BY <1>8, ServerSendGivesUpKeeps
<1>9. CASE UNCHANGED vars
  BY <1>9 DEF vars, session, peers, reading, lifecycle, buffers, output, IndInv, TypeOK,
     Shape, UpAccount, DnAccount, UpInOrder, DnInOrder, DirectionsAlternate,
     NothingOverwritten, NoOrphans, GracefulEof, Enciphered
<1>. QED
  BY <1>1, <1>2, <1>3, <1>4, <1>5, <1>6, <1>7, <1>8, <1>9 DEF Next, Environment

\* The invariant holds in every state of every session that does not combine an address
\* in the header with tcp fast open, whatever the lengths, the framing and the order of
\* the handlers (server.c as a whole).
THEOREM Inductive == SafeClients /\ Spec => []IndInv
<1>1. SafeClients /\ Init => IndInv
  BY InitKeeps
<1>2. IndInv /\ [Next]_vars => IndInv'
  BY NextKeeps
<1>. QED
  BY <1>1, <1>2, PTL DEF Spec

\* The variables keep to what server.h and server.c let them hold.
THEOREM TypeCorrect == SafeClients /\ Spec => []TypeOK
<1>1. IndInv => TypeOK
  BY DEF IndInv
<1>. QED
  BY <1>1, Inductive, PTL

\* Both streams are delivered in order, without a gap and without a repetition
\* (connect_to_remote, server_recv_cb, server_resolve_cb and the four I/O callbacks).
THEOREM StreamsInOrder == SafeClients /\ Spec => [](UpInOrder /\ DnInOrder)
<1>1. IndInv => UpInOrder /\ DnInOrder
  BY DEF IndInv
<1>. QED
  BY <1>1, Inductive, PTL

\* No handler reads over bytes that are not out yet, and a write watcher that runs has
\* something to write (the ev_io_stop and ev_io_start pairs of the I/O callbacks).
THEOREM BuffersSafe == SafeClients /\ Spec => [](NothingOverwritten /\ WritersHaveData)
<1>1. IndInv => NothingOverwritten /\ WritersHaveData
  <2>. SUFFICES ASSUME IndInv PROVE WritersHaveData
    BY DEF IndInv
  <2>1. ASSUME "rsend" \in active, connected PROVE rbuf.len > 0
    BY <2>1, SendsUp DEF IndInv, UpAccount
  <2>2. ASSUME "ssend" \in active PROVE sbuf.len > 0
    BY <2>2, SendsDown DEF IndInv, DnAccount
  <2>. QED
    BY <2>1, <2>2 DEF WritersHaveData
<1>. QED
  BY <1>1, Inductive, PTL

\* A freed server_t leaves no watcher, no remote_t and no query behind
\* (close_and_free_server and close_and_free_remote on every path).
THEOREM NothingOutlives == SafeClients /\ Spec => []NoOrphans
<1>1. IndInv => NoOrphans
  BY DEF IndInv
<1>. QED
  BY <1>1, Inductive, PTL

\* A destination that closes in good order has had all of its bytes passed on
\* (remote_recv_cb closes on end of file without looking at server->buf).
THEOREM NothingLostAtEof == SafeClients /\ Spec => []GracefulEof
<1>1. IndInv => GracefulEof
  BY DEF IndInv
<1>. QED
  BY <1>1, Inductive, PTL

-----------------------------------------------------------------------------
(***************************************************************************)
(* The relay implements the pair of pipes of RelayPipe: every handler is   *)
(* one step of the pipes or none, for all lengths and framings.            *)
(***************************************************************************)

-----------------------------------------------------------------------------
(* What is out never exceeds what its writer has written.                  *)

\* What is out is never ahead of what the client wrote.
LEMMA UpWithin ==
  IndInv => (conn = "open" /\ remote => Header + Len(upOut) <= cSent)
<1>. SUFFICES ASSUME IndInv, conn = "open", remote
              PROVE  Header + Len(upOut) <= cSent
  OBVIOUS
<1>1. /\ Header \in Nat /\ IvLen \in Nat /\ Header > IvLen /\ Len(upOut) \in Nat
      /\ dec \in Nat /\ (dec = IvLen \/ dec <= cSent) /\ cSent \in Nat
  BY LengthsAssumption, LenProperties DEF Header, IndInv, TypeOK
<1>2. Header + Len(upOut) <= dec
  <2>1. stage \in {"parse", "resolve", "stream"}
    BY DEF IndInv, TypeOK, Shape, Stages
  <2>2. "rsend" \in active \/ ("srecv" \in active /\ stage = "stream")
    BY <2>1 DEF IndInv, Shape, DirectionsAlternate
  <2>3. CASE "rsend" \in active
    <3>1. Header + Len(upOut) + rbuf.len = dec /\ rbuf.len \in Nat
      BY <2>3 DEF IndInv, TypeOK, UpAccount, Buffer
    <3>. QED
      BY <1>1, <3>1
  <2>4. CASE "srecv" \in active /\ stage = "stream"
    BY <1>1, <2>4 DEF IndInv, NothingOverwritten
  <2>. QED
    BY <2>2, <2>3, <2>4
<1>. QED
  BY <1>1, <1>2

\* More bytes from the destination give more bytes for the client.
LEMMA EncipheredGrows ==
  ASSUME NEW a \in Nat, NEW b \in Nat, a <= b
  PROVE  /\ Enciphered(a) \in Nat /\ Enciphered(b) \in Nat
         /\ Enciphered(a) <= Enciphered(b)
         /\ a < b => Enciphered(a) < Enciphered(b)
  BY LengthsAssumption DEF Enciphered

\* What the client was sent is never ahead of what the destination wrote.
LEMMA DnWithin ==
  IndInv => (conn = "open" /\ stage = "stream" => Len(dnOut) <= Enciphered(rSent))
<1>. SUFFICES ASSUME IndInv, conn = "open", stage = "stream"
              PROVE  Len(dnOut) <= Enciphered(rSent)
  OBVIOUS
<1>1. rRead \in Nat /\ rSent \in Nat /\ rRead <= rSent /\ Len(dnOut) \in Nat
  BY LengthsAssumption, LenProperties DEF IndInv, TypeOK
<1>2. Len(dnOut) <= Enciphered(rRead)
  <2>1. CASE "rrecv" \in active
    BY <1>1, <2>1 DEF IndInv, NothingOverwritten
  <2>2. CASE "ssend" \in active
    <3>1. Len(dnOut) + sbuf.len = Enciphered(rRead) /\ sbuf.len \in Nat
      BY <2>2 DEF IndInv, TypeOK, DnAccount, Buffer
    <3>. QED
      BY <1>1, <3>1
  <2>. QED
    BY <2>1, <2>2 DEF IndInv, DirectionsAlternate
<1>. QED
  BY <1>1, <1>2, EncipheredGrows

\* The same of the next state.
LEMMA WithinNext ==
  IndInv' => /\ conn' = "open" /\ remote' => (Header + Len(upOut) <= cSent)'
             /\ conn' = "open" /\ stage' = "stream" => (Len(dnOut) <= Enciphered(rSent))'
<1>1. IndInv' => (conn = "open" /\ remote => Header + Len(upOut) <= cSent)'
  BY UpWithin, PTL
<1>2. IndInv' => (conn = "open" /\ stage = "stream" => Len(dnOut) <= Enciphered(rSent))'
  BY DnWithin, PTL
<1>. QED
  BY <1>1, <1>2

-----------------------------------------------------------------------------
(* The steps of the pipes.                                                 *)

\* Bytes that continue the upward stream, or the end of the opening, are a delivery.
LEMMA DeliversUp ==
  ASSUME IndInv, IndInv', conn = "open", conn' = "open", remote',
         stage' \in {stage, "parse", "resolve", "stream"}, stage = "stream" => stage' = stage,
         NEW n \in Nat, upOut' = upOut \o Slice(Header + Len(upOut), n),
         UNCHANGED <<cSent, rSent, dnOut>>
  PROVE  Pipe!Next
<1>1. Header \in Nat /\ Len(upOut) \in Nat /\ cSent \in Nat
  BY LengthsAssumption, LenProperties DEF Header, IndInv, TypeOK
<1>2. Len(upOut') = Len(upOut) + n
  BY UpGrows DEF IndInv, TypeOK
<1>3. Header + Len(upOut') <= cSent
  <2>1. (Header + Len(upOut) <= cSent)'
    BY WithinNext
  <2>. QED
    BY <2>1 DEF Header
<1>4. n \in 0..cSent /\ Header + Len(upOut) + n <= cSent
  BY <1>1, <1>2, <1>3
<1>5. upOut' = upOut \o Pipe!Slice(Header + Len(upOut), n)
  BY DEF Slice, Pipe!Slice
<1>6. Phase # "closed" /\ Phase' \in {Phase, "open"}
  BY DEF Phase
<1>7. UNCHANGED <<cSent, Enciphered(rSent), dnOut>>
  BY DEF Enciphered
<1>8. Pipe!DeliverUp
  BY <1>4, <1>5, <1>6, <1>7 DEF Pipe!DeliverUp
<1>. QED
  BY <1>8 DEF Pipe!Next

\* Extending the client's stream is the pipe's DeliverDown.
LEMMA DeliversDown ==
  ASSUME IndInv, IndInv', conn = "open", conn' = "open", stage = "stream", stage' = "stream",
         NEW n \in Nat, dnOut' = dnOut \o Slice(Len(dnOut), n),
         UNCHANGED <<cSent, rSent, upOut>>
  PROVE  Pipe!Next
<1>1. Len(dnOut) \in Nat /\ rSent \in Nat /\ Enciphered(rSent) \in Nat
  <2>1. Len(dnOut) \in Nat /\ rSent \in Nat
    BY LengthsAssumption, LenProperties DEF IndInv, TypeOK
  <2>2. rSent <= rSent
    BY <2>1
  <2>. QED
    BY <2>1, <2>2, EncipheredGrows
<1>2. Len(dnOut') = Len(dnOut) + n
  BY DnGrows DEF IndInv, TypeOK
<1>3. Len(dnOut') <= Enciphered(rSent)
  <2>1. (Len(dnOut) <= Enciphered(rSent))'
    BY WithinNext
  <2>. QED
    BY <2>1 DEF Enciphered
<1>4. n \in 0..Enciphered(rSent) /\ Len(dnOut) + n <= Enciphered(rSent)
  BY <1>1, <1>2, <1>3
<1>5. dnOut' = dnOut \o Pipe!Slice(Len(dnOut), n)
  BY DEF Slice, Pipe!Slice
<1>6. Phase = "open" /\ Phase' = Phase
  BY DEF Phase
<1>7. UNCHANGED <<cSent, Enciphered(rSent), upOut>>
  BY DEF Enciphered
<1>8. Pipe!DeliverDown
  BY <1>4, <1>5, <1>6, <1>7 DEF Pipe!DeliverDown
<1>. QED
  BY <1>8 DEF Pipe!Next

\* A handler that moves nothing from end to end is a step of neither pipe.
LEMMA Stutters ==
  ASSUME conn' = conn, stage = "stream" <=> stage' = "stream",
         UNCHANGED <<cSent, rSent, upOut, dnOut>>
  PROVE  UNCHANGED Pipe!vars
  BY DEF Phase, Enciphered, Pipe!vars

\* Freeing the server is the pipe's Close.
LEMMA Closes ==
  ASSUME conn' = "closed", UNCHANGED <<cSent, rSent, upOut, dnOut>>
  PROVE  Pipe!Next
  BY DEF Phase, Enciphered, Pipe!Close, Pipe!Next

-----------------------------------------------------------------------------
(* The steps of the relay.                                                 *)

\* A write of either program moves the end of its stream; nothing else of theirs shows.
LEMMA EnvironmentSteps == IndInv /\ Environment => Pipe!Next \/ UNCHANGED Pipe!vars
<1>. SUFFICES ASSUME IndInv, Environment PROVE Pipe!Next \/ UNCHANGED Pipe!vars
  OBVIOUS
<1>. USE DEF session, peers, reading, lifecycle, buffers, output
<1>1. ASSUME NEW n \in 1..UpTotal, ClientWrites(n) PROVE Pipe!Next
  <2>1. cSent' \in Nat /\ cSent' > cSent
    BY <1>1, LengthsAssumption DEF ClientWrites, IndInv, TypeOK
  <2>2. UNCHANGED <<Phase, upOut, Enciphered(rSent), dnOut>>
    BY <1>1 DEF ClientWrites, Phase, Enciphered
  <2>. QED
    BY <2>1, <2>2 DEF Pipe!ClientWrites, Pipe!Next
<1>2. ASSUME NEW n \in 1..DnTotal, RemoteWrites(n) PROVE Pipe!Next
  <2>1. rSent \in Nat /\ rSent' \in Nat /\ rSent < rSent' /\ rSent <= rSent'
    BY <1>2, LengthsAssumption DEF RemoteWrites, IndInv, TypeOK
  <2>2. Enciphered(rSent') \in Nat /\ Enciphered(rSent) < Enciphered(rSent')
        /\ Enciphered(rSent) \in Nat
    BY <2>1, EncipheredGrows
  <2>3. Enciphered(rSent)' = Enciphered(rSent')
    BY DEF Enciphered
  <2>4. UNCHANGED <<Phase, cSent, upOut, dnOut>>
    BY <1>2 DEF RemoteWrites, Phase
  <2>. QED
    BY <2>2, <2>3, <2>4 DEF Pipe!RemoteWrites, Pipe!Next
<1>3. ASSUME ClientCloses \/ RemoteCloses \/ NetConnects PROVE UNCHANGED Pipe!vars
  BY <1>3, Stutters DEF ClientCloses, RemoteCloses, NetConnects
<1>. QED
  BY <1>1, <1>2, <1>3 DEF Environment

\* The end of a connect delivers what went with the SYN.
LEMMA DialedDelivers ==
  ASSUME IndInv, IndInv', conn = "open", ~remote,
         NEW s \in Nat, NEW buf \in Buffer, buf.base = Header, buf.idx = 0,
         upOut' = upOut \o Front(buf, s), remote' = TRUE, conn' = conn,
         stage' \in {"parse", "resolve"},
         UNCHANGED <<cSent, rSent, dnOut>>
  PROVE  Pipe!Next
<1>1. upOut = <<>> /\ stage # "stream"
  BY Unconnected
<1>2. Header \in Nat /\ Header + 0 = Header /\ Header + Len(upOut) = Header
  BY <1>1, EmptySeq, LengthsAssumption DEF Header
<1>3. upOut' = upOut \o Slice(Header + Len(upOut), s)
  BY <1>2 DEF Front
<1>. QED
  BY <1>1, <1>3, DeliversUp

\* Parsing a header delivers, closes or shows nothing.
LEMMA ParseSteps ==
  ASSUME IndInv, IndInv', conn = "open", stage \in {"init", "handshake"},
         NEW n \in Nat, Parse(n), UNCHANGED <<session, peers, rRead, dnOut>>
  PROVE  Pipe!Next \/ UNCHANGED Pipe!vars
<1>. USE DEF peers
<1>1. ~remote /\ Header \in Nat /\ HdrLen \in Nat
  BY LengthsAssumption DEF IndInv, Shape, Header
<1>2. CASE /\ CloseServer("malformed") \/ CloseServer("rejected")
           /\ UNCHANGED upOut
  BY <1>2, Closes DEF CloseServer
<1>3. CASE n >= HdrLen /\ stage' = "parse" /\ Dial(Buf(Header, n - HdrLen), "array")
  <2> DEFINE buf == Buf(Header, n - HdrLen)
  <2>1. buf \in Buffer /\ buf.base = Header /\ buf.idx = 0 /\ buf.len \in Nat
    BY <1>1, <1>3 DEF Buf, Buffer
  <2>2. Dial(buf, "array") /\ stage' \in {"parse", "resolve"}
    BY <1>3
  <2> HIDE DEF buf
  <2>3. CASE CloseServer("connect") /\ UNCHANGED upOut
    BY <2>3, Closes DEF CloseServer
  <2>4. ASSUME NEW s \in Nat, upOut' = upOut \o Front(buf, s), remote' = TRUE, conn' = conn
        PROVE  Pipe!Next
    BY <1>1, <2>1, <2>2, <2>4, DialedDelivers
  <2>5. \A s \in (IF fastOpen THEN 0..buf.len ELSE {0}) : s \in Nat
    BY <2>1
  <2>6. \/ CloseServer("connect") /\ UNCHANGED upOut
        \/ \E s \in (IF fastOpen THEN 0..buf.len ELSE {0}) :
             upOut' = upOut \o Front(buf, s) /\ remote' = TRUE /\ conn' = conn
    BY <2>2 DEF Dial
  <2>. QED
    BY <2>3, <2>4, <2>5, <2>6
<1>4. CASE stage' = "resolve" /\ UNCHANGED <<conn, upOut>>
  BY <1>4, Stutters
<1>. QED
  BY <1>2, <1>3, <1>4 DEF Parse

\* Every way server_recv_cb can end is a step of the pipe or none.
LEMMA ServerRecvSteps ==
  ASSUME IndInv, IndInv', ServerRecv
  PROVE  Pipe!Next \/ UNCHANGED Pipe!vars
<1>. USE DEF peers, lifecycle, output
<1>1. CASE RecvDiscards \/ RecvWaitsForIv
  BY <1>1, Stutters DEF RecvDiscards, RecvWaitsForIv, Receives
<1>2. CASE RecvEof \/ RecvFails
  BY <1>2, Closes DEF RecvEof, RecvFails, CloseFromRecv, CloseBoth, CloseServer
<1>3. ASSUME NEW d \in frames \cup {IvLen},
             RecvNoFrame(d) \/ RecvFirst(d) \/ RecvMore(d) \/ RecvStream(d)
      PROVE  Pipe!Next \/ UNCHANGED Pipe!vars
  <2>1. Decodes(d) /\ Receives
    BY <1>3 DEF RecvNoFrame, RecvFirst, RecvMore, RecvStream, Decodes
  <2>2. conn = "open" /\ UNCHANGED <<session, peers, rRead, dnOut>>
    BY <2>1, Reads
  <2>3. d \in Nat /\ dec \in Nat /\ dec >= IvLen /\ IvLen \in Nat
    BY <2>1, Decoded, LengthsAssumption
  <2>4. CASE RecvNoFrame(d)
    BY <2>2, <2>4, Stutters DEF RecvNoFrame
  <2>5. CASE RecvFirst(d)
    <3>1. d - dec \in Nat /\ stage = "init"
      BY <2>3, <2>5 DEF RecvFirst
    <3>2. CASE Parse(d - dec)
      BY <2>2, <3>1, <3>2, ParseSteps
    <3>3. CASE stage' \in {"handshake", "error"} /\ UNCHANGED <<lifecycle, upOut>>
      BY <2>2, <3>1, <3>3, Stutters
    <3>. QED
      BY <2>5, <3>2, <3>3 DEF RecvFirst
  <2>6. CASE RecvMore(d)
    <3>1. hlen + (d - dec) \in Nat /\ stage = "handshake"
      BY <2>3, <2>6 DEF RecvMore, IndInv, TypeOK
    <3>2. CASE Parse(hlen + (d - dec))
      BY <2>2, <3>1, <3>2, ParseSteps
    <3>3. CASE stage' \in {"handshake", "error"} /\ UNCHANGED <<lifecycle, upOut>>
      BY <2>2, <3>1, <3>3, Stutters
    <3>. QED
      BY <2>6, <3>2, <3>3 DEF RecvMore
  <2>7. CASE RecvStream(d)
    <3>1. /\ stage = "stream" /\ d - dec \in Nat /\ UNCHANGED <<conn, remote, stage>>
          /\ "srecv" \in active
      BY <2>1, <2>3, <2>7 DEF RecvStream, Receives
    <3>2. PICK s \in 0..Buf(dec, d - dec).len :
            upOut' = upOut \o Front(Buf(dec, d - dec), s)
      BY <2>7 DEF RecvStream
    <3>3. s \in Nat /\ dec + 0 = dec
      BY <2>3, <3>1, <3>2 DEF Buf
    <3>4. Header + Len(upOut) = dec /\ remote
      BY <2>2, <3>1 DEF IndInv, NothingOverwritten, Shape
    <3>5. upOut' = upOut \o Slice(Header + Len(upOut), s)
      BY <3>2, <3>3, <3>4 DEF Front, Buf
    <3>. QED
      BY <2>2, <3>1, <3>3, <3>4, <3>5, DeliversUp
  <2>. QED
    BY <1>3, <2>4, <2>5, <2>6, <2>7
<1>. QED
  BY <1>1, <1>2, <1>3 DEF ServerRecv

\* An answered or failed query delivers, closes or shows nothing.
LEMMA ResolveSteps ==
  ASSUME IndInv, IndInv', ResolveAnswers \/ ResolveFails
  PROVE  Pipe!Next
<1>. USE DEF peers, output
<1>1. CASE ResolveFails
  BY <1>1, Closes DEF ResolveFails, CloseServer
<1>2. CASE ResolveAnswers
  <2>1. /\ query /\ Dial(sbuf, "idx") /\ UNCHANGED <<peers, stage, dnOut>>
    BY <1>2 DEF ResolveAnswers
  <2>2. conn = "open" /\ ~remote /\ stage = "resolve"
    BY <2>1, Waiting
  <2>3. sbuf \in Buffer /\ sbuf.base = Header /\ sbuf.idx = 0 /\ sbuf.len \in Nat
    BY <2>1, <2>2 DEF IndInv, TypeOK, UpAccount, Buffer
  <2>4. ASSUME NEW s \in Nat, upOut' = upOut \o Front(sbuf, s), remote' = TRUE, conn' = conn
        PROVE  Pipe!Next
    BY <2>1, <2>2, <2>3, <2>4, DialedDelivers
  <2>5. \A s \in (IF fastOpen THEN 0..sbuf.len ELSE {0}) : s \in Nat
    BY <2>3
  <2>6. CASE CloseServer("connect") /\ UNCHANGED upOut
    BY <2>1, <2>6, Closes DEF CloseServer
  <2>7. \/ CloseServer("connect") /\ UNCHANGED upOut
        \/ \E s \in (IF fastOpen THEN 0..sbuf.len ELSE {0}) :
             upOut' = upOut \o Front(sbuf, s) /\ remote' = TRUE /\ conn' = conn
    BY <2>1 DEF Dial
  <2>. QED
    BY <2>4, <2>5, <2>6, <2>7
<1>. QED
  BY <1>1, <1>2

\* Sending to the destination delivers upwards, and the first time opens the pipe.
LEMMA RemoteSendSteps ==
  ASSUME IndInv, IndInv', NEW s \in Nat, RemoteSend(s) \/ (s = 0 /\ RemoteReady)
  PROVE  Pipe!Next
<1>. USE DEF peers, output
<1>1. /\ "rsend" \in active /\ UNCHANGED <<peers, conn, remote, dnOut>>
      /\ stage' \in {stage, "stream"}
  BY DEF RemoteSend, RemoteReady
<1>2. conn = "open" /\ remote
  BY <1>1, SendsUp
<1>3. Header + Len(upOut) \in Nat /\ upOut \in Seq(Nat)
  BY LengthsAssumption, LenProperties DEF Header, IndInv, TypeOK
<1>4. upOut' = upOut \o Slice(Header + Len(upOut), s)
  <2>1. CASE RemoteSend(s)
    <3>1. rbuf.base + rbuf.idx = Header + Len(upOut)
      BY <1>2, <2>1 DEF RemoteSend, IndInv, UpAccount
    <3>. QED
      BY <2>1, <3>1 DEF RemoteSend, Front
  <2>2. CASE s = 0 /\ RemoteReady
    BY <1>3, <2>2, EmptySlice DEF RemoteReady
  <2>. QED
    BY <2>1, <2>2
<1>. QED
  BY <1>1, <1>2, <1>4, DeliversUp

\* Reading the destination and sending to the client deliver downwards.
LEMMA DownSteps ==
  ASSUME IndInv, IndInv', RemoteRecv \/ (\E s \in Nat : ServerSend(s))
  PROVE  Pipe!Next
<1>. USE DEF peers
<1>1. UNCHANGED <<peers, conn, stage, upOut>> /\ ("rrecv" \in active \/ "ssend" \in active)
  BY DEF RemoteRecv, ServerSend
<1>2. conn = "open" /\ stage = "stream"
  BY <1>1, SendsDown
<1>3. CASE RemoteRecv
  <2> DEFINE k == Lesser(rSent - rRead, BufSize)
             buf == IF rRead = 0 THEN Buf(0, IvLen + k) ELSE Buf(IvLen + rRead, k)
  <2>1. PICK s \in 0..buf.len : dnOut' = dnOut \o Front(buf, s)
    BY <1>3 DEF RemoteRecv
  <2>2. rRead \in Nat /\ rSent \in Nat /\ IvLen \in Nat /\ k \in Nat
    BY <1>3, LengthsAssumption DEF RemoteRecv, Lesser, IndInv, TypeOK
  <2>3. Len(dnOut) = Enciphered(rRead)
    BY <1>3 DEF RemoteRecv, IndInv, NothingOverwritten
  <2> HIDE DEF k
  <2>4. buf.base + buf.idx = Len(dnOut) /\ buf.len \in Nat
    <3>1. CASE rRead = 0
      BY <2>2, <2>3, <3>1 DEF Buf, Enciphered
    <3>2. CASE rRead # 0
      BY <2>2, <2>3, <3>2 DEF Buf, Enciphered
    <3>. QED
      BY <3>1, <3>2
  <2> HIDE DEF buf
  <2>5. s \in Nat /\ dnOut' = dnOut \o Slice(Len(dnOut), s)
    <3>1. s \in Nat
      BY <2>4
    <3>2. Front(buf, s) = Slice(Len(dnOut), s)
      BY <2>4, Zenon DEF Front
    <3>. QED
      BY <2>1, <3>1, <3>2
  <2>. QED
    BY <1>1, <1>2, <2>5, DeliversDown
<1>4. ASSUME NEW s \in Nat, ServerSend(s) PROVE Pipe!Next
  <2>1. sbuf.base + sbuf.idx = Len(dnOut)
    BY <1>2, <1>4 DEF ServerSend, IndInv, DnAccount
  <2>2. dnOut' = dnOut \o Slice(Len(dnOut), s)
    BY <1>4, <2>1 DEF ServerSend, Front
  <2>. QED
    BY <1>1, <1>2, <2>2, DeliversDown
<1>. QED
  BY <1>3, <1>4

\* Every handler that closes is the pipe's Close.
LEMMA ClosingSteps ==
  ASSUME RemoteRefused \/ RemoteSendGivesUp \/ RemoteRecvEof \/ RemoteRecvFails
           \/ ServerSendGivesUp \/ Timeout \/ Shutdown
  PROVE  Pipe!Next
<1>1. conn' = "closed" /\ UNCHANGED <<cSent, rSent, upOut, dnOut>>
  BY DEF RemoteRefused, RemoteSendGivesUp, RemoteRecvEof, RemoteRecvFails,
         ServerSendGivesUp, Timeout, Shutdown, CloseBoth, CloseServer, peers, output
<1>. QED
  BY <1>1, Closes

\* One connection of server.c is a pair of pipes: what reaches either end is what was
\* written at the other, nothing comes back before the relay is open, and nothing moves
\* once it is closed.
THEOREM Implements == SafeClients /\ Spec => PipeSpec
<1>1. Init => Pipe!Init
  BY DEF Init, Pipe!Init, Phase, Enciphered
<1>2. IndInv /\ IndInv' /\ [Next]_vars => [Pipe!Next]_(Pipe!vars)
  <2>. SUFFICES ASSUME IndInv, IndInv', [Next]_vars
                PROVE  Pipe!Next \/ UNCHANGED Pipe!vars
    OBVIOUS
  <2>1. CASE Environment
    BY <2>1, EnvironmentSteps
  <2>2. CASE ServerRecv
    BY <2>2, ServerRecvSteps
  <2>3. CASE ResolveAnswers \/ ResolveFails
    BY <2>3, ResolveSteps
  <2>4. CASE RemoteSendCb \/ RemoteSend(0)
    <3>1. \A s \in 1..rbuf.len : s \in Nat
      BY DEF IndInv, TypeOK, Buffer
    <3>2. CASE RemoteRefused
      BY <3>2, ClosingSteps
    <3>3. CASE RemoteReady
      BY <3>3, RemoteSendSteps
    <3>4. ASSUME NEW s \in Nat, RemoteSend(s) PROVE Pipe!Next
      BY <3>4, RemoteSendSteps
    <3>. QED
      BY <2>4, <3>1, <3>2, <3>3, <3>4 DEF RemoteSendCb
  <2>5. CASE RemoteRecv \/ ServerSendCb
    <3>1. \A s \in 1..sbuf.len : s \in Nat
      BY DEF IndInv, TypeOK, Buffer
    <3>. QED
      BY <2>5, <3>1, DownSteps DEF ServerSendCb
  <2>6. CASE RemoteSendGivesUp \/ RemoteRecvEof \/ RemoteRecvFails \/ ServerSendGivesUp
               \/ Timeout \/ Shutdown
    BY <2>6, ClosingSteps
  <2>7. CASE UNCHANGED vars
    BY <2>7, Stutters DEF vars, peers, lifecycle, output
  <2>. QED
    BY <2>1, <2>2, <2>3, <2>4, <2>5, <2>6, <2>7 DEF Next, Environment
<1>. QED
  BY <1>1, <1>2, Inductive, PTL DEF Spec, PipeSpec, Pipe!Spec
=============================================================================
