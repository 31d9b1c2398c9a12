------------------------------ MODULE TcpRelay ------------------------------
(***************************************************************************)
(* One relayed connection of ss-server (src/helloworld/shadowsocksr-libev/ *)
(* src/server/server.c): the handlers libev calls for its two sockets, its *)
(* timer and its name query, each of them one action.                      *)
(*                                                                         *)
(* Bytes are positions.  The client's stream is the IV (1..IvLen), the     *)
(* relay header (the next HdrLen) and the payload; decryption maps a byte  *)
(* to itself.  The stream back to the client is the IV ss_encrypt puts in  *)
(* front (1..IvLen) and the destination's bytes.  A buffer_t holds a       *)
(* contiguous piece of one stream: its bytes follow position base, the     *)
(* first idx of them already sent and len of them still held.              *)
(***************************************************************************)
EXTENDS Integers, Sequences

CONSTANTS
  IvLen,        \* enc_get_iv_len()
  HdrLen,       \* the length of this client's relay header
  BufSize,      \* BUF_SIZE
  UpTotal,      \* bound: wire bytes the client may write, IV and header included
  DnTotal,      \* bound: bytes the destination may write
  FirstWrite,   \* the client's first write carries at least this much
  Clients,      \* [kind, fast, frames]: what a session may look like, see Init
  Faults        \* whether sockets fail, peers close, and the timer fires

Kinds == {"ip", "name", "bad"}
Positions == 1..UpTotal
Header == IvLen + HdrLen     \* the last position that is not payload

ASSUME LengthsAssumption ==
  /\ IvLen \in Nat \ {0} /\ HdrLen \in Nat \ {0}
  /\ BufSize \in Nat /\ BufSize > IvLen + 1
  /\ UpTotal \in Nat /\ DnTotal \in Nat
  /\ FirstWrite \in 1..UpTotal

ASSUME ClientsAssumption ==
  /\ Clients \subseteq [kind : Kinds, fast : BOOLEAN, frames : SUBSET Positions]
  /\ Faults \in BOOLEAN

VARIABLES
  kind, frames,          \* the client's header, and where its frames end
  cSent, cEof,           \* what the client has written, and whether it closed
  rSent, rEof,           \* the same for the destination
  net,                   \* the destination's socket: none, connecting, up, failed
  cRead, dec, rRead,     \* read from the client, decoded, read from the destination
  conn,                  \* server_t: "open" until freed, then "closed"
  remote, query,         \* server->remote # NULL, server->query # NULL
  stage,                 \* server->stage
  active,                \* the libev watchers that are started
  connected,             \* remote->send_ctx->connected
  fastOpen,              \* the process's fast_open flag
  sbuf, rbuf,            \* server->buf, remote->buf
  hlen,                  \* server->header_buf->len
  upOut, dnOut,          \* what the kernel took for the destination, the client
  why                    \* why the connection was closed

session   == <<kind, frames>>
peers     == <<cSent, cEof, rSent, rEof>>
reading   == <<cRead, dec, rRead>>
lifecycle == <<conn, remote, query, active, why>>
buffers   == <<sbuf, rbuf, hlen>>
output    == <<upOut, dnOut>>
vars == <<session, peers, net, reading, lifecycle, stage, connected, fastOpen,
          buffers, output>>

ServerWatchers == {"srecv", "ssend", "timer"}
RemoteWatchers == {"rrecv", "rsend"}
Stages == {"error", "init", "handshake", "parse", "resolve", "stream"}
Reasons == {"none", "client_eof", "remote_eof", "error", "malformed", "rejected",
            "connect", "unresolved", "timeout", "shutdown"}
Buffer == [base : Nat, idx : Nat, len : Nat]

Buf(b, n) == [base |-> b, idx |-> 0, len |-> n]
Slice(b, n) == [i \in 1..n |-> b + i]
Lesser(a, b) == IF a < b THEN a ELSE b
\* What a buffer still holds once s more of its bytes are sent.
Sent(buf, s) == [buf EXCEPT !.idx = @ + s, !.len = @ - s]
\* The first s of the bytes a buffer still holds.
Front(buf, s) == Slice(buf.base + buf.idx, s)

\* d is what the protocol plugin has passed on once n wire bytes went in: it
\* hands out whole frames.  Without a plugin every position ends a frame.
LastFrameEnd(n, d) ==
  /\ d \in frames \cup {IvLen} /\ d <= n
  /\ \A f \in frames : f <= n => f <= d

\* The sessions in which nothing is sent from the wrong end of server->buf: an address
\* in the header and tcp fast open do not meet.
SafeClients == \A c \in Clients : c.kind = "ip" => ~c.fast

-----------------------------------------------------------------------------
\* accept_cb and new_server: a fresh connection waits for the client.
Init ==
  /\ \E c \in Clients :
       /\ kind = c.kind /\ fastOpen = c.fast
       /\ frames = {f \in c.frames : f > IvLen}
  /\ cSent = 0 /\ cEof = FALSE /\ rSent = 0 /\ rEof = FALSE /\ net = "none"
  /\ cRead = 0 /\ dec = IvLen /\ rRead = 0
  /\ conn = "open" /\ remote = FALSE /\ query = FALSE /\ why = "none"
  /\ active = {"srecv", "timer"}
  /\ stage = "init" /\ connected = FALSE
  /\ sbuf = Buf(0, 0) /\ rbuf = Buf(0, 0) /\ hlen = 0
  /\ upOut = <<>> /\ dnOut = <<>>

\* Mutant of Swap: only stops.
SwapStops(stop, start) == active' = active \ {stop}
Swap(stop, start) == active' = (active \ {stop}) \cup {start}

\* close_and_free_server alone: the remote, if any, keeps its watchers.
CloseServer(w) ==
  /\ conn' = "closed" /\ query' = FALSE /\ why' = w
  /\ active' = active \ ServerWatchers
  /\ UNCHANGED remote

\* Mutants of CloseBoth: the query is not cancelled; the remote's watchers run on.
CloseBothKeepsQuery(w) ==
  /\ conn' = "closed" /\ why' = w /\ remote' = FALSE
  /\ active' = active \ (ServerWatchers \cup RemoteWatchers)
  /\ UNCHANGED query
CloseBothKeepsRemote(w) ==
  /\ conn' = "closed" /\ query' = FALSE /\ why' = w /\ remote' = FALSE
  /\ active' = active \ ServerWatchers

\* close_and_free_remote and close_and_free_server.
CloseBoth(w) ==
  /\ conn' = "closed" /\ query' = FALSE /\ why' = w /\ remote' = FALSE
  /\ active' = active \ (ServerWatchers \cup RemoteWatchers)

\* server_recv_cb looks up the remote only beyond STAGE_PARSE.
CloseFromRecv(w) == IF stage \in {"resolve", "stream"} THEN CloseBoth(w) ELSE CloseServer(w)

-----------------------------------------------------------------------------
\* The two programs the relay joins, and the network to the destination.
ClientWrites(n) ==
  /\ conn = "open" /\ ~cEof /\ cSent + n <= UpTotal /\ cSent + n >= FirstWrite
  /\ cSent' = cSent + n
  /\ UNCHANGED <<session, cEof, rSent, rEof, net, reading, lifecycle, stage, connected,
                 fastOpen, buffers, output>>

ClientCloses ==
  /\ Faults /\ conn = "open" /\ ~cEof /\ cEof' = TRUE
  /\ UNCHANGED <<session, cSent, rSent, rEof, net, reading, lifecycle, stage, connected,
                 fastOpen, buffers, output>>

RemoteWrites(n) ==
  /\ conn = "open" /\ net = "up" /\ ~rEof /\ rSent + n <= DnTotal
  /\ rSent' = rSent + n
  /\ UNCHANGED <<session, cSent, cEof, rEof, net, reading, lifecycle, stage, connected,
                 fastOpen, buffers, output>>

RemoteCloses ==
  /\ Faults /\ conn = "open" /\ net = "up" /\ ~rEof /\ rEof' = TRUE
  /\ UNCHANGED <<session, cSent, cEof, rSent, net, reading, lifecycle, stage, connected,
                 fastOpen, buffers, output>>

NetConnects ==
  /\ conn = "open" /\ net = "connecting"
  /\ net' \in {"up"} \cup (IF Faults THEN {"failed"} ELSE {})
  /\ UNCHANGED <<session, peers, reading, lifecycle, stage, connected, fastOpen, buffers, output>>

-----------------------------------------------------------------------------
\* server_recv_cb copies from the start of server->buf->array ...
FromArray(buf, s) == buf.base
\* Mutant of FromIdx: the SYN's bytes are copied again.
FromIdxAgain(buf, s) == buf.base
\* ... server_resolve_cb from server->buf->idx, which the SYN's bytes have advanced.
FromIdx(buf, s) == buf.base + s

\* The end of connect_to_remote and of its two callers: either no remote, and the
\* server is freed; or s bytes of the held payload leave with the SYN, and the rest is
\* copied to the remote's buffer, from where the caller's copy starts.
Dial(buf, from) ==
  \/ /\ Faults /\ CloseServer("connect")
     /\ sbuf' = buf /\ fastOpen' \in {fastOpen, FALSE}
     /\ UNCHANGED <<net, connected, rbuf, upOut>>
  \/ \E s \in IF fastOpen THEN 0..buf.len ELSE {0} :
       /\ upOut' = upOut \o Front(buf, s)
       /\ fastOpen' \in {fastOpen} \cup (IF s = 0 THEN {FALSE} ELSE {})
       /\ LET start == IF from = "idx" THEN FromIdx(buf, s) ELSE FromArray(buf, s)
          IN rbuf' = IF s < buf.len THEN Buf(start, buf.len - s) ELSE Buf(0, 0)
       /\ sbuf' = [buf EXCEPT !.idx = IF s = buf.len THEN s ELSE 0, !.len = 0]
       /\ net' = "connecting" /\ connected' = FALSE /\ remote' = TRUE
       /\ Swap("srecv", "rsend") /\ query' = FALSE
       /\ UNCHANGED <<conn, why>>

\* STAGE_PARSE: n bytes from the header's first are in server->buf.
Parse(n) ==
  \/ /\ n < HdrLen
     /\ stage' = "parse" /\ CloseServer("malformed")
     /\ sbuf' = Buf(IvLen, n)
     /\ UNCHANGED <<net, connected, fastOpen, rbuf, upOut>>
  \/ /\ Faults /\ stage' = "parse" /\ CloseServer("rejected")
     /\ sbuf' = Buf(IvLen, n)
     /\ UNCHANGED <<net, connected, fastOpen, rbuf, upOut>>
  \/ /\ n >= HdrLen /\ kind = "ip"
     /\ stage' = "parse" /\ Dial(Buf(Header, n - HdrLen), "array")
  \/ /\ n >= HdrLen /\ kind = "name"
     /\ stage' = "resolve" /\ query' = TRUE
     /\ active' = active \ {"srecv"}
     /\ sbuf' = Buf(Header, n - HdrLen)
     /\ UNCHANGED <<conn, remote, why, net, connected, fastOpen, rbuf, upOut>>

-----------------------------------------------------------------------------
\* is_header_complete of the first n decoded bytes of the stream.
Verdict(n) == IF kind = "bad" THEN -1 ELSE IF n >= HdrLen THEN 1 ELSE 0

\* server_recv_cb asks for what fits behind the raw bytes STAGE_INIT has kept.
Held == IF stage = "init" THEN sbuf.len ELSE 0
Readable == Lesser(cSent - cRead, BufSize - Held)

Receives ==
  /\ "srecv" \in active /\ cRead < cSent
  /\ cRead' = cRead + Readable
  /\ UNCHANGED <<session, peers, rRead, dnOut>>

\* STAGE_ERROR: whatever comes is thrown away.
RecvDiscards ==
  /\ Receives /\ stage = "error"
  /\ sbuf' = Buf(0, 0)
  /\ UNCHANGED <<dec, net, lifecycle, stage, connected, fastOpen, rbuf, hlen, upOut>>

\* STAGE_INIT: the IV and one byte more must be there before anything is decoded.
IvPending == stage = "init" /\ Held + Readable <= IvLen + 1

RecvWaitsForIv ==
  /\ Receives /\ IvPending
  /\ sbuf' = [sbuf EXCEPT !.len = @ + Readable]
  /\ UNCHANGED <<dec, net, lifecycle, stage, connected, fastOpen, rbuf, hlen, upOut>>

\* What is read completes the frames up to position d.
Decodes(d) ==
  /\ Receives /\ stage # "error" /\ ~IvPending
  /\ LastFrameEnd(cRead + Readable, d)
  /\ dec' = d

\* server_post_decrypt has no whole frame: the buffer that was read into is empty.
RecvNoFrame(d) ==
  /\ Decodes(d) /\ d = dec
  /\ IF stage = "stream" THEN rbuf' = Buf(d, 0) /\ UNCHANGED sbuf
                         ELSE sbuf' = Buf(d, 0) /\ UNCHANGED rbuf
  /\ UNCHANGED <<net, lifecycle, stage, connected, fastOpen, hlen, upOut>>

\* The first decoded bytes: a whole header, a header nobody can parse, or the
\* beginning of one, which goes to header_buf.
RecvFirst(d) ==
  /\ Decodes(d) /\ d > dec /\ stage = "init"
  /\ \/ Verdict(d - dec) = 1 /\ Parse(d - dec) /\ UNCHANGED hlen
     \/ /\ Verdict(d - dec) # 1
        /\ stage' = IF Verdict(d - dec) = 0 THEN "handshake" ELSE "error"
        /\ hlen' = IF Verdict(d - dec) = 0 THEN d - dec ELSE 0
        /\ sbuf' = Buf(d, 0)
        /\ UNCHANGED <<net, lifecycle, connected, fastOpen, rbuf, upOut>>

\* STAGE_HANDSHAKE: header_buf grows by the new bytes, and is_header_complete looks at
\* the new bytes alone, which begin inside a header: any verdict is possible.
RecvMore(d) ==
  /\ Decodes(d) /\ d > dec /\ stage = "handshake"
  /\ \/ Parse(hlen + (d - dec)) /\ hlen' = 0
     \/ /\ stage' \in {"handshake", "error"}
        /\ hlen' = hlen + (d - dec)
        /\ sbuf' = Buf(d, 0)
        /\ UNCHANGED <<net, lifecycle, connected, fastOpen, rbuf, upOut>>

\* STAGE_STREAM: sent at once; what the socket does not take (s = 0 is EAGAIN) stays in
\* remote->buf, and reading stops until remote_send_cb has sent it.
RecvStream(d) ==
  /\ Decodes(d) /\ d > dec /\ stage = "stream"
  /\ LET buf == Buf(dec, d - dec) IN
       \E s \in 0..buf.len :
         /\ upOut' = upOut \o Front(buf, s)
         /\ IF s = buf.len THEN rbuf' = buf /\ UNCHANGED active
                           ELSE rbuf' = Sent(buf, s) /\ Swap("srecv", "rsend")
  /\ UNCHANGED <<net, conn, remote, query, why, stage, connected, fastOpen, sbuf, hlen>>

\* recv returns 0.
RecvEof ==
  /\ "srecv" \in active /\ cEof /\ cRead = cSent
  /\ CloseFromRecv("client_eof")
  /\ UNCHANGED <<session, peers, net, reading, stage, connected, fastOpen, buffers, output>>

\* recv, ss_decrypt, the plugin, ss_check_hash or the send fails.
RecvFails ==
  /\ Faults /\ "srecv" \in active
  /\ CloseFromRecv("error")
  /\ UNCHANGED <<session, peers, net, reading, stage, connected, fastOpen, buffers, output>>

ServerRecv ==
  \/ RecvDiscards \/ RecvWaitsForIv \/ RecvEof \/ RecvFails
  \/ \E d \in frames \cup {IvLen} :
       RecvNoFrame(d) \/ RecvFirst(d) \/ RecvMore(d) \/ RecvStream(d)

-----------------------------------------------------------------------------
\* server_resolve_cb with an address.
ResolveAnswers ==
  /\ query /\ Dial(sbuf, "idx")
  /\ UNCHANGED <<session, peers, reading, stage, hlen, dnOut>>

\* server_resolve_cb with NULL.
ResolveFails ==
  /\ Faults /\ query /\ CloseServer("unresolved")
  /\ UNCHANGED <<session, peers, net, reading, stage, connected, fastOpen, buffers, output>>

-----------------------------------------------------------------------------
\* remote_send_cb: the destination's socket is writable.  The first time, the
\* connection is there, or it is not.
RemoteRefused ==
  /\ "rsend" \in active /\ ~connected /\ net = "failed"
  /\ CloseBoth("connect")
  /\ UNCHANGED <<session, peers, net, reading, stage, connected, fastOpen, buffers, output>>

\* It is, and the SYN has carried the whole payload: relaying begins.
RemoteReady ==
  /\ "rsend" \in active /\ ~connected /\ net = "up" /\ rbuf.len = 0
  /\ connected' = TRUE /\ stage' = "stream"
  /\ active' = (active \ {"rsend"}) \cup {"srecv", "rrecv"}
  /\ UNCHANGED <<session, peers, net, reading, conn, remote, query, why, fastOpen,
                 buffers, output>>

\* Mutant of RemoteSend: the client is not read again.
RemoteSendForgetsClient(s) ==
  /\ "rsend" \in active /\ (connected \/ net = "up") /\ rbuf.len > 0 /\ s <= rbuf.len
  /\ connected' = TRUE /\ upOut' = upOut \o Front(rbuf, s) /\ rbuf' = Sent(rbuf, s)
  /\ IF s < rbuf.len
     THEN UNCHANGED <<active, stage>>
     ELSE stage' = "stream" /\ active' = (active \ {"rsend"}) \cup {"rrecv"}
  /\ UNCHANGED <<session, peers, net, reading, conn, remote, query, why, fastOpen,
                 sbuf, hlen, dnOut>>

\* s bytes go out (0 is EAGAIN); with the last one reading resumes, the first time
\* in both directions.
RemoteSend(s) ==
  /\ "rsend" \in active /\ (connected \/ net = "up") /\ rbuf.len > 0 /\ s <= rbuf.len
  /\ connected' = TRUE
  /\ upOut' = upOut \o Front(rbuf, s)
  /\ IF s < rbuf.len
     THEN rbuf' = Sent(rbuf, s) /\ UNCHANGED <<active, stage>>
     ELSE /\ rbuf' = [rbuf EXCEPT !.idx = 0, !.len = 0]
          /\ stage' = "stream"
          /\ active' = (active \ {"rsend"}) \cup {"srecv"}
                         \cup (IF stage = "stream" THEN {} ELSE {"rrecv"})
  /\ UNCHANGED <<session, peers, net, reading, conn, remote, query, why, fastOpen,
                 sbuf, hlen, dnOut>>

\* Nothing to send although the watcher runs, or the send fails.
RemoteSendGivesUp ==
  /\ "rsend" \in active
  /\ \/ connected /\ rbuf.len = 0
     \/ Faults /\ (connected \/ net = "up") /\ rbuf.len > 0
  /\ CloseBoth("error")
  /\ UNCHANGED <<session, peers, net, reading, stage, connected, fastOpen, buffers, output>>

-----------------------------------------------------------------------------
\* remote_recv_cb: what was read is encrypted, the first time with the IV in front, and
\* sent at once; what the client's socket does not take waits for server_send_cb.
RemoteRecv ==
  /\ "rrecv" \in active /\ rRead < rSent
  /\ LET k == Lesser(rSent - rRead, BufSize)
         buf == IF rRead = 0 THEN Buf(0, IvLen + k) ELSE Buf(IvLen + rRead, k)
     IN /\ rRead' = rRead + k
        /\ \E s \in 0..buf.len :
             /\ dnOut' = dnOut \o Front(buf, s)
             /\ IF s = buf.len THEN sbuf' = buf /\ UNCHANGED active
                               ELSE sbuf' = Sent(buf, s) /\ Swap("rrecv", "ssend")
  /\ UNCHANGED <<session, peers, net, cRead, dec, conn, remote, query, why, stage, connected,
                 fastOpen, rbuf, hlen, upOut>>

RemoteRecvEof ==
  /\ "rrecv" \in active /\ rEof /\ rRead = rSent
  /\ CloseBoth("remote_eof")
  /\ UNCHANGED <<session, peers, net, reading, stage, connected, fastOpen, buffers, output>>

RemoteRecvFails ==
  /\ Faults /\ "rrecv" \in active
  /\ CloseBoth("error")
  /\ UNCHANGED <<session, peers, net, reading, stage, connected, fastOpen, buffers, output>>

\* Mutant of ServerSend: the destination is read again after a partial send.
ServerSendTooEager(s) ==
  /\ "ssend" \in active /\ remote /\ sbuf.len > 0 /\ s <= sbuf.len
  /\ dnOut' = dnOut \o Front(sbuf, s)
  /\ sbuf' = Sent(sbuf, s) /\ Swap("ssend", "rrecv")
  /\ UNCHANGED <<session, peers, net, reading, conn, remote, query, why, stage, connected,
                 fastOpen, rbuf, hlen, upOut>>

\* server_send_cb: s bytes go out; with the last one the destination is read again.
ServerSend(s) ==
  /\ "ssend" \in active /\ remote /\ sbuf.len > 0 /\ s <= sbuf.len
  /\ dnOut' = dnOut \o Front(sbuf, s)
  /\ IF s < sbuf.len
     THEN sbuf' = Sent(sbuf, s) /\ UNCHANGED active
     ELSE sbuf' = [sbuf EXCEPT !.idx = 0, !.len = 0] /\ Swap("ssend", "rrecv")
  /\ UNCHANGED <<session, peers, net, reading, conn, remote, query, why, stage, connected,
                 fastOpen, rbuf, hlen, upOut>>

ServerSendGivesUp ==
  /\ "ssend" \in active
  /\ \/ ~remote /\ CloseServer("error")
     \/ remote /\ (sbuf.len = 0 \/ Faults) /\ CloseBoth("error")
  /\ UNCHANGED <<session, peers, net, reading, stage, connected, fastOpen, buffers, output>>

-----------------------------------------------------------------------------
\* server_timeout_cb, and free_connections when the process is told to stop.
Timeout ==
  /\ Faults /\ "timer" \in active
  /\ CloseBoth("timeout")
  /\ UNCHANGED <<session, peers, net, reading, stage, connected, fastOpen, buffers, output>>

Shutdown ==
  /\ Faults /\ conn = "open"
  /\ CloseBoth("shutdown")
  /\ UNCHANGED <<session, peers, net, reading, stage, connected, fastOpen, buffers, output>>

RemoteSendCb == (\E s \in 1..rbuf.len : RemoteSend(s)) \/ RemoteReady \/ RemoteRefused
ServerSendCb == \E s \in 1..sbuf.len : ServerSend(s)

Next ==
  \/ \E n \in 1..UpTotal : ClientWrites(n)
  \/ ClientCloses
  \/ \E n \in 1..DnTotal : RemoteWrites(n)
  \/ RemoteCloses
  \/ NetConnects
  \/ ServerRecv
  \/ ResolveAnswers
  \/ ResolveFails
  \/ RemoteSendCb
  \/ RemoteSend(0)
  \/ RemoteSendGivesUp
  \/ RemoteRecv
  \/ RemoteRecvEof
  \/ RemoteRecvFails
  \/ ServerSendCb
  \/ ServerSendGivesUp
  \/ Timeout
  \/ Shutdown

Spec == Init /\ [][Next]_vars

\* The event loop calls the handler of every socket that stays ready, the kernel settles
\* every connect, and a socket that refuses bytes takes some in the end.
Fairness ==
  /\ WF_vars(ServerRecv) /\ WF_vars(RemoteSendCb)
  /\ WF_vars(RemoteRecv) /\ WF_vars(RemoteRecvEof) /\ WF_vars(ServerSendCb)
  /\ WF_vars(ResolveAnswers) /\ WF_vars(NetConnects)

FairSpec == Spec /\ Fairness

-----------------------------------------------------------------------------
\* The bytes sent to the client for n bytes of the destination's.
Enciphered(n) == IF n = 0 THEN 0 ELSE IvLen + n

\* The variables hold what their declarations in server.h and server.c can hold.
TypeOK ==
  /\ kind \in Kinds /\ frames \subseteq (IvLen + 1)..UpTotal
  /\ cSent \in 0..UpTotal /\ cEof \in BOOLEAN /\ rSent \in 0..DnTotal /\ rEof \in BOOLEAN
  /\ net \in {"none", "connecting", "up", "failed"}
  /\ cRead \in 0..cSent /\ rRead \in 0..rSent
  /\ dec \in Nat /\ dec >= IvLen /\ (dec = IvLen \/ dec <= cSent)
  /\ conn \in {"open", "closed"} /\ remote \in BOOLEAN /\ query \in BOOLEAN
  /\ why \in Reasons /\ stage \in Stages
  /\ active \subseteq ServerWatchers \cup RemoteWatchers
  /\ connected \in BOOLEAN /\ fastOpen \in BOOLEAN
  /\ sbuf \in Buffer /\ rbuf \in Buffer /\ hlen \in Nat
  /\ stage = "init" => sbuf.len <= IvLen + 1
  /\ upOut \in Seq(Nat) /\ dnOut \in Seq(Nat)

\* The destination gets the client's payload from its first byte on, in order, nothing
\* twice and nothing left out, whatever mix of immediate sends, SYN data, copies between
\* the two buffers and later sends carried it (connect_to_remote, server_recv_cb,
\* server_resolve_cb, remote_send_cb).
UpInOrder == \A i \in DOMAIN upOut : upOut[i] = Header + i

\* The client gets the IV once and then the destination's bytes, in order
\* (remote_recv_cb, server_send_cb).
DnInOrder == \A i \in DOMAIN dnOut : dnOut[i] = i

\* While data is relayed each direction is either read or written, never both and never
\* neither: a handler that forgets one half of the switch stalls or overtakes itself.
DirectionsAlternate ==
  conn = "open" /\ stage = "stream" =>
    /\ ("srecv" \in active) # ("rsend" \in active)
    /\ ("rrecv" \in active) # ("ssend" \in active)

\* A direction is read again only when all it had read before is out, so a handler may
\* reuse the one buffer (server_recv_cb and remote_recv_cb read over it from the start).
NothingOverwritten ==
  /\ "srecv" \in active /\ stage = "stream" => Header + Len(upOut) = dec
  /\ "rrecv" \in active => Len(dnOut) = Enciphered(rRead)

\* A write watcher runs only while there is something to write; with an empty buffer the
\* handler would take the connection for finished and close it.
WritersHaveData ==
  /\ "rsend" \in active /\ connected => rbuf.len > 0
  /\ "ssend" \in active => sbuf.len > 0

\* Nothing outlives the server_t: no watcher of it or of its remote, no remote_t, no
\* query whose answer would find the server freed.
NoOrphans == conn = "closed" => active = {} /\ ~remote /\ ~query

\* When the destination closes in good order the client has had all of its bytes; when
\* the client does, the destination has had all the frames it completed.
GracefulEof ==
  /\ why = "remote_eof" => Len(dnOut) = Enciphered(rSent)
  /\ why = "client_eof" /\ stage = "stream" => Header + Len(upOut) = dec

\* The inductive invariant.  Shape: which watchers, remote and query go with which stage.
Shape ==
  /\ conn = "open" =>
       /\ why = "none"
       /\ stage \in {"init", "handshake", "error"} =>
            active = {"srecv", "timer"} /\ ~remote /\ ~query /\ net = "none"
       /\ stage = "parse" => active = {"rsend", "timer"} /\ remote /\ ~query
       /\ stage = "resolve" =>
            \/ active = {"timer"} /\ ~remote /\ query /\ net = "none"
            \/ active = {"rsend", "timer"} /\ remote /\ ~query
       /\ stage = "stream" => remote /\ ~query /\ connected
  /\ kind = "ip" => ~fastOpen

\* What the upward stream's held bytes are: those between what is out and what is decoded.
UpAccount ==
  conn = "open" =>
    /\ stage = "init" => dec = IvLen
    /\ stage = "handshake" => hlen = dec - IvLen
    /\ ~remote => upOut = <<>>
    /\ query => sbuf.base = Header /\ sbuf.idx = 0 /\ sbuf.base + sbuf.len = dec
    /\ "rsend" \in active =>
         /\ rbuf.len > 0 => rbuf.base + rbuf.idx = Header + Len(upOut)
         /\ Header + Len(upOut) + rbuf.len = dec
         /\ connected => rbuf.len > 0

\* The same for the stream back; before relaying begins nothing of it exists.
DnAccount ==
  conn = "open" =>
    /\ stage # "stream" => rRead = 0 /\ dnOut = <<>>
    /\ net = "none" => rSent = 0
    /\ "ssend" \in active =>
         /\ sbuf.len > 0 /\ sbuf.base + sbuf.idx = Len(dnOut)
         /\ Len(dnOut) + sbuf.len = Enciphered(rRead)

IndInv ==
  /\ TypeOK /\ Shape /\ UpAccount /\ DnAccount
  /\ UpInOrder /\ DnInOrder /\ DirectionsAlternate /\ NothingOverwritten
  /\ NoOrphans /\ GracefulEof

\* The relay is a pair of pipes: it implements the abstract specification.
Phase == IF conn = "closed" THEN "closed" ELSE IF stage = "stream" THEN "open" ELSE "opening"
Pipe == INSTANCE RelayPipe WITH
          UpBase <- Header, phase <- Phase, upEnd <- cSent, up <- upOut,
          dnEnd <- Enciphered(rSent), dn <- dnOut
PipeSpec == Pipe!Spec

\* Every frame the client completes reaches the destination, and every byte the
\* destination sends reaches the client, as long as nobody closes and nothing fails.
UpDelivered ==
  \A p \in (Header + 1)..UpTotal :
    (p \in frames /\ cSent >= p) ~> (Header + Len(upOut) >= p \/ kind = "bad")
DnDelivered == \A p \in 1..DnTotal : (rSent >= p) ~> (Len(dnOut) >= IvLen + p)
AllDelivered == UpDelivered /\ DnDelivered

\* Once the destination has closed, the connection is given back: no state of the relay
\* waits for the timer alone.
RemoteEofCloses == rEof ~> (conn = "closed")
=============================================================================
