---------------------------- MODULE ServerPlugins ----------------------------
(***************************************************************************)
(* What ss-server's plugins make of one honest client at a time: the obfs  *)
(* handshake of http_simple and tls1.2_ticket_auth, the "_compatible"      *)
(* modes that also let a client in who does without, and the path of       *)
(* server_recv_cb and remote_recv_cb through obfs, cipher and protocol.    *)
(*                                                                         *)
(* A direction is the sequence of units written to it, each with bytes the *)
(* plugin adds (head) and bytes of the cipher's stream (data); a reader is *)
(* a position in it.  TCP decides where each read ends.  The client is the *)
(* client half of the plugins; protocol frames are counted as Frames has   *)
(* them reassembled.                                                       *)
(***************************************************************************)
EXTENDS Integers, Sequences, Streams

CONSTANTS
  Sessions,        \* how server and client are configured
  RequestSizes,    \* sizes of the client's requests
  ReplySizes,      \* sizes of what the remote answers
  HelloSize,       \* bytes of the client's hello; they depend on the host name
  Request,         \* bytes of an HTTP request but for the encoded head
  Extra,           \* what http_simple may draw over head_len
  PieceSizes,      \* what tls1.2_ticket_auth may draw for a piece
  CutDistances,    \* distances from a unit's end at which TCP may cut
  MaxRequests,     \* bound: requests on a connection
  LastConnection   \* bound: connections
                   \* and a torn connection is followed no further than what is on its way

IV == 16
HeadLen == 30
FrameHead == 7       \* what verify_simple adds to a frame at least
ServerHello == 129
Finish == 43
ResponseHead == 180
ClientCheck == 76    \* the bytes of the server's hello the client looks at

SessionType ==
  [plugin : {"plain", "http_simple", "tls1.2_ticket_auth"},             \* of the server
   obfs : {"none", "http_simple", "http_post", "tls1.2_ticket_auth"},   \* of the client
   protocol : {"origin", "verify_simple"},                              \* of the server
   speaks : {"origin", "verify_simple"},                                \* of the client
   compatible : SUBSET {"obfs", "protocol"}]

\* The client uses each plugin that is not "_compatible", and may do without one that is.
LetsIn(s) ==
  /\ s.plugin = "plain" => s.obfs = "none" /\ "obfs" \notin s.compatible
  /\ s.plugin = "http_simple" => s.obfs # "tls1.2_ticket_auth"
  /\ s.plugin = "tls1.2_ticket_auth" => s.obfs \in {"none", "tls1.2_ticket_auth"}
  /\ s.plugin # "plain" /\ s.obfs = "none" => "obfs" \in s.compatible
  /\ s.protocol = "origin" => s.speaks = "origin" /\ "protocol" \notin s.compatible
  /\ s.protocol = "verify_simple" => s.speaks = "verify_simple" \/ "protocol" \in s.compatible

ASSUME SessionsAssumption == \A s \in Sessions : s \in SessionType /\ LetsIn(s)
ASSUME RequestsAssumption == RequestSizes \subseteq 1..BUF_SIZE /\ ReplySizes \subseteq 1..BUF_SIZE
ASSUME DrawsAssumption ==
  /\ HelloSize \in IV + 2 .. BUF_SIZE /\ Request \in Nat
  /\ Extra \subseteq Nat /\ PieceSizes \subseteq Nat
ASSUME LimitsAssumption == MaxRequests \in Nat /\ LastConnection \in Nat \ {0} /\ CutDistances \subseteq Int

VARIABLES
  session,        \* fixed: the server's plugins, and which of them the client uses
  connection,     \* which connection this is
  requests,       \* the sizes of the client's requests
  replies,        \* the remote's answers
  framings,       \* history: the protocols they were framed in
  up, down,       \* the units written to either direction
  uread, dread,   \* how far either end has read
  client_status, send_buffer, client_from,  \* the client's obfs; its buffer begins at client_from
  server_status, sent, server_taken,        \* the server's; it has taken so many units
  held,           \* bytes that wait in server->buf for more (STAGE_INIT)
  obfs_compatible_state,
  client_data,    \* the replay list of the obfs' global data
  dec, c_dec,     \* bytes of the cipher's streams that either end has taken out
  got,            \* bytes the server has handed on to the remote
  open,           \* neither end has given the connection up
  torn            \* history: a read has ended where the code can do nothing with it

wires == <<up, down, uread, dread>>
client == <<client_status, send_buffer, client_from>>
server == <<server_status, sent, server_taken>>
plugins_vars ==
  <<session, connection, requests, replies, framings, wires, client, server, held,
    obfs_compatible_state, client_data, dec, c_dec, got, open, torn>>

\* A unit adds head bytes of its own to n bytes of the cipher's stream.
Unit(kind, head, n) == [kind |-> kind, head |-> head, data |-> n]
Record(n) == Unit("record", 5, n)

\* For the first units of a sequence: the cipher's bytes in them, and where they end.
DataIn(units) == Sums([i \in DOMAIN units |-> units[i].data])
EndsOf(units) == Sums([i \in DOMAIN units |-> units[i].head + units[i].data])
Bytes(units) == EndsOf(units)[Len(units)]

\* How many units are whole in the first pos bytes.
Whole(units, pos) ==
  CHOOSE k \in 0..Len(units) : EndsOf(units)[k] <= pos /\ (k = Len(units) \/ pos < EndsOf(units)[k + 1])

\* The cipher's bytes in the first pos bytes of a direction: a record's count when all of it is
\* there, a header's when all of the header is.
Cipher(units, pos) ==
  LET k == Whole(units, pos)
      have == pos - EndsOf(units)[k]
      part == k < Len(units) /\ units[k + 1].kind # "record" /\ have > units[k + 1].head
  IN  DataIn(units)[k] + IF part THEN have - units[k + 1].head ELSE 0

\* The frames a protocol makes of its calls.
FrameOf(n) == Unit("frame", FrameHead, n)
FramesOf(n) ==
  IF n <= pack_unit_size THEN <<FrameOf(n)>> ELSE <<FrameOf(pack_unit_size), FrameOf(n - pack_unit_size)>>
FramesOfAll(calls) == Joined([i \in DOMAIN calls |-> FramesOf(calls[i])])

\* The bytes a protocol makes of its calls.
Spoken(calls, protocol) == IF protocol = "verify_simple" THEN Bytes(FramesOfAll(calls)) ELSE Sum(calls)

\* The payload of the frames that are whole in the first n decrypted bytes.
PayloadIn(n) == DataIn(FramesOfAll(requests))[Whole(FramesOfAll(requests), n)]

Speaks == session.speaks = "verify_simple"
Tls == session.obfs = "tls1.2_ticket_auth"
Http == session.obfs \in {"http_simple", "http_post"}

\* The bytes of the first n requests on the cipher's stream: the IV first, the protocol's frames
\* if the client uses it.
Asked(n) == IF n = 0 THEN 0 ELSE IV + Spoken(SubSeq(requests, 1, n), session.speaks)

\* Mutant of NewGlobal: the global data of the obfs is made once for all connections.
NewGlobalShared(list) == list

\* The replay list a connection begins with.
NewGlobal(list) == {}

\* accept_cb: a new obfs, its local data anew, and init_data for its global data.
PluginsInit ==
  /\ session \in Sessions /\ connection = 1
  /\ requests = <<>> /\ replies = 0 /\ framings = {}
  /\ up = <<>> /\ down = <<>> /\ uread = 0 /\ dread = 0
  /\ client_status = 0 /\ send_buffer = <<>> /\ client_from = 0
  /\ server_status = 0 /\ sent = 0 /\ server_taken = 0
  /\ held = 0 /\ obfs_compatible_state = 0 /\ client_data = {}
  /\ dec = 0 /\ c_dec = 0 /\ got = 0 /\ open = TRUE /\ torn = FALSE
-----------------------------------------------------------------------------
(* Encoding.                                                               *)

\* tls12_ticket_auth_pack_data over n bytes: one record, unless more than 2048 are left to cut.
Pieces(n) ==
  IF n <= BUF_SIZE THEN {<<Record(n)>>}
  ELSE {IF p < n THEN <<Record(p), Record(n - p)>> ELSE <<Record(n)>> : p \in PieceSizes}

\* http_simple_client_encode: the first h bytes are spelt in the request line, three for each.
\* http_post_client_encode has a line more.
http_simple_client_encode(n) ==
  {Unit("request", Request + 2 * h, n) : h \in {IF HeadLen + x < n THEN HeadLen + x ELSE n : x \in Extra}}
http_post_client_encode(n) ==
  {Unit("request", u.head + 84, n) : u \in http_simple_client_encode(n)}

\* client_encode with n bytes of the cipher's stream.  Before the handshake is over a record
\* waits in send_buffer; the first call sends the hello.
ClientEncodes(n) ==
  \/ /\ Tls /\ client_status = 0
     /\ up' = Append(up, Unit("hello", HelloSize, 0))
     /\ client_status' = 1 /\ send_buffer' = Append(send_buffer, Record(n))
  \/ /\ Tls /\ client_status = 1
     /\ send_buffer' = Append(send_buffer, Record(n))
     /\ UNCHANGED <<up, client_status>>
  \/ /\ Tls /\ client_status = 8
     /\ \E units \in Pieces(n) : up' = up \o units
     /\ UNCHANGED <<client_status, send_buffer>>
  \/ /\ Http /\ client_status = 0
     /\ \E u \in IF session.obfs = "http_post" THEN http_post_client_encode(n)
                 ELSE http_simple_client_encode(n) : up' = Append(up, u)
     /\ client_status' = 8
     /\ UNCHANGED send_buffer
  \/ /\ session.obfs = "none" \/ (Http /\ client_status = 8)
     /\ up' = Append(up, Unit("raw", 0, n))
     /\ UNCHANGED <<client_status, send_buffer>>

\* A request: the protocol's frames if the client uses it, the IV first, then the obfs.
ClientWrites(n) ==
  /\ open /\ ~torn /\ Len(requests) < MaxRequests
  /\ requests' = Append(requests, n)
  /\ ClientEncodes((IF requests = <<>> THEN IV ELSE 0) + Spoken(<<n>>, session.speaks))
  /\ UNCHANGED <<session, connection, replies, framings, down, uread, dread, client_from, server, held,
                 obfs_compatible_state, client_data, dec, c_dec, got, open, torn>>

\* http_simple_server_encode: a header before the first answer.
http_simple_server_encode(n) ==
  {<<IF sent = 1 THEN Unit("raw", 0, n) ELSE Unit("response", ResponseHead, n)>>}

\* tls12_ticket_auth_server_encode: records, or before the handshake is over the hello.
tls12_ticket_auth_server_encode(n) ==
  IF server_status = 8 THEN Pieces(n) ELSE {<<Unit("hello", ServerHello, 0)>>}

ServerEncodes(n) ==
  IF session.plugin = "plain" \/ obfs_compatible_state # 0 THEN {<<Unit("raw", 0, n)>>}
  ELSE IF session.plugin = "http_simple" THEN http_simple_server_encode(n)
  ELSE tls12_ticket_auth_server_encode(n)

\* remote_recv_cb: the remote answers a request it has whole.
RemoteReplies(n) ==
  LET framing == IF obfs_compatible_state = 0 THEN session.protocol ELSE "origin"
  IN  /\ open /\ ~torn /\ replies < Len(requests) /\ got >= Sum(SubSeq(requests, 1, replies + 1))
      /\ \E units \in ServerEncodes((IF replies = 0 THEN IV ELSE 0) + Spoken(<<n>>, framing)) :
           down' = down \o units
      /\ sent' = 1
      /\ replies' = replies + 1 /\ framings' = framings \cup {framing}
      /\ UNCHANGED <<session, connection, requests, up, uread, dread, client, server_status, server_taken,
                     held, obfs_compatible_state, client_data, dec, c_dec, got, open, torn>>
-----------------------------------------------------------------------------
(* Decoding.                                                               *)

\* "while (recv_buffer_size > 5)" over a buffer of size bytes that begins with unit taken + 1.
WholeRecords(units, taken, size) ==
  LET left(k) == size - (EndsOf(units)[taken + k] - EndsOf(units)[taken])
      next(k) == units[taken + k + 1]
      stops(k) == left(k) <= 5 \/ next(k).head + next(k).data > left(k)
  IN  CHOOSE k \in 0..(Len(units) - taken) : stops(k) /\ \A j \in 0..(k - 1) : ~stops(j)

\* list_have_same_cmp: 1 as soon as an entry is not the same.
HaveSameCmp(list, id) == \E other \in list : other # id

\* A server_decode: the bytes it returns (-1: refuses), the units that are to be sent first, and
\* its local data afterwards.
Decoded(n, back, status, header, taken) ==
  [n |-> n, back |-> back, status |-> status, sent |-> header, taken |-> taken]

\* The records of the bytes up to to, of which unit taken + 1 is the first not taken.
TakesRecords(to, taken) ==
  LET k == WholeRecords(up, taken, to - EndsOf(up)[taken])
  IN  Decoded(DataIn(up)[taken + k] - DataIn(up)[taken], <<>>, 8, sent, taken + k)

\* tls12_ticket_auth_server_decode of the bytes from, to.
tls12_ticket_auth_server_decode(from, to) ==
  CASE server_status = 8 -> TakesRecords(to, server_taken)
    [] server_status = 3 -> IF to - from < Finish THEN Decoded(-1, <<>>, 3, sent, server_taken)
                            ELSE TakesRecords(to, 2)
    [] OTHER ->
         IF up[1].kind = "hello" /\ from = 0 /\ to = HelloSize /\ ~HaveSameCmp(client_data, connection)
           THEN Decoded(0, <<Unit("hello", ServerHello, 0)>>, 3, sent, server_taken)
           ELSE Decoded(-1, <<>>, 2, sent, server_taken)

\* http_simple_server_decode: the header has to be all there; what is no request sets both flags.
http_simple_server_decode(from, to) ==
  CASE server_status = 8 -> Decoded(to - from, <<>>, 8, sent, server_taken)
    [] server_status # 8 /\ up[1].kind # "request" -> Decoded(-1, <<>>, 8, 1, server_taken)
    [] server_status # 8 /\ up[1].kind = "request" ->
         IF to < up[1].head THEN Decoded(0, <<>>, server_status, sent, server_taken)
         ELSE Decoded(Cipher(up, to), <<>>, 8, sent, server_taken)

ServerDecodes(from, to) ==
  CASE session.plugin = "plain" -> Decoded(to - from, <<>>, server_status, sent, server_taken)
    [] session.plugin = "http_simple" -> http_simple_server_decode(from, to)
    [] session.plugin = "tls1.2_ticket_auth" -> tls12_ticket_auth_server_decode(from, to)

\* What server_post_decrypt makes of the next n bytes of the cipher's stream.  It hands on the
\* frames that are whole; where it is "_compatible" and none is, the bytes as they are.
PostDecrypted(n) ==
  LET before == IF dec = 0 THEN 0 ELSE dec - IV
      after == dec + n - IV
      whole == PayloadIn(after) - PayloadIn(before)
  IN  IF Speaks /\ (whole > 0 \/ "protocol" \notin session.compatible) THEN whole ELSE after - before

\* Mutant of TakesForPlain: the flag for the answers is forgotten.
TakesForPlainSilently == UNCHANGED obfs_compatible_state

\* "obfs_compatible": the client does without the obfs; its answers shall, too.
TakesForPlain == obfs_compatible_state' = 1

\* A read that leaves the code with the first request in part, or in compatible mode a frame.
Tears(to) ==
  LET c == Cipher(up, to)
  IN  \/ c < Asked(1) /\ ~(up[1].kind = "hello" /\ to = HelloSize)
      \/ Speaks /\ "protocol" \in session.compatible /\ \A n \in 0..Len(requests) : c # Asked(n)

\* Reads as TCP cuts them: to a place near a unit's end, as much as fits, or all there is.
CutsOf(units, at) ==
  {to \in {EndsOf(units)[k] + d : k \in 0..Len(units), d \in CutDistances} \cup {at + BUF_SIZE, Bytes(units)} :
     to > at /\ to <= Bytes(units) /\ to <= at + BUF_SIZE}

\* Mutant of Waits: it waits for a whole address, too.
WaitsLonger(n) == got = 0 /\ n <= IV + 7

\* In STAGE_INIT: no more than an IV and one byte.
Waits(n) == got = 0 /\ n <= IV + 1

\* Bytes from, to through obfs, cipher and protocol, each of which may end it.
ServerTakes(d, from, to) ==
  LET n == IF d.n = -1 THEN to - from ELSE d.n
      refused == d.n = -1 /\ "obfs" \notin session.compatible
  IN  /\ held' = 0 /\ server_status' = d.status /\ sent' = d.sent /\ server_taken' = d.taken
      /\ IF d.n = -1 /\ ~refused THEN TakesForPlain ELSE UNCHANGED obfs_compatible_state
      /\ \/ /\ d.back # <<>>
            /\ down' = d.back
            /\ client_data' = client_data \cup {connection}
            /\ UNCHANGED <<dec, got, open>>
         \/ /\ d.back = <<>> /\ (refused \/ (dec = 0 /\ n < IV))
            /\ open' = FALSE
            /\ UNCHANGED <<down, client_data, dec, got>>
         \/ /\ d.back = <<>> /\ ~refused /\ (dec > 0 \/ n >= IV)
            /\ dec' = dec + n
            /\ got' = got + PostDecrypted(n)
            /\ UNCHANGED <<down, client_data, open>>

\* server_recv_cb: bytes wait in STAGE_INIT until there are more than an IV and one.
ServerReads ==
  /\ open
  /\ \E to \in CutsOf(up, uread) :
       /\ uread' = to
       /\ torn' = (torn \/ Tears(to))
       /\ \/ /\ Waits(to - (uread - held))
             /\ held' = to - (uread - held)
             /\ UNCHANGED <<down, server, obfs_compatible_state, client_data, dec, got, open>>
          \/ /\ ~Waits(to - (uread - held))
             /\ \E d \in {ServerDecodes(uread - held, to)} : ServerTakes(d, uread - held, to)
  /\ UNCHANGED <<session, connection, requests, replies, framings, up, dread, client, c_dec>>

\* Its finish, what has waited for the server's hello, and an empty record.
Finishing == <<Unit("finish", Finish, 0)>> \o send_buffer \o <<Record(0)>>

\* tls12_ticket_auth_client_decode while it waits for the server's hello: what it looks at has
\* to be in one read.  Then it finishes.
ClientFinishes(to) ==
  /\ Tls /\ client_status = 1
  /\ IF to < ClientCheck
       THEN open' = FALSE /\ UNCHANGED <<up, client>>
       ELSE /\ up' = up \o Finishing
            /\ client_status' = 8 /\ send_buffer' = <<>> /\ client_from' = to
            /\ UNCHANGED open
  /\ torn' = (torn \/ to # ServerHello)
  /\ UNCHANGED c_dec

\* ... and once it has it: the records that are whole, unless its buffer begins with no record.
ClientTakesRecords(to) ==
  LET taken == Whole(down, client_from)
      k == WholeRecords(down, taken, to - client_from)
  IN  /\ Tls /\ client_status = 8
      /\ IF client_from < ServerHello
           THEN open' = (to - client_from <= 5) /\ UNCHANGED <<client, c_dec>>
           ELSE /\ c_dec' = c_dec + DataIn(down)[taken + k] - DataIn(down)[taken]
                /\ client_from' = EndsOf(down)[taken + k]
                /\ UNCHANGED <<client_status, send_buffer, open>>
      /\ UNCHANGED <<up, torn>>

\* http_simple_client_decode: drops all until a read that holds the end of the header.
http_simple_client_decode(to) ==
  LET head == down[1].head
      ends == dread <= head - 4 /\ to >= head
  IN  /\ Http
      /\ \/ client_from > 0 /\ c_dec' = c_dec + to - dread /\ UNCHANGED <<client_from, torn>>
         \/ /\ client_from = 0 /\ ends
            /\ c_dec' = c_dec + to - head
            /\ client_from' = head
            /\ UNCHANGED torn
         \/ /\ client_from = 0 /\ ~ends
            /\ torn' = (torn \/ to > head - 4)
            /\ UNCHANGED <<client_from, c_dec>>
      /\ UNCHANGED <<up, client_status, send_buffer, open>>

ClientReads ==
  /\ open
  /\ \E to \in CutsOf(down, dread) :
       /\ dread' = to
       /\ \/ ClientFinishes(to)
          \/ ClientTakesRecords(to)
          \/ http_simple_client_decode(to)
          \/ /\ session.obfs = "none"
             /\ c_dec' = c_dec + to - dread
             /\ UNCHANGED <<up, client, open, torn>>
  /\ UNCHANGED <<session, connection, requests, replies, framings, down, uread, server, held,
                 obfs_compatible_state, client_data, dec, got>>

\* Everything written has been read, understood and answered.
Done ==
  /\ uread = Bytes(up) /\ dread = Bytes(down)
  /\ got = Sum(requests) /\ replies = Len(requests) /\ c_dec = Cipher(down, dread)

\* The client is done, or gives up, and connects again: accept_cb.
Reconnects ==
  /\ connection < LastConnection /\ requests # <<>> /\ (Done \/ ~open \/ torn)
  /\ connection' = connection + 1
  /\ client_data' = NewGlobal(client_data)
  /\ requests' = <<>> /\ replies' = 0 /\ framings' = {}
  /\ up' = <<>> /\ down' = <<>> /\ uread' = 0 /\ dread' = 0
  /\ client_status' = 0 /\ send_buffer' = <<>> /\ client_from' = 0
  /\ server_status' = 0 /\ sent' = 0 /\ server_taken' = 0
  /\ held' = 0 /\ obfs_compatible_state' = 0
  /\ dec' = 0 /\ c_dec' = 0 /\ got' = 0 /\ open' = TRUE /\ torn' = FALSE
  /\ UNCHANGED session

PluginsNext ==
  \/ \E n \in RequestSizes : ClientWrites(n)
  \/ \E n \in ReplySizes : RemoteReplies(n)
  \/ ServerReads
  \/ ClientReads
  \/ Reconnects

Replies == \E n \in ReplySizes : RemoteReplies(n)
PluginsSpec ==
  PluginsInit /\ [][PluginsNext]_plugins_vars
  /\ WF_plugins_vars(ServerReads) /\ WF_plugins_vars(ClientReads) /\ WF_plugins_vars(Replies)
-----------------------------------------------------------------------------
UnitType ==
  [kind : {"hello", "finish", "record", "frame", "request", "response", "raw"}, head : Nat, data : Nat]

\* The variables have their types; a status is one of those the plugins use.
PluginsTypeOK ==
  /\ session \in Sessions /\ connection \in 1..LastConnection
  /\ requests \in Seq(RequestSizes) /\ Len(requests) <= MaxRequests /\ replies \in 0..Len(requests)
  /\ framings \subseteq {"origin", "verify_simple"}
  /\ up \in Seq(UnitType) /\ down \in Seq(UnitType) /\ send_buffer \in Seq(UnitType)
  /\ uread \in 0..Bytes(up) /\ dread \in 0..Bytes(down) /\ held \in 0..(IV + 1)
  /\ client_status \in {0, 1, 8} /\ client_from \in 0..dread
  /\ server_status \in {0, 2, 3, 8} /\ sent \in {0, 1} /\ server_taken \in 0..Len(up)
  /\ obfs_compatible_state \in {0, 1} /\ client_data \subseteq 1..LastConnection
  /\ dec \in Nat /\ c_dec \in Nat /\ got \in Nat /\ open \in BOOLEAN /\ torn \in BOOLEAN

\* The i-th unit of the answers has the client's obfs.
Masked(i) ==
  /\ down[i].kind = "raw" <=> session.obfs = "none" \/ (Http /\ i > 1)
  /\ Tls /\ i > 1 => down[i].kind = "record"

\* One flag stands for both plugins, so the answers can only have the client's framing when the
\* client uses both or neither.
BothOrNeither ==
  session.protocol = "verify_simple" => (Speaks <=> session.obfs # "none" \/ session.plugin = "plain")

\* Unless a read tore the first request apart, an honest client is never refused, however TCP
\* cuts the rest and whichever compatible mode let it in: the server has decrypted the bytes
\* the client encrypted and handed on its requests, the client has those of the answers, and
\* each answer comes in the client's own obfs and framing.
Served ==
  ~torn =>
    /\ open
    /\ dec = Cipher(up, uread - held)
    /\ dec > 0 => got = IF Speaks THEN PayloadIn(dec - IV) ELSE dec - IV
    /\ c_dec = Cipher(down, dread)
    /\ \A i \in DOMAIN down : Masked(i)
    /\ BothOrNeither => framings \subseteq {session.speaks}

\* As long as no read tears anything, whatever is written is read, understood and answered:
\* the handshake never leaves both ends waiting for the other.
Completes == []~torn => []<>Done
=============================================================================
