------------------------------- MODULE Frames -------------------------------
(***************************************************************************)
(* The protocol plugins of shadowsocksr-libev (verify.c, auth.c).  Every   *)
(* call of a pre_encrypt cuts its bytes into padded frames; the other side *)
(* gathers them from whatever pieces TCP makes of the stream.  Bytes are   *)
(* counted, not spelled: a frame is its length field, its encoded padding, *)
(* the payload it holds, and where it ends in the stream.                  *)
(*                                                                         *)
(* A behaviour follows one direction of one protocol.  Upwards the client  *)
(* of this code packs, and a header frame leads each connection; only      *)
(* verify_simple has a reader for that direction here.  Downwards the      *)
(* server packs (for auth_* it is external, and packs the same way) and    *)
(* client_post_decrypt reads.                                              *)
(***************************************************************************)
EXTENDS Integers, Sequences, FiniteSets, Streams

LOCAL INSTANCE FiniteSetsExt

CONSTANTS
  Protocols,       \* the plugins looked at
  WriteSizes,      \* sizes of the calls that are packed
  HeadSizes,       \* what get_head_size may say of a first call
  Paddings,        \* the paddings drawn, each cut to the range the code draws from
  Cuts,            \* distances from a frame's end at which TCP may cut
  MaxWrites,       \* bound: calls packed on one connection
  MaxConnections,  \* bound: connections of one client
  FirstIds,        \* values rand_bytes may give connection_id
  LastId           \* the last connection_id before a new client id (0xFF000000)

RECV_BUFFER == 16384

Counted == {"auth_aes128_sha1"}
\* A head is at most an address type, a length, 255 bytes of a name, and a port.  (Where char
\* is signed, get_head_size makes a length of over 127 a negative size, which is not followed.)
ASSUME SizesAssumption ==
  /\ Protocols \subseteq {"verify_simple", "auth_simple", "auth_sha1", "auth_sha1_v2", "auth_sha1_v4",
                         "auth_aes128_sha1"}
  /\ WriteSizes \subseteq Nat /\ Paddings \subseteq Nat \ {0}
  /\ \A h \in HeadSizes : h \in Nat /\ h <= 259
  /\ Cuts \subseteq Int
ASSUME BoundsAssumption == MaxWrites \in Nat /\ MaxConnections \in Nat \ {0}
ASSUME FirstIdsAssumption == LastId \in Nat /\ \A i \in FirstIds : i \in Nat /\ i < LastId

VARIABLES
  proto, dir,
  has_sent_header, pack_id,        \* auth_simple_local_data of the packing side
  connection_id, client_id,        \* auth_simple_global_data
  headers,         \* history: the pairs sent in header frames, in order
  packed,          \* the last call: its bytes, its frames, the room of its out_buffer
  writes, connections,
  wire,            \* the frames sent towards the reader
  read,            \* bytes of them the reader has received
  recv_buffer_size, recv_id,       \* the reader's local data
  taken,           \* frames it has taken out of its buffer
  out,             \* bytes it has handed on
  refused          \* it answered -1: the connection is given up

sender == <<has_sent_header, pack_id, connection_id, client_id, headers, packed, writes, connections>>
reader == <<read, recv_buffer_size, recv_id, taken, out, refused>>
vars == <<proto, dir, sender, wire, reader>>

Smaller(a, b) == IF a < b THEN a ELSE b

\* The padding's length, counted from its own first byte: one byte, or 0xFF and two.
PaddingMark(r) == IF r < 128 THEN <<r>> ELSE <<255, r \div 256, r % 256>>

MarkedPadding(mark) == IF mark[1] < 255 THEN mark[1] ELSE 256 * mark[2] + mark[3]

Frame(length, r, n, id) == [length |-> length, mark |-> PaddingMark(r), data |-> n, id |-> id, fault |-> "none"]

\* The padding drawn for n bytes, where want is what the generator would like.
PadSmall(want) == Smaller(want, 16)
PadShort(want) == Smaller(want, 128)
PadV2(n, want) == Smaller(want, IF n > 1300 THEN 1 ELSE IF n > 400 THEN 128 ELSE 1024)
PadAes(n, id, want) ==
  IF want = 1 \/ n > 1200 THEN 1 ELSE IF id > 4 THEN 33 ELSE IF n > 900 THEN 129 ELSE 513
PadAesHead(n, want) == IF want = 1 THEN 0 ELSE IF n > 400 THEN 512 ELSE 1024

verify_simple_pack_data(n, want) == Frame(PadSmall(want) + n + 6, PadSmall(want), n, 0)
auth_simple_pack_data(n, want) == Frame(PadSmall(want) + n + 6, PadSmall(want), n, 0)
auth_sha1_pack_data(n, want) == Frame(PadSmall(want) + n + 6, PadSmall(want), n, 0)
auth_sha1_v2_pack_data(n, want) == Frame(PadV2(n, want) + n + 6, PadV2(n, want), n, 0)
auth_sha1_v4_pack_data(n, want) == Frame(PadV2(n, want) + n + 8, PadV2(n, want), n, 0)
auth_aes128_sha1_pack_data(n, id, want) == Frame(PadAes(n, id, want) + n + 8, PadAes(n, id, want), n, id)

\* The header frames: client id, connection id and the head of the request.
auth_simple_pack_auth_data(n, want) == Frame(PadSmall(want) + n + 18, PadSmall(want), n, 0)
auth_sha1_pack_auth_data(n, want) == Frame(PadShort(want) + n + 28, PadShort(want), n, 0)
auth_sha1_v2_pack_auth_data(n, want) == Frame(PadV2(n, want) + n + 28, PadV2(n, want), n, 0)
auth_sha1_v4_pack_auth_data(n, want) == Frame(PadV2(n, want) + n + 28, PadV2(n, want), n, 0)
auth_aes128_sha1_pack_auth_data(n, want) == Frame(PadAesHead(n, want) + n + 35, PadAesHead(n, want), n, 0)

PackData(n, id, want) ==
  CASE proto = "verify_simple" -> verify_simple_pack_data(n, want)
    [] proto = "auth_simple" -> auth_simple_pack_data(n, want)
    [] proto = "auth_sha1" -> auth_sha1_pack_data(n, want)
    [] proto = "auth_sha1_v2" -> auth_sha1_v2_pack_data(n, want)
    [] proto = "auth_sha1_v4" -> auth_sha1_v4_pack_data(n, want)
    [] proto = "auth_aes128_sha1" -> auth_aes128_sha1_pack_data(n, id, want)

PackAuthData(n, want) ==
  CASE proto = "auth_simple" -> auth_simple_pack_auth_data(n, want)
    [] proto = "auth_sha1" -> auth_sha1_pack_auth_data(n, want)
    [] proto = "auth_sha1_v2" -> auth_sha1_v2_pack_auth_data(n, want)
    [] proto = "auth_sha1_v4" -> auth_sha1_v4_pack_auth_data(n, want)
    [] proto = "auth_aes128_sha1" -> auth_aes128_sha1_pack_auth_data(n, want)

\* "while (len > unit) ...; if (len > 0) ...": how many frames n bytes make.
Units(n) == IF n = 0 THEN 0 ELSE 1 + (n - 1) \div pack_unit_size

PackAll(n, id, want) ==
  [i \in 1..Units(n) |->
     PackData(IF i < Units(n) THEN pack_unit_size ELSE n - pack_unit_size * (Units(n) - 1),
              id + i - 1, want)]

\* Mutant of auth_simple_client_pre_encrypt: the slack that does for a connection's later calls.
AuthSimpleSlackSmall == 32

\* What each pre_encrypt allocates for its out_buffer, over twice the bytes it packs.
verify_simple_client_pre_encrypt == 32
auth_simple_client_pre_encrypt == 64
auth_sha1_client_pre_encrypt == 256
auth_sha1_v2_client_pre_encrypt == 4096
auth_sha1_v4_client_pre_encrypt == 4096
auth_aes128_sha1_client_pre_encrypt == 4096

Slack ==
  CASE proto = "verify_simple" -> verify_simple_client_pre_encrypt
    [] proto = "auth_simple" -> auth_simple_client_pre_encrypt
    [] proto = "auth_sha1" -> auth_sha1_client_pre_encrypt
    [] proto = "auth_sha1_v2" -> auth_sha1_v2_client_pre_encrypt
    [] proto = "auth_sha1_v4" -> auth_sha1_v4_client_pre_encrypt
    [] proto = "auth_aes128_sha1" -> auth_aes128_sha1_client_pre_encrypt

\* The head of the request that goes into the header frame.
HeadOf(n, head) == Smaller(n, IF proto = "auth_aes128_sha1" THEN 1200 ELSE IF n < 2 THEN 30 ELSE head)

Nothing == [bytes |-> 0, frames |-> <<>>, room |-> 0]
Total(frames) == Sum([i \in DOMAIN frames |-> frames[i].length])
Payload(frames) == Sum([i \in DOMAIN frames |-> frames[i].data])
End(k) == Total(SubSeq(wire, 1, k))
WithoutHeader == proto = "verify_simple"

\* auth_simple_init_data, the new_obfs of the plugin
Init ==
  /\ proto \in Protocols /\ dir \in {"up", "down"}
  /\ has_sent_header = FALSE /\ pack_id = 1
  /\ connection_id \in FirstIds /\ client_id = 1
  /\ headers = <<>> /\ packed = Nothing /\ writes = 0 /\ connections = 1
  /\ wire = <<>> /\ read = 0
  /\ recv_buffer_size = 0 /\ recv_id = 1 /\ taken = 0 /\ out = 0 /\ refused = FALSE

\* Mutants of NextIds: a new start is drawn under the old client id; the counter runs on.
NextIdsSameClient(ids) ==
  IF ids.connection + 1 > LastId
    THEN {[ids EXCEPT !.connection = i] : i \in FirstIds}
    ELSE {[ids EXCEPT !.connection = @ + 1]}
NextIdsOn(ids) == {[ids EXCEPT !.connection = @ + 1]}

\* ++connection_id; past the last one a new client id and a new start are drawn.
NextIds(ids) ==
  IF ids.connection + 1 > LastId
    THEN {[client |-> ids.client + 1, connection |-> i] : i \in FirstIds}
    ELSE {[ids EXCEPT !.connection = @ + 1]}

Packs(n, frames) ==
  /\ packed' = [bytes |-> n, frames |-> frames, room |-> 2 * n + Slack]
  /\ writes' = writes + 1

\* client_pre_encrypt of a connection that has not sent its header: the head goes first.
PacksHeader(n) ==
  /\ dir = "up" /\ ~WithoutHeader /\ ~has_sent_header /\ writes < MaxWrites
  /\ \E head \in HeadSizes, want \in Paddings :
       LET h == HeadOf(n, head)
           rest == PackAll(n - h, pack_id, want)
       IN  /\ Packs(n, <<PackAuthData(h, want)>> \o rest)
           /\ pack_id' = pack_id + Len(rest)
  /\ \E ids \in NextIds([client |-> client_id, connection |-> connection_id]) :
       /\ client_id' = ids.client /\ connection_id' = ids.connection
       /\ headers' = Append(headers, ids)
  /\ has_sent_header' = TRUE
  /\ UNCHANGED <<proto, dir, connections, wire, reader>>

\* Any later call, and every call of verify_simple and of the server's pre_encrypt.
PacksData(n) ==
  /\ dir = "up" => WithoutHeader \/ has_sent_header
  /\ writes < MaxWrites
  /\ \A i \in DOMAIN wire : wire[i].fault = "none"
  /\ \E want \in Paddings :
       LET frames == PackAll(n, pack_id, want)
       IN  /\ Packs(n, frames)
           /\ pack_id' = pack_id + Len(frames)
           /\ wire' = IF dir = "up" /\ ~WithoutHeader THEN wire ELSE wire \o frames
  /\ UNCHANGED <<proto, dir, has_sent_header, connection_id, client_id, headers, connections, reader>>

\* The client opens another connection: local data anew, the global data shared.
NewConnection ==
  /\ dir = "up" /\ ~WithoutHeader /\ has_sent_header /\ connections < MaxConnections
  /\ has_sent_header' = FALSE /\ pack_id' = 1 /\ packed' = Nothing /\ writes' = 0
  /\ connections' = connections + 1
  /\ UNCHANGED <<proto, dir, connection_id, client_id, headers, wire, reader>>

\* The peer has another key or is no peer at all: its next frame does not check.
PacksBad ==
  /\ dir = "down" \/ WithoutHeader
  /\ writes < MaxWrites /\ \A i \in DOMAIN wire : wire[i].fault = "none"
  /\ \E fault \in {"long", "short", "sum"}, n \in WriteSizes \ {0} :
       LET f == PackData(Smaller(n, pack_unit_size), pack_id, 1)
       IN  wire' = Append(wire, [f EXCEPT !.fault = fault])
  /\ writes' = writes + 1 /\ pack_id' = pack_id + 1
  /\ UNCHANGED <<proto, dir, has_sent_header, connection_id, client_id, headers, packed, connections, reader>>

\* How each post_decrypt reads: it looks at the buffer once it holds more than look bytes,
\* takes no frame shorter than least, and finds the padding's mark behind lead bytes.
verify_simple_client_post_decrypt == [look |-> 2, least |-> 7, lead |-> 2]
verify_simple_server_post_decrypt == [look |-> 2, least |-> 7, lead |-> 2]
auth_simple_client_post_decrypt == [look |-> 2, least |-> 7, lead |-> 2]
auth_sha1_client_post_decrypt == [look |-> 2, least |-> 7, lead |-> 2]
auth_sha1_v2_client_post_decrypt == [look |-> 2, least |-> 7, lead |-> 2]
auth_sha1_v4_client_post_decrypt == [look |-> 4, least |-> 7, lead |-> 4]
auth_aes128_sha1_client_post_decrypt == [look |-> 4, least |-> 8, lead |-> 4]

PostDecrypt ==
  CASE proto = "verify_simple" -> IF dir = "up" THEN verify_simple_server_post_decrypt
                                  ELSE verify_simple_client_post_decrypt
    [] proto = "auth_simple" -> auth_simple_client_post_decrypt
    [] proto = "auth_sha1" -> auth_sha1_client_post_decrypt
    [] proto = "auth_sha1_v2" -> auth_sha1_v2_client_post_decrypt
    [] proto = "auth_sha1_v4" -> auth_sha1_v4_client_post_decrypt
    [] proto = "auth_aes128_sha1" -> auth_aes128_sha1_client_post_decrypt

\* The length a frame's first bytes say.
LengthField(f) == CASE f.fault = "long" -> 8192 [] f.fault = "short" -> 6 [] OTHER -> f.length

\* Whether the loop answers -1 at frame f, the n-th it takes, with size bytes in the buffer.
Refuses(f, n, size) ==
  \/ LengthField(f) >= 8192 \/ LengthField(f) < PostDecrypt.least
  \/ proto \in Counted /\ f.id # n
  \/ LengthField(f) <= size /\ f.fault = "sum"

PayloadOf(f) == f.length - (MarkedPadding(f.mark) + PostDecrypt.lead) - 4

\* Mutant of Loop: one frame for each call.
LoopOnce(size) ==
  LET f == wire[taken + 1]
      whole == size > PostDecrypt.look /\ f.length <= size
      errs == size > PostDecrypt.look /\ Refuses(f, recv_id, size)
  IN  IF taken < Len(wire) /\ whole /\ ~errs
        THEN [frames |-> 1, left |-> size - f.length, error |-> FALSE]
        ELSE [frames |-> 0, left |-> size, error |-> taken < Len(wire) /\ errs]

\* What a call with size bytes in the buffer takes before it stops, and whether it stops at an
\* error.  The loop goes round while more than look bytes are left and a whole frame is there.
Loop(size) ==
  LET left(k) == size - (End(taken + k) - End(taken))
      next(k) == wire[taken + k + 1]
      errs(k) == left(k) > PostDecrypt.look /\ Refuses(next(k), recv_id + k, left(k))
      stops(k) == left(k) <= PostDecrypt.look \/ errs(k) \/ next(k).length > left(k)
      n == Min({k \in 0..(Len(wire) - taken) : stops(k)})
  IN  [frames |-> n, left |-> left(n), error |-> errs(n)]

\* Whether the buffer is too small for n more bytes.
Overflows(n) == recv_buffer_size + n > RECV_BUFFER

\* post_decrypt with the next n bytes of the stream.  An error empties the buffer, and what
\* the same call had taken is not handed on.
Receives(n) ==
  LET took == Loop(recv_buffer_size + n)
      kept == SubSeq(wire, taken + 1, taken + took.frames)
  IN  IF Overflows(n)
        THEN refused' = TRUE /\ UNCHANGED <<recv_buffer_size, recv_id, taken, out>>
        ELSE /\ refused' = took.error
             /\ recv_buffer_size' = IF took.error THEN 0 ELSE took.left
             /\ taken' = taken + took.frames
             /\ recv_id' = IF proto \in Counted THEN recv_id + took.frames ELSE recv_id
             /\ out' = IF took.error THEN out
                       ELSE out + Sum([i \in DOMAIN kept |-> PayloadOf(kept[i])])

\* TCP hands the reader a piece: all there is up to a read, or as far as near a frame's end.
Receive ==
  /\ ~refused
  /\ \E to \in {End(k) + d : k \in 0..Len(wire), d \in Cuts}
                \cup {read + BUF_SIZE, Total(wire)} :
       /\ to > read /\ to <= Total(wire) /\ to <= read + BUF_SIZE
       /\ Receives(to - read)
       /\ read' = to
  /\ UNCHANGED <<proto, dir, sender, wire>>

Next ==
  \/ \E n \in WriteSizes : PacksHeader(n)
  \/ \E n \in WriteSizes : PacksData(n)
  \/ PacksBad
  \/ NewConnection
  \/ Receive

Spec == Init /\ [][Next]_vars
-----------------------------------------------------------------------------
Byte == 0..255
FrameType ==
  [length : Nat, mark : Seq(Byte), data : Nat, id : Nat, fault : {"none", "long", "short", "sum"}]

\* The variables have their types, and no counter passes its bound.
TypeOK ==
  /\ proto \in Protocols /\ dir \in {"up", "down"}
  /\ has_sent_header \in BOOLEAN /\ pack_id \in Nat /\ recv_id \in Nat
  /\ connection_id \in 0..LastId /\ client_id \in Nat
  /\ \A i \in DOMAIN headers : headers[i] \in [client : Nat, connection : 0..LastId]
  /\ wire \in Seq(FrameType) /\ packed.frames \in Seq(FrameType)
  /\ writes \in 0..MaxWrites /\ connections \in 1..MaxConnections
  /\ recv_buffer_size \in 0..RECV_BUFFER /\ read \in Nat /\ taken \in 0..Len(wire) /\ out \in Nat
  /\ refused \in BOOLEAN

\* However TCP cuts the stream, what post_decrypt has handed on is the payload of the frames it
\* has taken, those are all the frames it has whole, and its buffer holds the rest of the
\* stream.  It answers -1 to a bad frame and to nothing else: an honest peer's pieces never
\* look wrong, too long or too many.
Reassembles ==
  /\ ~refused =>
       /\ out = Payload(SubSeq(wire, 1, taken))
       /\ recv_buffer_size = read - End(taken)
       /\ taken < Len(wire) => read < End(taken + 1)
  /\ refused => taken < Len(wire) /\ wire[taken + 1].fault # "none"
  /\ \A i \in 1..taken : wire[i].fault = "none"

\* Every pre_encrypt packs all its bytes, inside the out_buffer it allocates for them, whatever
\* padding is drawn, in frames that a reader's length check lets through.
PackingFits ==
  /\ Payload(packed.frames) = packed.bytes
  /\ Total(packed.frames) <= packed.room
  /\ \A i \in DOMAIN packed.frames : 8 <= packed.frames[i].length /\ packed.frames[i].length <= 8191

\* No two connections of a client send the same client id and connection id, not even after
\* the counter has come to its end and begun again: by them a server knows a repeated header.
HeadersDistinct ==
  \A i, j \in DOMAIN headers : headers[i] = headers[j] => i = j
=============================================================================
