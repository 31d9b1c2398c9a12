----------------------------- MODULE StreamProofs -----------------------------
(***************************************************************************)
(* Proofs for Frames and for OtaChunks: every invariant their runs check.  *)
(* Both are about a stream that TCP cuts anywhere and that is put together *)
(* again, and share the lemmas about sums.                                 *)
(*                                                                         *)
(* Frames: the header frames of one client of the auth_* plugins are told  *)
(* apart by their ids, for any start and any last value of the counter,    *)
(* and any number of connections.  Frame by frame the packing and the      *)
(* reading functions agree, for any sizes and paddings: what is packed is  *)
(* never refused, and read as the payload it was.  So do the sums over     *)
(* many frames: whatever is packed fits its buffer, and however the stream *)
(* is cut, the reader hands on the payload of the frames it has whole.     *)
(*                                                                         *)
(* OtaChunks: the loop of ss_check_hash keeps an invariant of its own      *)
(* (Going), turn by turn: the bytes still to come are behind those put     *)
(* back, and there is room for both.  With it the chunks gathered, checked *)
(* and handed on are the client's, for any sizes and any cuts.             *)
(*                                                                         *)
(* Sums are reasoned about by induction over sets of numbers: a set that   *)
(* has 0, and with each number the next, has all of them (UpTo).           *)
(***************************************************************************)
EXTENDS Frames, OtaChunks, SequenceTheorems, WellFoundedInduction, TLAPS

LOCAL INSTANCE FiniteSetsExt

Id == [client : Nat, connection : Nat]

\* The ids in use: those of the connection that comes last.
Current == [client |-> client_id, connection |-> connection_id]

\* One pair of ids comes after another.
After(a, b) == a.client > b.client \/ (a.client = b.client /\ a.connection > b.connection)

\* Ids only go up: no header sent is after the current pair.
IdsInv ==
  /\ client_id \in Nat /\ connection_id \in Nat
  /\ headers \in Seq(Id)
  /\ \A i \in DOMAIN headers : ~After(headers[i], Current)
  /\ HeadersDistinct

\* Each pair drawn comes after the one before it.
LEMMA NextIsAfter ==
  ASSUME IdsInv, NEW ids \in NextIds(Current)
  PROVE  ids \in Id /\ After(ids, Current)
<1>1. Current \in Id
  BY DEF IdsInv, Current, Id
<1>2. CASE connection_id + 1 > LastId
  BY <1>1, <1>2, FirstIdsAssumption DEF NextIds, Current, After, Id, IdsInv
<1>3. CASE ~(connection_id + 1 > LastId)
  <2>1. ids = [Current EXCEPT !.connection = @ + 1]
    BY <1>3 DEF NextIds, Current
  <2> QED BY <1>1, <2>1 DEF After, Id
<1> QED BY <1>2, <1>3

\* A header with ids that come after all those before is another one.
LEMMA HeaderKeeps ==
  ASSUME IdsInv, NEW ids \in NextIds(Current),
         client_id' = ids.client, connection_id' = ids.connection, headers' = Append(headers, ids)
  PROVE  IdsInv'
<1>1. ids \in Id /\ After(ids, Current)
  BY NextIsAfter
<1>2. client_id' \in Nat /\ connection_id' \in Nat /\ headers' \in Seq(Id)
  BY <1>1 DEF IdsInv, Id
<1>3. /\ DOMAIN headers = 1..Len(headers) /\ Len(headers) \in Nat
      /\ DOMAIN headers' = 1..(Len(headers) + 1)
      /\ \A i \in DOMAIN headers : headers'[i] = headers[i] /\ headers[i] \in Id
      /\ headers'[Len(headers) + 1] = ids
  BY <1>1 DEF IdsInv
<1>4. \A i \in DOMAIN headers : After(ids, headers[i])
  <2>1. Current \in Id /\ \A i \in DOMAIN headers : headers[i] \in Id /\ ~After(headers[i], Current)
    BY <1>3 DEF IdsInv, Current, Id
  <2>2. \A h \in Id : ~After(h, Current) => After(ids, h)
    BY <1>1, <2>1 DEF After, Id
  <2> QED BY <2>1, <2>2
<1>5. \A i \in DOMAIN headers' : ~After(headers'[i], Current')
  <2>1. Current'.client = ids.client /\ Current'.connection = ids.connection
    BY DEF Current
  <2> QED BY <1>1, <1>3, <1>4, <2>1 DEF After, Id
<1>6. HeadersDistinct'
  <2>1. \A i \in DOMAIN headers : headers[i] # ids
    BY <1>1, <1>3, <1>4 DEF After, Id
  <2> QED BY <1>3, <2>1 DEF IdsInv, HeadersDistinct
<1> QED BY <1>2, <1>5, <1>6 DEF IdsInv

\* No two connections of a client send the same pair of ids (auth_simple_pack_auth_data and
\* its kin), whatever the counter starts from when a new client id is drawn.
THEOREM IdsNeverRepeat == Spec => []HeadersDistinct
<1>1. Init => IdsInv
  BY FirstIdsAssumption DEF Init, IdsInv, HeadersDistinct, Current, After
<1>2. IdsInv /\ [Next]_vars => IdsInv'
  <2> SUFFICES ASSUME IdsInv, [Next]_vars PROVE IdsInv'
    OBVIOUS
  <2>1. ASSUME NEW n \in WriteSizes, PacksHeader(n) PROVE IdsInv'
    <3>1. PICK ids \in NextIds(Current) :
            client_id' = ids.client /\ connection_id' = ids.connection /\ headers' = Append(headers, ids)
      BY <2>1 DEF PacksHeader, Current
    <3> QED BY <3>1, HeaderKeeps
  <2>2. CASE UNCHANGED <<client_id, connection_id, headers>>
    BY <2>2 DEF IdsInv, HeadersDistinct, Current, After
  <2> QED BY <2>1, <2>2 DEF Next, PacksData, PacksBad, NewConnection, Receive, sender, vars
<1>3. IdsInv => HeadersDistinct
  BY DEF IdsInv
<1> QED BY <1>1, <1>2, <1>3, PTL DEF Spec
-----------------------------------------------------------------------------
(* Frame by frame, reader and packer agree.                                *)

Kinds == {"verify_simple", "auth_simple", "auth_sha1", "auth_sha1_v2", "auth_sha1_v4", "auth_aes128_sha1"}
\* A frame an honest peer sends as its i-th: post_decrypt finds the payload that was packed,
\* and however many bytes it has, sees nothing wrong with it.
Honest(f, i) ==
  /\ PayloadOf(f) = f.data
  /\ \A size \in Nat : ~Refuses(f, i, size)

\* A frame whose length a reader lets through.
Sized(f) == f \in FrameType /\ f.length >= 8 /\ f.length <= 8191

Reads == dir = "down" \/ WithoutHeader

\* The ids an honest peer gives go on with those of the frames it has sent.
FramesInv ==
  /\ proto \in Kinds /\ dir \in {"up", "down"} /\ pack_id \in Nat \ {0}
  /\ wire \in Seq(FrameType) /\ packed.frames \in Seq(FrameType)
  /\ IF Reads THEN pack_id = Len(wire) + 1 ELSE wire = <<>>
  /\ \A i \in DOMAIN packed.frames : Sized(packed.frames[i])
  /\ \A i \in DOMAIN wire : Sized(wire[i])
  /\ \A i \in DOMAIN wire : wire[i].fault = "none" => Honest(wire[i], i)

\* A padding's length is what its mark says, in one byte or in three.
LEMMA MarkSays ==
  ASSUME NEW r \in Nat, r <= 1024
  PROVE  PaddingMark(r) \in Seq(Byte) /\ MarkedPadding(PaddingMark(r)) = r
<1>0. \A b \in Nat : b <= 255 => b \in Byte
  BY DEF Byte
<1>1. CASE r < 128
  <2>1. r \in Byte
    BY <1>0, <1>1
  <2>2. PaddingMark(r) = <<r>>
    BY <1>1 DEF PaddingMark
  <2> QED BY <1>1, <2>1, <2>2 DEF MarkedPadding
<1>2. CASE ~(r < 128)
  <2>1. r \div 256 \in Nat /\ r % 256 \in Nat /\ 256 * (r \div 256) + (r % 256) = r
        /\ r \div 256 <= 255 /\ r % 256 <= 255
    OBVIOUS
  <2>2. PaddingMark(r) = <<255, r \div 256, r % 256>>
    BY <1>2 DEF PaddingMark
  <2>3. r \div 256 \in Byte /\ r % 256 \in Byte /\ 255 \in Byte
    BY <1>0, <2>1
  <2> QED BY <2>1, <2>2, <2>3 DEF MarkedPadding
<1> QED BY <1>1, <1>2

\* The paddings drawn are within bounds: of auth_aes128_sha1,
LEMMA PaddingBounds ==
  ASSUME NEW n \in Nat, NEW id \in Nat, NEW want \in Nat \ {0}
  PROVE  PadAes(n, id, want) \in Nat /\ PadAes(n, id, want) >= 1 /\ PadAes(n, id, want) <= 513
BY DEF PadAes

\* Those drawn from one range ...
LEMMA SmallPaddingBounds ==
  ASSUME NEW want \in Nat \ {0}
  PROVE  /\ PadSmall(want) \in Nat /\ PadSmall(want) >= 1 /\ PadSmall(want) <= 16
         /\ PadShort(want) \in Nat /\ PadShort(want) >= 1 /\ PadShort(want) <= 128
BY DEF PadSmall, PadShort, Smaller

\* ... and those whose range depends on the bytes to be packed.
LEMMA LongPaddingBounds ==
  ASSUME NEW n \in Nat, NEW want \in Nat \ {0}
  PROVE  /\ PadV2(n, want) \in Nat /\ PadV2(n, want) >= 1 /\ PadV2(n, want) <= 1024
         /\ PadAesHead(n, want) \in Nat /\ PadAesHead(n, want) <= 1024
BY DEF PadV2, PadAesHead, Smaller

\* Frame f was made of these counts.
Made(f, r, n, more, id) ==
  /\ f \in FrameType /\ f.length = r + n + more /\ f.data = n /\ f.id = id
  /\ f.fault = "none" /\ MarkedPadding(f.mark) = r

\* How the plugin reads.
Reader(lead) == PostDecrypt.lead = lead /\ PostDecrypt.least \in {7, 8}

\* Id k will do where a reader that looks at ids waits for this one.
Numbers(k, id) == proto \in Counted => k = id

\* A frame is made of the counts it is given, and its mark says its padding.
LEMMA FrameMade ==
  ASSUME NEW r \in Nat, r <= 1024, NEW n \in Nat, NEW more \in Nat, NEW id \in Nat,
         NEW length, length = r + n + more
  PROVE  Made(Frame(length, r, n, id), r, n, more, id)
<1>1. r \in Nat /\ length \in Nat /\ n \in Nat
  OBVIOUS
<1>2. PaddingMark(r) \in Seq(Byte) /\ MarkedPadding(PaddingMark(r)) = r
  BY <1>1, MarkSays
<1> QED BY <1>1, <1>2 DEF Made, Frame, FrameType

\* Its length is within the bounds the readers set.
LEMMA MadeSized ==
  ASSUME NEW f, NEW r \in Nat, NEW n \in Nat, NEW more \in Nat, NEW id, Made(f, r, n, more, id),
         r + n + more >= 8, r <= 1024, n <= 2000, more <= 40
  PROVE  Sized(f)
BY DEF Made, Sized

\* A reader that looks for the padding where the packer put it finds the payload, and has
\* nothing to refuse.
LEMMA MadeHonest ==
  ASSUME NEW f, NEW r \in Nat, NEW n \in Nat, r >= 1, r <= 1024, n >= 1, n <= 2000,
         NEW lead \in {2, 4}, NEW more, more = lead + 4, NEW id \in Nat, NEW k \in Nat, Made(f, r, n, more, k), Reader(lead),
         Numbers(k, id)
  PROVE  Honest(f, id)
<1>1. f.length >= 8 /\ f.length <= 8191
  BY DEF Made
<1>2. PayloadOf(f) = f.data
  BY DEF Made, Reader, PayloadOf
<1>3. ASSUME NEW size \in Nat PROVE ~Refuses(f, id, size)
  <2>1. LengthField(f) = f.length
    BY DEF Made, LengthField
  <2> QED BY <1>1, <2>1 DEF Made, Reader, Numbers, Refuses
<1> QED BY <1>2, <1>3 DEF Honest

\* What *_pack_data makes of a piece: the reader's lead and its four bytes of checksum are
\* what the packer adds to padding and payload.
LEMMA PackDataHonest ==
  ASSUME proto \in Kinds, NEW n \in Nat, n >= 1, n <= 2000, NEW id \in Nat, NEW want \in Nat \ {0}
  PROVE  Sized(PackData(n, id, want)) /\ Honest(PackData(n, id, want), id)
<1> DEFINE f == PackData(n, id, want)
<1> HIDE DEF f
<1>1. PICK r \in Nat, lead \in {2, 4}, more \in {6, 8}, k \in {0, id} :
        /\ r >= 1 /\ r <= 1024 /\ Made(f, r, n, more, k)
        /\ more = lead + 4 /\ Reader(lead) /\ Numbers(k, id)
  <2>1. CASE proto = "verify_simple"
    <3> DEFINE r == PadSmall(want)
    <3>1. f = Frame(r + n + 6, r, n, 0)
      BY <2>1 DEF f, PackData, verify_simple_pack_data
    <3>2. r \in Nat /\ r >= 1 /\ r <= 1024
      BY PaddingBounds, SmallPaddingBounds, LongPaddingBounds
    <3> HIDE DEF r
    <3>3. Made(f, r, n, 6, 0)
      BY <3>1, <3>2, FrameMade
    <3>4. 6 = 2 + 4 /\ Reader(2) /\ Numbers(0, id)
      BY <2>1 DEF Reader, Numbers, PostDecrypt, Counted, verify_simple_client_post_decrypt,
             verify_simple_server_post_decrypt
    <3> QED BY <3>2, <3>3, <3>4
  <2>2. CASE proto = "auth_simple"
    <3> DEFINE r == PadSmall(want)
    <3>1. f = Frame(r + n + 6, r, n, 0)
      BY <2>2 DEF f, PackData, auth_simple_pack_data
    <3>2. r \in Nat /\ r >= 1 /\ r <= 1024
      BY PaddingBounds, SmallPaddingBounds, LongPaddingBounds
    <3> HIDE DEF r
    <3>3. Made(f, r, n, 6, 0)
      BY <3>1, <3>2, FrameMade
    <3>4. 6 = 2 + 4 /\ Reader(2) /\ Numbers(0, id)
      BY <2>2 DEF Reader, Numbers, PostDecrypt, Counted, auth_simple_client_post_decrypt
    <3> QED BY <3>2, <3>3, <3>4
  <2>3. CASE proto = "auth_sha1"
    <3> DEFINE r == PadSmall(want)
    <3>1. f = Frame(r + n + 6, r, n, 0)
      BY <2>3 DEF f, PackData, auth_sha1_pack_data
    <3>2. r \in Nat /\ r >= 1 /\ r <= 1024
      BY PaddingBounds, SmallPaddingBounds, LongPaddingBounds
    <3> HIDE DEF r
    <3>3. Made(f, r, n, 6, 0)
      BY <3>1, <3>2, FrameMade
    <3>4. 6 = 2 + 4 /\ Reader(2) /\ Numbers(0, id)
      BY <2>3 DEF Reader, Numbers, PostDecrypt, Counted, auth_sha1_client_post_decrypt
    <3> QED BY <3>2, <3>3, <3>4
  <2>4. CASE proto = "auth_sha1_v2"
    <3> DEFINE r == PadV2(n, want)
    <3>1. f = Frame(r + n + 6, r, n, 0)
      BY <2>4 DEF f, PackData, auth_sha1_v2_pack_data
    <3>2. r \in Nat /\ r >= 1 /\ r <= 1024
      BY PaddingBounds, SmallPaddingBounds, LongPaddingBounds
    <3> HIDE DEF r
    <3>3. Made(f, r, n, 6, 0)
      BY <3>1, <3>2, FrameMade
    <3>4. 6 = 2 + 4 /\ Reader(2) /\ Numbers(0, id)
      BY <2>4 DEF Reader, Numbers, PostDecrypt, Counted, auth_sha1_v2_client_post_decrypt
    <3> QED BY <3>2, <3>3, <3>4
  <2>5. CASE proto = "auth_sha1_v4"
    <3> DEFINE r == PadV2(n, want)
    <3>1. f = Frame(r + n + 8, r, n, 0)
      BY <2>5 DEF f, PackData, auth_sha1_v4_pack_data
    <3>2. r \in Nat /\ r >= 1 /\ r <= 1024
      BY PaddingBounds, SmallPaddingBounds, LongPaddingBounds
    <3> HIDE DEF r
    <3>3. Made(f, r, n, 8, 0)
      BY <3>1, <3>2, FrameMade
    <3>4. 8 = 4 + 4 /\ Reader(4) /\ Numbers(0, id)
      BY <2>5 DEF Reader, Numbers, PostDecrypt, Counted, auth_sha1_v4_client_post_decrypt
    <3> QED BY <3>2, <3>3, <3>4
  <2>6. CASE proto = "auth_aes128_sha1"
    <3> DEFINE r == PadAes(n, id, want)
    <3>1. f = Frame(r + n + 8, r, n, id)
      BY <2>6 DEF f, PackData, auth_aes128_sha1_pack_data
    <3>2. r \in Nat /\ r >= 1 /\ r <= 1024
      BY PaddingBounds
    <3> HIDE DEF r
    <3>3. Made(f, r, n, 8, id)
      BY <3>1, <3>2, FrameMade
    <3>4. 8 = 4 + 4 /\ Reader(4) /\ Numbers(id, id)
      BY <2>6 DEF Reader, Numbers, PostDecrypt, Counted, auth_aes128_sha1_client_post_decrypt
    <3> QED BY <3>2, <3>3, <3>4
  <2> QED BY <2>1, <2>2, <2>3, <2>4, <2>5, <2>6 DEF Kinds
<1>2. more \in Nat /\ more <= 40 /\ r + n + more >= 8 /\ k \in Nat
  BY <1>1
<1>3. Sized(f)
  BY <1>1, <1>2, MadeSized
<1>4. Honest(f, id)
  BY <1>1, <1>2, MadeHonest
<1> QED BY <1>3, <1>4 DEF f

\* The header frames' lengths.
LEMMA PackAuthDataSized ==
  ASSUME proto \in Kinds, ~WithoutHeader, NEW n \in Nat, n <= 1200, NEW want \in Nat \ {0}
  PROVE  Sized(PackAuthData(n, want))
<1> DEFINE f == PackAuthData(n, want)
<1> HIDE DEF f
<1>1. PICK r \in Nat, more \in {18, 28, 35} : r <= 1024 /\ Made(f, r, n, more, 0)
  <2>1. CASE proto = "auth_simple"
    <3> DEFINE r == PadSmall(want)
    <3>1. f = Frame(r + n + 18, r, n, 0)
      BY <2>1 DEF f, PackAuthData, auth_simple_pack_auth_data
    <3>2. r \in Nat /\ r <= 1024
      BY PaddingBounds, SmallPaddingBounds, LongPaddingBounds
    <3> HIDE DEF r
    <3>3. Made(f, r, n, 18, 0)
      BY <3>1, <3>2, FrameMade
    <3> QED BY <3>2, <3>3
  <2>2. CASE proto = "auth_sha1"
    <3> DEFINE r == PadShort(want)
    <3>1. f = Frame(r + n + 28, r, n, 0)
      BY <2>2 DEF f, PackAuthData, auth_sha1_pack_auth_data
    <3>2. r \in Nat /\ r <= 1024
      BY PaddingBounds, SmallPaddingBounds, LongPaddingBounds
    <3> HIDE DEF r
    <3>3. Made(f, r, n, 28, 0)
      BY <3>1, <3>2, FrameMade
    <3> QED BY <3>2, <3>3
  <2>3. CASE proto = "auth_sha1_v2"
    <3> DEFINE r == PadV2(n, want)
    <3>1. f = Frame(r + n + 28, r, n, 0)
      BY <2>3 DEF f, PackAuthData, auth_sha1_v2_pack_auth_data
    <3>2. r \in Nat /\ r <= 1024
      BY PaddingBounds, SmallPaddingBounds, LongPaddingBounds
    <3> HIDE DEF r
    <3>3. Made(f, r, n, 28, 0)
      BY <3>1, <3>2, FrameMade
    <3> QED BY <3>2, <3>3
  <2>4. CASE proto = "auth_sha1_v4"
    <3> DEFINE r == PadV2(n, want)
    <3>1. f = Frame(r + n + 28, r, n, 0)
      BY <2>4 DEF f, PackAuthData, auth_sha1_v4_pack_auth_data
    <3>2. r \in Nat /\ r <= 1024
      BY PaddingBounds, SmallPaddingBounds, LongPaddingBounds
    <3> HIDE DEF r
    <3>3. Made(f, r, n, 28, 0)
      BY <3>1, <3>2, FrameMade
    <3> QED BY <3>2, <3>3
  <2>5. CASE proto = "auth_aes128_sha1"
    <3> DEFINE r == PadAesHead(n, want)
    <3>1. f = Frame(r + n + 35, r, n, 0)
      BY <2>5 DEF f, PackAuthData, auth_aes128_sha1_pack_auth_data
    <3>2. r \in Nat /\ r <= 1024
      BY PaddingBounds, SmallPaddingBounds, LongPaddingBounds
    <3> HIDE DEF r
    <3>3. Made(f, r, n, 35, 0)
      BY <3>1, <3>2, FrameMade
    <3> QED BY <3>2, <3>3
  <2> QED BY <2>1, <2>2, <2>3, <2>4, <2>5 DEF Kinds, WithoutHeader
<1>2. n <= 2000 /\ more \in Nat /\ more <= 40 /\ r + n + more >= 8
  OBVIOUS
<1>3. Sized(f)
  BY <1>1, <1>2, MadeSized
<1> QED BY <1>3 DEF f

\* A frame of such a length is a frame.
LEMMA SizedIsFrame == \A f : Sized(f) => f \in FrameType
BY DEF Sized

\* The pieces of the loop: 1 to 2000 bytes each.
Piece(n, i) == IF i < Units(n) THEN pack_unit_size ELSE n - pack_unit_size * (Units(n) - 1)

\* None is empty, and none is longer than a unit.
LEMMA PiecesSized ==
  ASSUME NEW n \in Nat
  PROVE  Units(n) \in Nat /\ \A i \in 1..Units(n) :
                                 Piece(n, i) \in Nat /\ Piece(n, i) >= 1 /\ Piece(n, i) <= 2000
<1>1. CASE n = 0
  BY <1>1 DEF Units
<1>2. CASE n # 0
  <2> DEFINE q == (n - 1) \div 2000
  <2>1. q \in Nat /\ 2000 * q <= n - 1 /\ n - 1 < 2000 * q + 2000
    BY <1>2
  <2>2. Units(n) = 1 + q
    BY <1>2 DEF Units, pack_unit_size
  <2> HIDE DEF q
  <2>3. /\ n - 2000 * (Units(n) - 1) \in Nat /\ n - 2000 * (Units(n) - 1) >= 1
        /\ n - 2000 * (Units(n) - 1) <= 2000
    BY <2>1, <2>2
  <2> QED BY <2>1, <2>2, <2>3 DEF Piece, pack_unit_size
<1> QED BY <1>1, <1>2

\* The loop of a pre_encrypt: what it packs is honest, and the ids go up by one.
LEMMA PackAllHonest ==
  ASSUME proto \in Kinds, NEW n \in Nat, NEW id \in Nat \ {0}, NEW want \in Nat \ {0}
  PROVE  LET s == PackAll(n, id, want)
         IN  /\ s \in Seq(FrameType) /\ Len(s) \in Nat
             /\ \A i \in 1..Len(s) : Sized(s[i]) /\ Honest(s[i], id + i - 1)
<1> DEFINE u == Units(n)
           s == PackAll(n, id, want)
<1>1. u \in Nat /\ \A i \in 1..u : Piece(n, i) \in Nat /\ Piece(n, i) >= 1 /\ Piece(n, i) <= 2000
  BY PiecesSized
<1>2. s = [i \in 1..u |-> PackData(Piece(n, i), id + i - 1, want)]
  BY DEF PackAll, Piece
<1> HIDE DEF u, s
<1>3. ASSUME NEW i \in 1..u
      PROVE  Sized(s[i]) /\ Honest(s[i], id + i - 1)
  <2> DEFINE p == Piece(n, i)
             k == id + i - 1
  <2>1. p \in Nat /\ p >= 1 /\ p <= 2000 /\ k \in Nat
    BY <1>1
  <2>2. s[i] = PackData(p, k, want)
    BY <1>2
  <2> HIDE DEF p, k
  <2>3. Sized(PackData(p, k, want)) /\ Honest(PackData(p, k, want), k)
    BY <2>1, PackDataHonest
  <2>4. Sized(s[i]) /\ Honest(s[i], k)
    BY <2>2, <2>3
  <2> QED BY <2>4 DEF k
<1>4. \A i \in 1..u : s[i] \in FrameType
  BY <1>3, SizedIsFrame
<1>5. s \in Seq(FrameType) /\ Len(s) = u
  <2>1. s = [i \in 1..u |-> s[i]]
    BY <1>2
  <2> QED BY <1>1, <1>4, <2>1
<1>6. s \in Seq(FrameType) /\ Len(s) \in Nat
      /\ \A i \in 1..Len(s) : Sized(s[i]) /\ Honest(s[i], id + i - 1)
  BY <1>1, <1>3, <1>5
<1> QED BY <1>6 DEF s
-----------------------------------------------------------------------------
\* The parts of the invariant about the frames sent, and about those packed last.
HonestWire == \A i \in DOMAIN wire : wire[i].fault = "none" => Honest(wire[i], i)
SizedWire == \A i \in DOMAIN wire : Sized(wire[i])
SizedFrames == \A i \in DOMAIN packed.frames : Sized(packed.frames[i])

\* What a reader makes of a frame depends on the plugin and the direction alone.
LEMMA HonestStays ==
  ASSUME UNCHANGED <<proto, dir>>, NEW f, NEW i
  PROVE  Honest(f, i)' <=> Honest(f, i)
<1>1. PostDecrypt' = PostDecrypt
  BY DEF PostDecrypt
<1>2. PayloadOf(f)' = PayloadOf(f)
  BY <1>1 DEF PayloadOf
<1>3. ASSUME NEW size PROVE Refuses(f, i, size)' <=> Refuses(f, i, size)
  BY <1>1 DEF Refuses
<1> QED BY <1>2, <1>3 DEF Honest

\* The head is no more than the call, and no more than 1200 bytes.
LEMMA HeadBounds ==
  ASSUME NEW n \in Nat, NEW head \in HeadSizes
  PROVE  HeadOf(n, head) \in Nat /\ HeadOf(n, head) <= 1200 /\ HeadOf(n, head) <= n
BY SizesAssumption DEF HeadOf, Smaller

\* Two runs of frames on one another: every frame is one of the first or of the second.
LEMMA JoinedFrames ==
  ASSUME NEW s \in Seq(FrameType), NEW r \in Seq(FrameType)
  PROVE  /\ s \o r \in Seq(FrameType) /\ Len(s \o r) = Len(s) + Len(r)
         /\ \A i \in DOMAIN (s \o r) :
              \/ i \in DOMAIN s /\ (s \o r)[i] = s[i]
              \/ i - Len(s) \in 1..Len(r) /\ (s \o r)[i] = r[i - Len(s)]
OBVIOUS

\* The invariant holds of a new connection, and every step keeps it.
LEMMA InitFrames == Init => FramesInv
<1> SUFFICES ASSUME Init PROVE FramesInv
  OBVIOUS
<1>1. /\ proto \in Kinds /\ dir \in {"up", "down"} /\ pack_id = 1
      /\ wire = <<>> /\ packed.frames = <<>>
  BY SizesAssumption DEF Init, Kinds, Nothing
<1>2. <<>> \in Seq(FrameType) /\ Len(<<>>) = 0 /\ DOMAIN <<>> = {}
  OBVIOUS
<1> QED BY <1>1, <1>2 DEF FramesInv

\* The header frame is not read here; the ids of those behind it begin where they would.
LEMMA PacksHeaderFrames ==
  ASSUME FramesInv, NEW n \in WriteSizes, PacksHeader(n)
  PROVE  FramesInv'
<1>1. n \in Nat
  BY SizesAssumption
<1>2. PICK head \in HeadSizes, want \in Paddings :
        LET h == HeadOf(n, head)
            rest == PackAll(n - h, pack_id, want)
        IN  /\ packed'.frames = <<PackAuthData(h, want)>> \o rest
            /\ pack_id' = pack_id + Len(rest)
  BY DEF PacksHeader, Packs
<1> DEFINE h == HeadOf(n, head)
           rest == PackAll(n - h, pack_id, want)
           first == <<PackAuthData(h, want)>>
<1>3. h \in Nat /\ h <= 1200 /\ n - h \in Nat /\ want \in Nat \ {0}
  BY <1>1, HeadBounds, SizesAssumption
<1>4. UNCHANGED <<proto, dir, wire>> /\ ~Reads
  BY DEF PacksHeader, Reads, WithoutHeader
<1> HIDE DEF h
<1>5. Sized(PackAuthData(h, want))
  BY <1>3, <1>4, PackAuthDataSized DEF FramesInv, Reads
<1>6. first \in Seq(FrameType) /\ Len(first) = 1 /\ first[1] = PackAuthData(h, want)
  BY <1>5, SizedIsFrame
<1>7. rest \in Seq(FrameType) /\ Len(rest) \in Nat /\ \A i \in 1..Len(rest) : Sized(rest[i])
  BY <1>3, PackAllHonest DEF FramesInv
<1>8. packed'.frames = first \o rest /\ pack_id' = pack_id + Len(rest)
  BY <1>2 DEF h
<1> HIDE DEF rest, first
<1>9. packed'.frames \in Seq(FrameType) /\ SizedFrames'
  <2>1. \A i \in DOMAIN first : i = 1
    BY <1>6
  <2> QED BY <1>5, <1>6, <1>7, <1>8, <2>1, JoinedFrames DEF SizedFrames
<1>10. pack_id' \in Nat \ {0}
  BY <1>7, <1>8 DEF FramesInv
<1>11. ~Reads' /\ wire' = <<>>
  BY <1>4 DEF FramesInv, Reads, WithoutHeader
<1> QED BY <1>4, <1>9, <1>10, <1>11 DEF FramesInv, SizedFrames

\* The frames of a call follow on those of the calls before.
LEMMA PacksDataFrames ==
  ASSUME FramesInv, NEW n \in WriteSizes, PacksData(n)
  PROVE  FramesInv'
<1>1. n \in Nat
  BY SizesAssumption
<1>2. PICK want \in Paddings :
        LET frames == PackAll(n, pack_id, want)
        IN  /\ packed'.frames = frames /\ pack_id' = pack_id + Len(frames)
            /\ wire' = IF dir = "up" /\ ~WithoutHeader THEN wire ELSE wire \o frames
  BY DEF PacksData, Packs
<1> DEFINE frames == PackAll(n, pack_id, want)
<1>3. UNCHANGED <<proto, dir>> /\ dir \in {"up", "down"}
  BY DEF PacksData, FramesInv
<1>4. /\ frames \in Seq(FrameType) /\ Len(frames) \in Nat
      /\ \A i \in 1..Len(frames) : Sized(frames[i]) /\ Honest(frames[i], pack_id + i - 1)
  BY <1>1, PackAllHonest, SizesAssumption DEF FramesInv
<1>5. packed'.frames = frames /\ pack_id' = pack_id + Len(frames)
  BY <1>2
<1>6. wire' = IF Reads THEN wire \o frames ELSE wire
  BY <1>2, <1>3 DEF Reads
<1> HIDE DEF frames
<1>7. packed'.frames \in Seq(FrameType) /\ SizedFrames'
  BY <1>4, <1>5 DEF SizedFrames
<1>8. pack_id' \in Nat \ {0}
  BY <1>4, <1>5 DEF FramesInv
<1>9. Reads' = Reads
  BY <1>3 DEF Reads, WithoutHeader
<1>10. CASE ~Reads
  <2>1. wire' = <<>>
    BY <1>6, <1>10 DEF FramesInv
  <2> QED BY <1>3, <1>7, <1>8, <1>9, <1>10, <2>1 DEF FramesInv, SizedFrames
<1>11. CASE Reads
  <2>1. wire' = wire \o frames /\ wire \in Seq(FrameType) /\ pack_id = Len(wire) + 1
    BY <1>6, <1>11 DEF FramesInv
  <2>2. wire' \in Seq(FrameType) /\ Len(wire') = Len(wire) + Len(frames)
    BY <1>4, <2>1, JoinedFrames
  <2>3. pack_id' = Len(wire') + 1
    BY <1>4, <1>5, <2>1, <2>2
  <2>4. ASSUME NEW i \in DOMAIN wire', wire'[i].fault = "none" PROVE Honest(wire'[i], i)
    <3>1. \/ i \in DOMAIN wire /\ wire'[i] = wire[i]
          \/ i - Len(wire) \in 1..Len(frames) /\ wire'[i] = frames[i - Len(wire)]
      BY <1>4, <2>1, JoinedFrames
    <3>2. CASE i \in DOMAIN wire /\ wire'[i] = wire[i]
      BY <2>4, <3>2 DEF FramesInv
    <3>3. CASE i - Len(wire) \in 1..Len(frames) /\ wire'[i] = frames[i - Len(wire)]
      <4>1. pack_id + (i - Len(wire)) - 1 = i
        BY <2>1, <2>2
      <4> QED BY <1>4, <3>3, <4>1
    <3> QED BY <3>1, <3>2, <3>3
  <2>5. HonestWire'
    BY <1>3, <2>4, HonestStays DEF HonestWire
  <2>6. ASSUME NEW i \in DOMAIN wire' PROVE Sized(wire'[i])
    BY <1>4, <2>1, JoinedFrames DEF FramesInv
  <2>7. SizedWire'
    BY <2>6 DEF SizedWire
  <2> QED BY <1>3, <1>7, <1>8, <1>9, <1>11, <2>2, <2>3, <2>5, <2>7
             DEF FramesInv, SizedFrames, SizedWire, HonestWire
<1> QED BY <1>10, <1>11

\* A bad frame is not one of those the theorem is about.
LEMMA PacksBadFrames ==
  ASSUME FramesInv, PacksBad
  PROVE  FramesInv'
<1>1. PICK fault \in {"long", "short", "sum"}, n \in WriteSizes \ {0} :
        wire' = Append(wire, [PackData(Smaller(n, pack_unit_size), pack_id, 1) EXCEPT !.fault = fault])
  BY DEF PacksBad
<1> DEFINE m == Smaller(n, pack_unit_size)
           f == PackData(m, pack_id, 1)
           bad == [f EXCEPT !.fault = fault]
<1>2. UNCHANGED <<proto, dir, packed>> /\ pack_id' = pack_id + 1 /\ Reads
  BY DEF PacksBad, Reads
<1>3. m \in Nat /\ m >= 1 /\ m <= 2000
  BY SizesAssumption DEF Smaller, pack_unit_size
<1> HIDE DEF m
<1>4. Sized(f)
  <2>1. proto \in Kinds /\ pack_id \in Nat /\ 1 \in Nat \ {0}
    BY DEF FramesInv
  <2> QED BY <1>3, <2>1, PackDataHonest
<1>5. f \in FrameType
  BY <1>4, SizedIsFrame
<1>6. wire' = Append(wire, bad)
  BY <1>1 DEF m
<1> HIDE DEF f
<1>7. bad \in FrameType /\ bad.fault # "none" /\ Sized(bad)
  BY <1>4, <1>5 DEF FrameType, Sized
<1> HIDE DEF bad
<1>8. wire \in Seq(FrameType) /\ pack_id = Len(wire) + 1
  BY <1>2 DEF FramesInv
<1>9. /\ wire' \in Seq(FrameType) /\ Len(wire') = Len(wire) + 1
      /\ \A i \in DOMAIN wire' : (i \in DOMAIN wire /\ wire'[i] = wire[i]) \/ wire'[i] = bad
  BY <1>6, <1>7, <1>8
<1>10. HonestWire'
  BY <1>2, <1>7, <1>9, HonestStays DEF HonestWire, FramesInv
<1>11. Reads' /\ pack_id' = Len(wire') + 1 /\ pack_id' \in Nat \ {0}
  BY <1>2, <1>8, <1>9 DEF Reads, WithoutHeader, FramesInv
<1>12. SizedWire'
  BY <1>7, <1>9 DEF SizedWire, FramesInv
<1> QED BY <1>2, <1>9, <1>10, <1>11, <1>12 DEF FramesInv, SizedWire, HonestWire

\* A connection anew begins its ids anew, and nothing of it is on a wire here.
LEMMA NewConnectionFrames ==
  ASSUME FramesInv, NewConnection
  PROVE  FramesInv'
<1>1. /\ UNCHANGED <<proto, dir, wire>> /\ ~Reads /\ pack_id' = 1
      /\ packed'.frames = <<>>
  BY DEF NewConnection, Reads, WithoutHeader, Nothing
<1>2. <<>> \in Seq(FrameType) /\ DOMAIN <<>> = {}
  OBVIOUS
<1>3. ~Reads' /\ wire' = <<>>
  BY <1>1 DEF Reads, WithoutHeader, FramesInv
<1> QED BY <1>1, <1>2, <1>3 DEF FramesInv

\* What the reader does changes nothing of what was packed.
LEMMA OthersFrames ==
  ASSUME FramesInv, UNCHANGED <<proto, dir, pack_id, packed, wire>>
  PROVE  FramesInv'
<1>1. HonestWire'
  BY HonestStays DEF FramesInv, HonestWire
<1>2. Reads' = Reads
  BY DEF Reads, WithoutHeader
<1> QED BY <1>1, <1>2 DEF FramesInv, HonestWire

\* Every step keeps the invariant.
LEMMA FramesStep ==
  ASSUME FramesInv, [Next]_vars
  PROVE  FramesInv'
<1>1. Receive \/ UNCHANGED vars => UNCHANGED <<proto, dir, pack_id, packed, wire>>
  BY DEF Receive, vars, sender
<1> QED BY <1>1, PacksHeaderFrames, PacksDataFrames, PacksBadFrames, NewConnectionFrames,
           OthersFrames DEF Next

\* The frames of an honest peer, and the ids they have, are as the reader expects them.
THEOREM FramesInductive == Spec => []FramesInv
BY InitFrames, FramesStep, PTL DEF Spec

\* Whatever sizes are written and paddings drawn, the i-th frame of an honest peer is never
\* refused as the i-th, at any moment, and the payload the reader finds in it is the one that
\* was packed (*_pack_data and *_post_decrypt of verify.c and auth.c).
THEOREM HonestFramesRead == Spec => []HonestWire
<1>1. FramesInv => HonestWire
  BY DEF FramesInv, HonestWire
<1> QED BY <1>1, FramesInductive, PTL

\* No pre_encrypt packs a frame that the readers' bounds would not let through, a header
\* frame neither (*_pack_data, *_pack_auth_data).
THEOREM FramesAreSized == Spec => []SizedFrames
<1>1. FramesInv => SizedFrames
  BY DEF FramesInv, SizedFrames
<1> QED BY <1>1, FramesInductive, PTL
-----------------------------------------------------------------------------
(* Sums, and what is counted of a sequence of frames.                      *)

\* Induction over a set of numbers.
LEMMA UpTo ==
  ASSUME NEW n \in Nat, NEW S, 0 \in S, \A k \in 0..n : k < n /\ k \in S => k + 1 \in S
  PROVE  \A k \in 0..n : k \in S
<1> DEFINE B == {k \in 0..n : k \notin S}
<1> SUFFICES ASSUME B # {} PROVE FALSE
  OBVIOUS
<1>1. B \subseteq Nat
  OBVIOUS
<1>2. PICK i \in B : \A k \in B : ~(<<k, i>> \in OpToRel(<, Nat))
  BY <1>1, NatLessThanWellFounded, WFMin
<1>3. \A k \in B : ~(k < i)
  BY <1>1, <1>2 DEF OpToRel
<1>4. i \in 0..n /\ i \notin S /\ i # 0
  OBVIOUS
<1>5. i - 1 \in 0..n /\ i - 1 < n /\ i - 1 < i /\ (i - 1) + 1 = i
  BY <1>4
<1>6. i - 1 \in S
  BY <1>3, <1>5
<1> QED BY <1>4, <1>5, <1>6

\* f has the partial sums of s.
Adds(f, s) ==
  /\ f \in [0..Len(s) -> Int] /\ f[0] = 0
  /\ \A k \in 1..Len(s) : f[k] = f[k - 1] + s[k]

\* Every sequence of numbers has partial sums.
LEMMA PartialSums ==
  ASSUME NEW s \in Seq(Int)
  PROVE  \E f : Adds(f, s)
<1> DEFINE n == Len(s)
           Upto(f, m) == f \in [0..m -> Int] /\ f[0] = 0 /\ \A k \in 1..m : f[k] = f[k - 1] + s[k]
           S == {m \in 0..n : \E f : Upto(f, m)}
<1>1. n \in Nat /\ \A k \in 1..n : s[k] \in Int
  BY LenProperties, ElementOfSeq
<1> HIDE DEF n
<1>2. 0 \in S
  <2> DEFINE g == [k \in 0..0 |-> 0]
  <2>1. Upto(g, 0)
    OBVIOUS
  <2>2. \E f : Upto(f, 0)
    BY <2>1
  <2>3. 0 \in 0..n
    BY <1>1
  <2> HIDE DEF Upto
  <2> QED BY <2>2, <2>3
<1>3. ASSUME NEW k \in 0..n, k < n, k \in S PROVE k + 1 \in S
  <2>1. PICK f : Upto(f, k)
    BY <1>3
  <2> DEFINE g == [i \in 0..(k + 1) |-> IF i = k + 1 THEN f[k] + s[k + 1] ELSE f[i]]
  <2>2. k \in Nat /\ k + 1 \in 0..n /\ k + 1 \in 1..n /\ s[k + 1] \in Int
    BY <1>1, <1>3
  <2>3. g \in [0..(k + 1) -> Int] /\ g[0] = 0
    BY <2>1, <2>2
  <2>4. ASSUME NEW i \in 1..(k + 1) PROVE g[i] = g[i - 1] + s[i]
    <3>1. CASE i = k + 1
      BY <2>1, <2>2, <3>1
    <3>2. CASE i # k + 1
      BY <2>1, <2>2, <3>2
    <3> QED BY <3>1, <3>2
  <2>5. Upto(g, k + 1)
    BY <2>3, <2>4
  <2> QED BY <2>2, <2>5
<1>4. \A k \in 0..n : k \in S
  <2> HIDE DEF S
  <2> QED BY <1>1, <1>2, <1>3, UpTo
<1>5. n \in S
  <2> HIDE DEF S
  <2> QED BY <1>1, <1>4
<1> QED BY <1>5 DEF n, Adds

\* Sums are these, and Sum is the last of them.
LEMMA SumIs ==
  ASSUME NEW s \in Seq(Int), NEW f, Adds(f, s)
  PROVE  Sums(s) = f /\ Sum(s) = f[Len(s)] /\ Sum(s) \in Int
<1> DEFINE Fix(t) == t = [k \in 0..Len(s) |-> IF k = 0 THEN 0 ELSE t[k - 1] + s[k]]
           to == CHOOSE t : Fix(t)
<1>0. Len(s) \in Nat /\ \A k \in 1..Len(s) : s[k] \in Int
  BY LenProperties, ElementOfSeq
<1>1. Fix(f)
  <2>1. \A k \in 0..Len(s) : f[k] = IF k = 0 THEN 0 ELSE f[k - 1] + s[k]
    BY <1>0 DEF Adds
  <2>2. f = [k \in 0..Len(s) |-> f[k]]
    BY DEF Adds
  <2> QED BY <2>1, <2>2
<1>2. Fix(to)
  BY <1>1
<1>3. Sums(s) = to
  BY DEF Sums
<1> HIDE DEF to
<1>4. \A k \in 0..Len(s) : to[k] = IF k = 0 THEN 0 ELSE to[k - 1] + s[k]
  BY <1>2
<1>5. \A k \in 0..Len(s) : to[k] = f[k]
  <2> DEFINE S == {k \in 0..Len(s) : to[k] = f[k]}
  <2>1. 0 \in S
    BY <1>0, <1>4 DEF Adds
  <2>2. ASSUME NEW k \in 0..Len(s), k < Len(s), k \in S PROVE k + 1 \in S
    <3>1. k + 1 \in 1..Len(s) /\ k + 1 \in 0..Len(s) /\ (k + 1) - 1 = k /\ k + 1 # 0
      BY <1>0, <2>2
    <3>2. f[k + 1] = f[k] + s[k + 1] /\ to[k + 1] = to[k] + s[k + 1]
      BY <1>4, <3>1 DEF Adds
    <3> QED BY <2>2, <3>1, <3>2
  <2>3. \A k \in 0..Len(s) : k \in S
    <3> HIDE DEF S
    <3> QED BY <1>0, <2>1, <2>2, UpTo
  <2> QED BY <2>3
<1>6. to = f
  <2>1. to = [k \in 0..Len(s) |-> to[k]]
    BY <1>2
  <2>2. f = [k \in 0..Len(s) |-> f[k]]
    BY DEF Adds
  <2> QED BY <1>5, <2>1, <2>2
<1>7. Sum(s) = f[Len(s)]
  BY <1>3, <1>6 DEF Sum
<1> QED BY <1>0, <1>3, <1>6, <1>7 DEF Adds

\* Sum goes on by one element at a time.
LEMMA SumPrefixes ==
  ASSUME NEW s \in Seq(Int)
  PROVE  /\ Sum(s) \in Int
         /\ Sum(SubSeq(s, 1, 0)) = 0 /\ Sum(SubSeq(s, 1, Len(s))) = Sum(s)
         /\ \A k \in 0..Len(s) : Sum(SubSeq(s, 1, k)) \in Int
         /\ \A k \in 1..Len(s) : Sum(SubSeq(s, 1, k)) = Sum(SubSeq(s, 1, k - 1)) + s[k]
<1>1. PICK f : Adds(f, s)
  BY PartialSums
<1>2. Len(s) \in Nat /\ \A k \in 1..Len(s) : s[k] \in Int
  BY LenProperties, ElementOfSeq
<1>3. ASSUME NEW k \in 0..Len(s) PROVE Sum(SubSeq(s, 1, k)) = f[k] /\ f[k] \in Int
  <2> DEFINE g == [i \in 0..k |-> f[i]]
             p == SubSeq(s, 1, k)
  <2>1. p \in Seq(Int) /\ Len(p) = k /\ \A i \in 1..k : p[i] = s[i]
    <3>1. 1 \in Int /\ k \in Int /\ \A i \in 1..k : s[i] \in Int
      BY <1>2
    <3>2. /\ SubSeq(s, 1, k) \in Seq(Int)
          /\ Len(SubSeq(s, 1, k)) = IF 1 <= k THEN k - 1 + 1 ELSE 0
          /\ \A i \in 1 .. k - 1 + 1 : SubSeq(s, 1, k)[i] = s[1 + i - 1]
      BY <3>1, SubSeqProperties
    <3>3. k - 1 + 1 = k /\ \A i \in 1..k : 1 + i - 1 = i
      BY <1>2
    <3> QED BY <1>2, <3>2, <3>3
  <2>2. Adds(g, p)
    <3>1. g \in [0..k -> Int] /\ g[0] = 0
      BY <1>1, <1>2, SMTT(30) DEF Adds
    <3>2. ASSUME NEW i \in 1..k PROVE g[i] = g[i - 1] + p[i]
      <4>1. i \in 1..Len(s) /\ i \in 0..k /\ i - 1 \in 0..k
        BY <1>2
      <4> QED BY <1>1, <2>1, <4>1 DEF Adds
    <3> HIDE DEF g, p
    <3> QED BY <2>1, <3>1, <3>2 DEF Adds
  <2>3. Sum(p) = g[k]
    <3> HIDE DEF g, p
    <3> QED BY <2>1, <2>2, SumIs
  <2> QED BY <1>1, <1>2, <2>3 DEF Adds
<1>4. Sum(s) = f[Len(s)] /\ Sum(s) \in Int
  BY <1>1, SumIs
<1>5. 0 \in 0..Len(s) /\ Len(s) \in 0..Len(s)
      /\ \A k \in 1..Len(s) : k \in 0..Len(s) /\ k - 1 \in 0..Len(s)
  BY <1>2
<1> QED BY <1>1, <1>3, <1>4, <1>5 DEF Adds

\* The first elements of a sequence that goes on.
LEMMA PrefixOfConcat ==
  ASSUME NEW T, NEW s \in Seq(T), NEW r \in Seq(T), NEW k \in 0..Len(s)
  PROVE  SubSeq(s \o r, 1, k) = SubSeq(s, 1, k)
<1>1. Len(s) \in Nat /\ Len(r) \in Nat /\ k \in Nat
  OBVIOUS
<1>2. s \o r \in Seq(T) /\ Len(s \o r) = Len(s) + Len(r) /\ \A i \in 1..Len(s) : (s \o r)[i] = s[i]
  OBVIOUS
<1>3. SubSeq(s, 1, k) = [i \in 1..k |-> s[i]]
  BY <1>1
<1>4. SubSeq(s \o r, 1, k) = [i \in 1..k |-> (s \o r)[i]]
  BY <1>1, <1>2
<1> QED BY <1>1, <1>2, <1>3, <1>4

\* The sum of two sequences joined.
LEMMA SumConcat ==
  ASSUME NEW s \in Seq(Int), NEW r \in Seq(Int)
  PROVE  Sum(s \o r) = Sum(s) + Sum(r)
<1>1. PICK f : Adds(f, s)
  BY PartialSums
<1>2. PICK g : Adds(g, r)
  BY PartialSums
<1> DEFINE m == Len(s)
           n == Len(r)
           h == [k \in 0..(m + n) |-> IF k <= m THEN f[k] ELSE f[m] + g[k - m]]
<1>3. m \in Nat /\ n \in Nat
  OBVIOUS
<1>4. /\ s \o r \in Seq(Int) /\ Len(s \o r) = m + n
      /\ \A k \in 1..(m + n) : (s \o r)[k] = IF k <= m THEN s[k] ELSE r[k - m]
      /\ \A k \in 1..m : s[k] \in Int
      /\ \A k \in 1..n : r[k] \in Int
  BY ConcatProperties, ElementOfSeq, <1>3
<1>5. f \in [0..m -> Int] /\ f[0] = 0 /\ \A k \in 1..m : f[k] = f[k - 1] + s[k]
  BY <1>1 DEF Adds
<1>6. g \in [0..n -> Int] /\ g[0] = 0 /\ \A k \in 1..n : g[k] = g[k - 1] + r[k]
  BY <1>2 DEF Adds
<1>7. Sum(s) = f[m] /\ Sum(r) = g[n]
  BY <1>1, <1>2, SumIs
<1> HIDE DEF m, n
<1>8. h \in [0..(m + n) -> Int]
  <2>1. ASSUME NEW k \in 0..(m + n) PROVE (IF k <= m THEN f[k] ELSE f[m] + g[k - m]) \in Int
    <3>1. m \in 0..m /\ (k <= m => k \in 0..m) /\ (~(k <= m) => k - m \in 0..n)
      BY <1>3
    <3>2. f[m] \in Int /\ (k <= m => f[k] \in Int) /\ (~(k <= m) => g[k - m] \in Int)
      BY <1>5, <1>6, <3>1
    <3> QED BY <3>2
  <2> QED BY <2>1
<1>9. h[0] = 0
  BY <1>3, <1>5
<1>10. ASSUME NEW k \in 1..(m + n) PROVE h[k] = h[k - 1] + (s \o r)[k]
  <2>1. k \in 0..(m + n) /\ k - 1 \in 0..(m + n)
    BY <1>3
  <2>2. CASE k <= m
    <3>1. k \in 1..m /\ k - 1 <= m
      BY <1>3, <2>2
    <3> QED BY <1>4, <1>5, <2>1, <2>2, <3>1
  <2>3. CASE k = m + 1
    <3>1. k - m = 1 /\ 1 \in 1..n /\ k - 1 = m /\ ~(k <= m) /\ m <= m /\ 1 - 1 = 0
      BY <1>3, <2>3
    <3>2. h[k] = f[m] + g[1] /\ h[k - 1] = f[m] /\ (s \o r)[k] = r[1]
      BY <1>4, <2>1, <3>1
    <3>3. g[1] = 0 + r[1] /\ r[1] \in Int /\ f[m] \in Int
      BY <1>3, <1>4, <1>5, <1>6, <3>1
    <3> HIDE DEF h
    <3> QED BY <3>2, <3>3
  <2>4. CASE k > m + 1
    <3>1. k - m \in 1..n /\ ~(k <= m) /\ ~(k - 1 <= m) /\ (k - 1) - m = (k - m) - 1
          /\ (k - m) - 1 \in 0..n /\ m \in 0..m
      BY <1>3, <2>4
    <3>2. h[k] = f[m] + g[k - m] /\ h[k - 1] = f[m] + g[(k - m) - 1] /\ (s \o r)[k] = r[k - m]
      BY <1>4, <2>1, <3>1
    <3>3. g[k - m] = g[(k - m) - 1] + r[k - m] /\ r[k - m] \in Int /\ f[m] \in Int
          /\ g[(k - m) - 1] \in Int
      BY <1>4, <1>5, <1>6, <3>1
    <3> HIDE DEF h
    <3> QED BY <3>2, <3>3
  <2>5. k <= m \/ k = m + 1 \/ k > m + 1
    BY <1>3
  <2> HIDE DEF h
  <2> QED BY <2>2, <2>3, <2>4, <2>5
<1>11. h[m + n] = f[m] + g[n]
  <2>1. CASE n = 0
    <3>1. f[m] \in Int /\ m + n = m /\ m <= m
      BY <1>3, <1>5, <2>1
    <3> QED BY <1>3, <1>6, <2>1, <3>1
  <2>2. CASE n # 0
    <3>1. ~(m + n <= m) /\ (m + n) - m = n
      BY <1>3, <2>2
    <3> QED BY <1>3, <3>1
  <2> QED BY <2>1, <2>2
<1> HIDE DEF h
<1>12. Adds(h, s \o r)
  BY <1>4, <1>8, <1>9, <1>10 DEF Adds
<1>13. Sum(s \o r) = h[m + n]
  BY <1>4, <1>12, SumIs
<1> QED BY <1>7, <1>11, <1>13

\* What is counted of each frame, by a function m.
Counts(m, w) == [i \in DOMAIN w |-> m[w[i]]]

\* The counts of a sequence of frames, of a part of it, and of two joined.
LEMMA CountsOf ==
  ASSUME NEW T, NEW m \in [T -> Int], NEW w \in Seq(T)
  PROVE  /\ Counts(m, w) \in Seq(Int) /\ Len(Counts(m, w)) = Len(w)
         /\ \A i \in 1..Len(w) : Counts(m, w)[i] = m[w[i]]
<1>1. Len(w) \in Nat /\ DOMAIN w = 1..Len(w) /\ \A i \in 1..Len(w) : w[i] \in T
  OBVIOUS
<1>2. Counts(m, w) = [i \in 1..Len(w) |-> m[w[i]]]
  BY <1>1 DEF Counts
<1>3. \A i \in 1..Len(w) : m[w[i]] \in Int
  BY <1>1
<1> QED BY <1>1, <1>2, <1>3

\* The counts of the first k are the first k counts.
LEMMA CountsOfPrefix ==
  ASSUME NEW T, NEW m \in [T -> Int], NEW w \in Seq(T), NEW k \in 0..Len(w)
  PROVE  Counts(m, SubSeq(w, 1, k)) = SubSeq(Counts(m, w), 1, k)
<1>1. Len(w) \in Nat /\ DOMAIN w = 1..Len(w) /\ \A i \in 1..Len(w) : w[i] \in T
  OBVIOUS
<1>2. SubSeq(w, 1, k) \in Seq(T) /\ Len(SubSeq(w, 1, k)) = k /\ \A i \in 1..k : SubSeq(w, 1, k)[i] = w[i]
  BY <1>1
<1>3. Counts(m, w) \in Seq(Int) /\ Len(Counts(m, w)) = Len(w)
      /\ \A i \in 1..Len(w) : Counts(m, w)[i] = m[w[i]]
  BY CountsOf
<1>4. SubSeq(Counts(m, w), 1, k) = [i \in 1..k |-> Counts(m, w)[i]]
  BY <1>1, <1>3
<1>5. Counts(m, SubSeq(w, 1, k)) = [i \in 1..k |-> m[w[i]]]
  BY <1>1, <1>2 DEF Counts
<1>6. \A i \in 1..k : i \in 1..Len(w)
  BY <1>1
<1> QED BY <1>3, <1>4, <1>5, <1>6

\* The counts of two sequences joined are their counts joined.
LEMMA CountsOfConcat ==
  ASSUME NEW T, NEW m \in [T -> Int], NEW w \in Seq(T), NEW v \in Seq(T)
  PROVE  Counts(m, w \o v) = Counts(m, w) \o Counts(m, v)
<1>1. Len(w) \in Nat /\ Len(v) \in Nat
  OBVIOUS
<1>2. /\ w \o v \in Seq(T) /\ Len(w \o v) = Len(w) + Len(v)
      /\ DOMAIN (w \o v) = 1..(Len(w) + Len(v))
      /\ \A i \in 1..(Len(w) + Len(v)) : (w \o v)[i] = IF i <= Len(w) THEN w[i] ELSE v[i - Len(w)]
  OBVIOUS
<1> DEFINE a == Counts(m, w)
           b == Counts(m, v)
<1>3. /\ a \in Seq(Int) /\ Len(a) = Len(w) /\ \A i \in 1..Len(w) : a[i] = m[w[i]]
      /\ b \in Seq(Int) /\ Len(b) = Len(v) /\ \A i \in 1..Len(v) : b[i] = m[v[i]]
  BY CountsOf, SMTT(30)
<1>4. Counts(m, w \o v) = [i \in 1..(Len(w) + Len(v)) |-> m[(w \o v)[i]]]
  BY <1>2 DEF Counts
<1> HIDE DEF a, b
<1>5. a \o b = [i \in 1..(Len(w) + Len(v)) |-> IF i <= Len(w) THEN a[i] ELSE b[i - Len(w)]]
  <2>1. /\ a \o b \in Seq(Int) /\ Len(a \o b) = Len(w) + Len(v)
        /\ \A i \in 1..(Len(w) + Len(v)) : (a \o b)[i] = IF i <= Len(w) THEN a[i] ELSE b[i - Len(w)]
    <3>1. a \in Seq(Int) /\ b \in Seq(Int) /\ Len(a) = Len(w) /\ Len(b) = Len(v)
      BY <1>3
    <3>2. /\ a \o b \in Seq(Int) /\ Len(a \o b) = Len(a) + Len(b)
          /\ \A i \in 1..(Len(a) + Len(b)) : (a \o b)[i] = IF i <= Len(a) THEN a[i] ELSE b[i - Len(a)]
      BY <3>1, ConcatProperties
    <3> QED BY <3>1, <3>2
  <2> DEFINE c == a \o b
  <2> HIDE DEF c
  <2>2. /\ c \in Seq(Int) /\ Len(c) = Len(w) + Len(v)
        /\ \A i \in 1..(Len(w) + Len(v)) : c[i] = IF i <= Len(w) THEN a[i] ELSE b[i - Len(w)]
    BY <2>1 DEF c
  <2>3. c = [i \in 1..Len(c) |-> c[i]]
    BY <2>2
  <2>4. c = [i \in 1..(Len(w) + Len(v)) |-> IF i <= Len(w) THEN a[i] ELSE b[i - Len(w)]]
    BY <2>2, <2>3
  <2> QED BY <2>4 DEF c
<1>6. ASSUME NEW i \in 1..(Len(w) + Len(v))
      PROVE  m[(w \o v)[i]] = IF i <= Len(w) THEN a[i] ELSE b[i - Len(w)]
  <2>1. CASE i <= Len(w)
    <3>1. i \in 1..Len(w)
      BY <1>1, <2>1
    <3> QED BY <1>2, <1>3, <2>1, <3>1
  <2>2. CASE ~(i <= Len(w))
    <3>1. i - Len(w) \in 1..Len(v)
      BY <1>1, <2>2
    <3> QED BY <1>2, <1>3, <2>2, <3>1
  <2> QED BY <2>1, <2>2
<1>7. Counts(m, w \o v) = a \o b
  BY <1>4, <1>5, <1>6
<1> QED BY <1>7 DEF a, b

lengths == [f \in FrameType |-> f.length]
datas == [f \in FrameType |-> f.data]

\* The frames of a sequence are frames.
LEMMA FrameFields ==
  /\ lengths \in [FrameType -> Int] /\ datas \in [FrameType -> Int]
  /\ \A f \in FrameType : lengths[f] = f.length /\ datas[f] = f.data /\ f.length \in Nat /\ f.data \in Nat
BY DEF lengths, datas, FrameType

\* Total and Payload are sums of counts.
LEMMA TotalsCount ==
  ASSUME NEW w \in Seq(FrameType)
  PROVE  Total(w) = Sum(Counts(lengths, w)) /\ Payload(w) = Sum(Counts(datas, w))
<1>1. \A i \in DOMAIN w : w[i] \in FrameType
  OBVIOUS
<1>2. Counts(lengths, w) = [i \in DOMAIN w |-> w[i].length]
  BY <1>1, FrameFields DEF Counts
<1>3. Counts(datas, w) = [i \in DOMAIN w |-> w[i].data]
  BY <1>1, FrameFields DEF Counts
<1> QED BY <1>2, <1>3 DEF Total, Payload

\* The first frames of a sequence.
LEMMA FirstFrames ==
  ASSUME NEW w \in Seq(FrameType)
  PROVE  /\ Len(w) \in Nat /\ SubSeq(w, 1, Len(w)) = w
         /\ \A k \in 0..Len(w) : SubSeq(w, 1, k) \in Seq(FrameType) /\ Len(SubSeq(w, 1, k)) = k
OBVIOUS

\* Length and payload of the first k frames grow by those of the k-th.
LEMMA TotalSteps ==
  ASSUME NEW w \in Seq(FrameType)
  PROVE  /\ Total(SubSeq(w, 1, 0)) = 0 /\ Payload(SubSeq(w, 1, 0)) = 0
         /\ \A k \in 1..Len(w) :
              /\ Total(SubSeq(w, 1, k)) = Total(SubSeq(w, 1, k - 1)) + w[k].length
              /\ Payload(SubSeq(w, 1, k)) = Payload(SubSeq(w, 1, k - 1)) + w[k].data
<1> DEFINE a == Counts(lengths, w)
           b == Counts(datas, w)
<1>1. /\ a \in Seq(Int) /\ Len(a) = Len(w) /\ \A i \in 1..Len(w) : a[i] = lengths[w[i]]
      /\ b \in Seq(Int) /\ Len(b) = Len(w) /\ \A i \in 1..Len(w) : b[i] = datas[w[i]]
  <2>1. lengths \in [FrameType -> Int] /\ datas \in [FrameType -> Int]
    BY FrameFields
  <2>2. ASSUME NEW m \in [FrameType -> Int]
        PROVE  /\ Counts(m, w) \in Seq(Int) /\ Len(Counts(m, w)) = Len(w)
               /\ \A i \in 1..Len(w) : Counts(m, w)[i] = m[w[i]]
    BY CountsOf
  <2> QED BY <2>1, <2>2
<1>2. ASSUME NEW k \in 0..Len(w)
      PROVE  /\ Total(SubSeq(w, 1, k)) = Sum(SubSeq(a, 1, k))
             /\ Payload(SubSeq(w, 1, k)) = Sum(SubSeq(b, 1, k))
  <2>1. SubSeq(w, 1, k) \in Seq(FrameType)
    BY FirstFrames
  <2>2. /\ Counts(lengths, SubSeq(w, 1, k)) = SubSeq(a, 1, k)
        /\ Counts(datas, SubSeq(w, 1, k)) = SubSeq(b, 1, k)
    BY FrameFields, CountsOfPrefix
  <2> HIDE DEF a, b
  <2> QED BY <2>1, <2>2, TotalsCount
<1>3. \A i \in 1..Len(w) : a[i] = w[i].length /\ b[i] = w[i].data
  <2>1. \A i \in 1..Len(w) : w[i] \in FrameType
    OBVIOUS
  <2> HIDE DEF a, b
  <2> QED BY <1>1, <2>1, FrameFields
<1> HIDE DEF a, b
<1>4. 0 \in 0..Len(w) /\ Len(w) \in Nat /\ \A k \in 1..Len(w) : k \in 0..Len(w) /\ k - 1 \in 0..Len(w)
  OBVIOUS
<1>5. /\ Sum(SubSeq(a, 1, 0)) = 0 /\ Sum(SubSeq(b, 1, 0)) = 0
      /\ \A k \in 1..Len(w) : /\ Sum(SubSeq(a, 1, k)) = Sum(SubSeq(a, 1, k - 1)) + a[k]
                              /\ Sum(SubSeq(b, 1, k)) = Sum(SubSeq(b, 1, k - 1)) + b[k]
  BY <1>1, SumPrefixes
<1> QED BY <1>2, <1>3, <1>4, <1>5

\* They are natural numbers, and never less for more frames.
LEMMA TotalsType ==
  ASSUME NEW w \in Seq(FrameType)
  PROVE  /\ Total(w) \in Nat /\ Payload(w) \in Nat
         /\ \A k \in 0..Len(w) : Total(SubSeq(w, 1, k)) \in Nat /\ Payload(SubSeq(w, 1, k)) \in Nat
<1> DEFINE S == {k \in 0..Len(w) : Total(SubSeq(w, 1, k)) \in Nat /\ Payload(SubSeq(w, 1, k)) \in Nat}
<1>1. Len(w) \in Nat /\ SubSeq(w, 1, Len(w)) = w
  BY FirstFrames
<1>2. 0 \in S
  BY <1>1, TotalSteps
<1>3. ASSUME NEW k \in 0..Len(w), k < Len(w), k \in S PROVE k + 1 \in S
  <2>1. k + 1 \in 1..Len(w) /\ k + 1 \in 0..Len(w) /\ (k + 1) - 1 = k
    BY <1>1, <1>3
  <2>2. w[k + 1].length \in Nat /\ w[k + 1].data \in Nat
    BY <2>1, FrameFields
  <2>3. /\ Total(SubSeq(w, 1, k + 1)) = Total(SubSeq(w, 1, k)) + w[k + 1].length
        /\ Payload(SubSeq(w, 1, k + 1)) = Payload(SubSeq(w, 1, k)) + w[k + 1].data
    BY <2>1, TotalSteps
  <2> QED BY <1>3, <2>1, <2>2, <2>3
<1>4. \A k \in 0..Len(w) : k \in S
  <2> HIDE DEF S
  <2> QED BY <1>1, <1>2, <1>3, UpTo
<1>5. \A k \in 0..Len(w) : Total(SubSeq(w, 1, k)) \in Nat /\ Payload(SubSeq(w, 1, k)) \in Nat
  BY <1>4
<1>6. Total(SubSeq(w, 1, Len(w))) \in Nat /\ Payload(SubSeq(w, 1, Len(w))) \in Nat
  BY <1>1, <1>5
<1> QED BY <1>1, <1>5, <1>6

\* Frames that follow on others.
LEMMA TotalsConcat ==
  ASSUME NEW w \in Seq(FrameType), NEW v \in Seq(FrameType)
  PROVE  /\ w \o v \in Seq(FrameType)
         /\ Total(w \o v) = Total(w) + Total(v) /\ Payload(w \o v) = Payload(w) + Payload(v)
<1>1. w \o v \in Seq(FrameType)
  BY JoinedFrames
<1>2. /\ Counts(lengths, w \o v) = Counts(lengths, w) \o Counts(lengths, v)
      /\ Counts(datas, w \o v) = Counts(datas, w) \o Counts(datas, v)
  BY FrameFields, CountsOfConcat
<1>3. /\ Counts(lengths, w) \in Seq(Int) /\ Counts(lengths, v) \in Seq(Int)
      /\ Counts(datas, w) \in Seq(Int) /\ Counts(datas, v) \in Seq(Int)
  BY FrameFields, CountsOf
<1>4. /\ Sum(Counts(lengths, w \o v)) = Sum(Counts(lengths, w)) + Sum(Counts(lengths, v))
      /\ Sum(Counts(datas, w \o v)) = Sum(Counts(datas, w)) + Sum(Counts(datas, v))
  BY <1>2, <1>3, SumConcat
<1> QED BY <1>1, <1>4, TotalsCount

\* One frame.
LEMMA TotalOfOne ==
  ASSUME NEW f \in FrameType
  PROVE  <<f>> \in Seq(FrameType) /\ Total(<<f>>) = f.length /\ Payload(<<f>>) = f.data
<1> DEFINE w == <<f>>
<1>1. w \in Seq(FrameType) /\ Len(w) = 1 /\ w[1] = f
  OBVIOUS
<1> HIDE DEF w
<1>2. 1 \in 1..Len(w) /\ 1 - 1 = 0
  BY <1>1
<1>3. SubSeq(w, 1, 1) = w
  BY <1>1, FirstFrames
<1>4. f.length \in Nat /\ f.data \in Nat
  BY FrameFields
<1>5. Total(w) = 0 + f.length /\ Payload(w) = 0 + f.data
  BY <1>1, <1>2, <1>3, TotalSteps
<1> QED BY <1>1, <1>4, <1>5 DEF w
-----------------------------------------------------------------------------
(* What is packed fits.                                                    *)

\* What a frame is longer than its payload, at most.
Margin == IF proto \in {"verify_simple", "auth_simple", "auth_sha1"} THEN 22 ELSE 1032
\* What a header frame is longer than the head it holds.
HeaderMargin == IF proto = "auth_simple" THEN 34 ELSE IF proto = "auth_sha1" THEN 156 ELSE 1059

\* What *_pack_data makes of n bytes holds them, and how much longer it is.
LEMMA PackDataLength ==
  ASSUME proto \in Kinds, NEW n \in Nat, NEW id \in Nat, NEW want \in Nat \ {0}
  PROVE  /\ PackData(n, id, want).data = n
         /\ PackData(n, id, want).length <= n + Margin
         /\ n = 2000 => PackData(n, id, want).length <= n + 22
<1>1. /\ PadSmall(want) \in Nat /\ PadSmall(want) <= 16
      /\ PadV2(n, want) \in Nat /\ PadV2(n, want) <= 1024 /\ (n = 2000 => PadV2(n, want) <= 1)
      /\ PadAes(n, id, want) \in Nat /\ PadAes(n, id, want) <= 513 /\ (n = 2000 => PadAes(n, id, want) <= 1)
  <2>1. n = 2000 => PadV2(n, want) <= 1 /\ PadAes(n, id, want) <= 1
    BY DEF PadV2, PadAes, Smaller
  <2> QED BY <2>1, SmallPaddingBounds, LongPaddingBounds, PaddingBounds
<1>2. CASE proto \in {"verify_simple", "auth_simple", "auth_sha1"}
  <2>1. PackData(n, id, want) = Frame(PadSmall(want) + n + 6, PadSmall(want), n, 0)
    BY <1>2 DEF PackData, verify_simple_pack_data, auth_simple_pack_data, auth_sha1_pack_data
  <2> QED BY <1>1, <1>2, <2>1 DEF Frame, Margin
<1>3. CASE proto = "auth_sha1_v2"
  <2>1. PackData(n, id, want) = Frame(PadV2(n, want) + n + 6, PadV2(n, want), n, 0)
    BY <1>3 DEF PackData, auth_sha1_v2_pack_data
  <2> QED BY <1>1, <1>3, <2>1 DEF Frame, Margin
<1>4. CASE proto = "auth_sha1_v4"
  <2>1. PackData(n, id, want) = Frame(PadV2(n, want) + n + 8, PadV2(n, want), n, 0)
    BY <1>4 DEF PackData, auth_sha1_v4_pack_data
  <2> QED BY <1>1, <1>4, <2>1 DEF Frame, Margin
<1>5. CASE proto = "auth_aes128_sha1"
  <2>1. PackData(n, id, want) = Frame(PadAes(n, id, want) + n + 8, PadAes(n, id, want), n, id)
    BY <1>5 DEF PackData, auth_aes128_sha1_pack_data
  <2> QED BY <1>1, <1>5, <2>1 DEF Frame, Margin
<1> QED BY <1>2, <1>3, <1>4, <1>5 DEF Kinds

\* The same of a header frame.
LEMMA PackAuthDataLength ==
  ASSUME proto \in Kinds, ~WithoutHeader, NEW n \in Nat, NEW want \in Nat \ {0}
  PROVE  /\ PackAuthData(n, want).data = n
         /\ PackAuthData(n, want).length <= n + HeaderMargin
<1>1. /\ PadSmall(want) \in Nat /\ PadSmall(want) <= 16
      /\ PadShort(want) \in Nat /\ PadShort(want) <= 128
      /\ PadV2(n, want) \in Nat /\ PadV2(n, want) <= 1024
      /\ PadAesHead(n, want) \in Nat /\ PadAesHead(n, want) <= 1024
  BY SmallPaddingBounds, LongPaddingBounds
<1>2. CASE proto = "auth_simple"
  <2>1. PackAuthData(n, want) = Frame(PadSmall(want) + n + 18, PadSmall(want), n, 0)
    BY <1>2 DEF PackAuthData, auth_simple_pack_auth_data
  <2> QED BY <1>1, <1>2, <2>1 DEF Frame, HeaderMargin
<1>3. CASE proto = "auth_sha1"
  <2>1. PackAuthData(n, want) = Frame(PadShort(want) + n + 28, PadShort(want), n, 0)
    BY <1>3 DEF PackAuthData, auth_sha1_pack_auth_data
  <2> QED BY <1>1, <1>3, <2>1 DEF Frame, HeaderMargin
<1>4. CASE proto \in {"auth_sha1_v2", "auth_sha1_v4"}
  <2>1. PackAuthData(n, want) = Frame(PadV2(n, want) + n + 28, PadV2(n, want), n, 0)
    BY <1>4 DEF PackAuthData, auth_sha1_v2_pack_auth_data, auth_sha1_v4_pack_auth_data
  <2> QED BY <1>1, <1>4, <2>1 DEF Frame, HeaderMargin
<1>5. CASE proto = "auth_aes128_sha1"
  <2>1. PackAuthData(n, want) = Frame(PadAesHead(n, want) + n + 35, PadAesHead(n, want), n, 0)
    BY <1>5 DEF PackAuthData, auth_aes128_sha1_pack_auth_data
  <2> QED BY <1>1, <1>5, <2>1 DEF Frame, HeaderMargin
<1> QED BY <1>2, <1>3, <1>4, <1>5 DEF Kinds, WithoutHeader

\* All but the last piece are whole units, and together they are the call.
LEMMA PiecesSum ==
  ASSUME NEW n \in Nat, n # 0
  PROVE  /\ Units(n) \in Nat /\ Units(n) >= 1
         /\ \A i \in 1..Units(n) : i < Units(n) => Piece(n, i) = 2000
         /\ Piece(n, Units(n)) = n - 2000 * (Units(n) - 1)
         /\ n > 2000 * (Units(n) - 1)
<1> DEFINE q == (n - 1) \div 2000
<1>1. q \in Nat /\ 2000 * q <= n - 1 /\ n - 1 < 2000 * q + 2000
  OBVIOUS
<1>2. Units(n) = 1 + q
  BY DEF Units, pack_unit_size
<1> HIDE DEF q
<1> QED BY <1>1, <1>2 DEF Piece, pack_unit_size

\* The frames of a call hold all its bytes, and are not much longer.
LEMMA PackAllFits ==
  ASSUME proto \in Kinds, NEW n \in Nat, NEW id \in Nat \ {0}, NEW want \in Nat \ {0}
  PROVE  LET s == PackAll(n, id, want)
         IN  Payload(s) = n /\ Total(s) <= 2 * n + Margin
<1> DEFINE u == Units(n)
           s == PackAll(n, id, want)
<1>1. u \in Nat /\ \A i \in 1..u : Piece(n, i) \in Nat
  BY PiecesSized
<1>2. s \in Seq(FrameType) /\ s = [i \in 1..u |-> PackData(Piece(n, i), id + i - 1, want)]
  BY PackAllHonest DEF PackAll, Piece
<1>3. Len(s) = u /\ SubSeq(s, 1, Len(s)) = s
  <2> HIDE DEF s
  <2> QED BY <1>1, <1>2
<1> HIDE DEF s, u
<1>0. \A i \in 1..u : s[i] \in FrameType
  BY <1>2, <1>3, ElementOfSeq
<1>4. ASSUME NEW i \in 1..u
      PROVE  /\ s[i].data = Piece(n, i) /\ s[i].length <= Piece(n, i) + Margin
             /\ Piece(n, i) = 2000 => s[i].length <= 2022
             /\ s[i].length \in Nat
  <2> DEFINE p == Piece(n, i)
             k == id + i - 1
  <2>1. s[i] = PackData(p, k, want) /\ p \in Nat /\ k \in Nat
    BY <1>1, <1>2
  <2>2. s[i].length \in Nat
    BY <1>0, FrameFields
  <2> HIDE DEF p, k
  <2>3. s[i].data = p /\ s[i].length <= p + Margin /\ (p = 2000 => s[i].length <= p + 22)
    BY <2>1, PackDataLength
  <2>4. p = 2000 => s[i].length <= 2022
    BY <2>3
  <2> QED BY <2>2, <2>3, <2>4 DEF p
<1>5. Margin \in {22, 1032}
  BY DEF Margin
<1>6. CASE n = 0
  <2>1. u = 0
    BY <1>6 DEF u, Units
  <2>2. Total(s) = 0 /\ Payload(s) = 0
    <3>1. s \in Seq(FrameType) /\ Len(s) = 0
      BY <1>2, <1>3, <2>1
    <3> HIDE DEF s
    <3>2. s = SubSeq(s, 1, 0)
      BY <3>1
    <3> QED BY <3>1, <3>2, TotalSteps, ZenonT(30)
  <2> QED BY <1>5, <1>6, <2>2 DEF s
<1>7. CASE n # 0
  <2>1. /\ u >= 1 /\ n > 2000 * (u - 1) /\ Piece(n, u) = n - 2000 * (u - 1)
        /\ \A i \in 1..u : i < u => Piece(n, i) = 2000
    BY <1>7, PiecesSum DEF u
  <2> DEFINE T(k) == Total(SubSeq(s, 1, k))
             P(k) == Payload(SubSeq(s, 1, k))
             S == {k \in 0..(u - 1) : T(k) \in Nat /\ T(k) <= 2022 * k /\ P(k) = 2000 * k}
  <2>2. /\ T(0) = 0 /\ P(0) = 0
        /\ \A k \in 1..u : T(k) = T(k - 1) + s[k].length /\ P(k) = P(k - 1) + s[k].data
    BY <1>2, <1>3, TotalSteps
  <2>3. \A k \in 0..u : T(k) \in Nat
    BY <1>2, <1>3, TotalsType
  <2>4. T(u) = Total(s) /\ P(u) = Payload(s)
    BY <1>3
  <2> HIDE DEF T, P
  <2>5. 0 \in S
    BY <1>1, <2>1, <2>2
  <2>6. ASSUME NEW k \in 0..(u - 1), k < u - 1, k \in S PROVE k + 1 \in S
    <3>1. k + 1 \in 1..u /\ k + 1 < u /\ k + 1 \in 0..(u - 1) /\ (k + 1) - 1 = k
      BY <1>1, <2>6
    <3>2. Piece(n, k + 1) = 2000 /\ s[k + 1].data = 2000 /\ s[k + 1].length <= 2022
          /\ s[k + 1].length \in Nat
      BY <1>4, <2>1, <3>1
    <3>3. T(k + 1) = T(k) + s[k + 1].length /\ P(k + 1) = P(k) + s[k + 1].data
      BY <2>2, <3>1
    <3> QED BY <2>6, <3>1, <3>2, <3>3
  <2>7. \A k \in 0..(u - 1) : k \in S
    <3>1. u - 1 \in Nat
      BY <1>1, <2>1
    <3> HIDE DEF S
    <3> QED BY <2>5, <2>6, <3>1, UpTo
  <2>8. u - 1 \in 0..(u - 1) /\ u \in 1..u
    BY <1>1, <2>1
  <2>9. T(u - 1) \in Nat /\ T(u - 1) <= 2022 * (u - 1) /\ P(u - 1) = 2000 * (u - 1)
    BY <2>7, <2>8
  <2>10. /\ T(u) = T(u - 1) + s[u].length /\ P(u) = P(u - 1) + s[u].data
         /\ s[u].data = n - 2000 * (u - 1) /\ s[u].length <= n - 2000 * (u - 1) + Margin
         /\ s[u].length \in Nat
    BY <1>4, <2>1, <2>2, <2>8
  <2>11. P(u) = n /\ T(u) <= 2 * n + Margin
    BY <1>1, <1>5, <2>1, <2>9, <2>10
  <2> QED BY <2>4, <2>11 DEF s
<1> QED BY <1>6, <1>7

\* The last call packed is whole and within its room.
PackedFits == Payload(packed.frames) = packed.bytes /\ Total(packed.frames) <= packed.room

\* The room of an out_buffer, over twice the bytes, is enough for what the frames add.
LEMMA RoomEnough ==
  ASSUME proto \in Kinds
  PROVE  /\ Slack \in Nat /\ Margin \in Nat /\ HeaderMargin \in Nat /\ Margin <= Slack
         /\ ~WithoutHeader => Margin + HeaderMargin <= Slack
BY DEF Kinds, Slack, Margin, HeaderMargin, WithoutHeader, verify_simple_client_pre_encrypt,
       auth_simple_client_pre_encrypt, auth_sha1_client_pre_encrypt, auth_sha1_v2_client_pre_encrypt,
       auth_sha1_v4_client_pre_encrypt, auth_aes128_sha1_client_pre_encrypt

\* A first call: the header frame holds the head, the others the rest.
LEMMA PacksHeaderFits ==
  ASSUME FramesInv, NEW n \in WriteSizes, PacksHeader(n)
  PROVE  PackedFits'
<1>1. n \in Nat /\ proto \in Kinds /\ ~WithoutHeader /\ pack_id \in Nat \ {0}
  BY SizesAssumption DEF FramesInv, PacksHeader
<1>2. PICK head \in HeadSizes, want \in Paddings :
        LET h == HeadOf(n, head)
            rest == PackAll(n - h, pack_id, want)
        IN  packed' = [bytes |-> n, frames |-> <<PackAuthData(h, want)>> \o rest, room |-> 2 * n + Slack]
  BY DEF PacksHeader, Packs
<1> DEFINE h == HeadOf(n, head)
           f == PackAuthData(h, want)
           first == <<f>>
           rest == PackAll(n - h, pack_id, want)
<1>3. h \in Nat /\ h <= 1200 /\ n - h \in Nat /\ want \in Nat \ {0}
  BY <1>1, HeadBounds, SizesAssumption
<1>4. packed' = [bytes |-> n, frames |-> first \o rest, room |-> 2 * n + Slack]
  BY <1>2
<1> HIDE DEF h
<1>5. f.data = h /\ f.length <= h + HeaderMargin
  BY <1>1, <1>3, PackAuthDataLength
<1>6. f \in FrameType
  BY <1>1, <1>3, PackAuthDataSized, SizedIsFrame
<1>7. rest \in Seq(FrameType) /\ Payload(rest) = n - h /\ Total(rest) <= 2 * (n - h) + Margin
  BY <1>1, <1>3, PackAllHonest, PackAllFits
<1> HIDE DEF f, rest
<1>8. first \in Seq(FrameType) /\ Total(first) = f.length /\ Payload(first) = f.data
      /\ f.length \in Nat
  BY <1>6, TotalOfOne, FrameFields
<1> HIDE DEF first
<1>9. /\ Total(first \o rest) = Total(first) + Total(rest)
      /\ Payload(first \o rest) = Payload(first) + Payload(rest)
      /\ Total(rest) \in Nat
  BY <1>7, <1>8, TotalsConcat, TotalsType
<1>10. /\ Slack \in Nat /\ Margin \in Nat /\ HeaderMargin \in Nat /\ Margin + HeaderMargin <= Slack
  BY <1>1, RoomEnough
<1>11. Payload(first \o rest) = n /\ Total(first \o rest) <= 2 * n + Slack
  BY <1>1, <1>3, <1>5, <1>7, <1>8, <1>9, <1>10
<1>12. packed'.bytes = n /\ packed'.frames = first \o rest /\ packed'.room = 2 * n + Slack
  BY <1>4
<1> QED BY <1>11, <1>12 DEF PackedFits

\* Any other call.
LEMMA PacksDataFits ==
  ASSUME FramesInv, NEW n \in WriteSizes, PacksData(n)
  PROVE  PackedFits'
<1>1. n \in Nat /\ proto \in Kinds /\ pack_id \in Nat \ {0}
  BY SizesAssumption DEF FramesInv
<1>2. PICK want \in Paddings :
        packed' = [bytes |-> n, frames |-> PackAll(n, pack_id, want), room |-> 2 * n + Slack]
  BY DEF PacksData, Packs
<1> DEFINE s == PackAll(n, pack_id, want)
<1>3. s \in Seq(FrameType) /\ Payload(s) = n /\ Total(s) <= 2 * n + Margin
  BY <1>1, SizesAssumption, PackAllHonest, PackAllFits
<1>4. packed'.bytes = n /\ packed'.frames = s /\ packed'.room = 2 * n + Slack
  BY <1>2
<1> HIDE DEF s
<1>5. Total(s) \in Nat /\ Slack \in Nat /\ Margin \in Nat /\ Margin <= Slack
  BY <1>1, <1>3, TotalsType, RoomEnough
<1>6. Total(s) <= 2 * n + Slack
  BY <1>1, <1>3, <1>5
<1> QED BY <1>3, <1>4, <1>6 DEF PackedFits

\* No call yet.
LEMMA NothingFits == Payload(Nothing.frames) = Nothing.bytes /\ Total(Nothing.frames) <= Nothing.room
<1> DEFINE e == <<>>
<1>1. e \in Seq(FrameType) /\ Len(e) = 0
  OBVIOUS
<1>2. Nothing.frames = e /\ Nothing.bytes = 0 /\ Nothing.room = 0
  BY DEF Nothing
<1> HIDE DEF e
<1>3. Total(e) = 0 /\ Payload(e) = 0
  BY <1>1, FirstFrames, TotalSteps
<1> QED BY <1>2, <1>3
-----------------------------------------------------------------------------
(* What is cut is put together again.                                      *)

\* The least of a set of numbers.
LEMMA LeastOf ==
  ASSUME NEW S, S \subseteq Nat, S # {}
  PROVE  \E n \in S : \A m \in S : n <= m
<1>1. PICK i \in S : \A m \in S : ~(<<m, i>> \in OpToRel(<, Nat))
  BY NatLessThanWellFounded, WFMin
<1>2. \A m \in S : ~(m < i)
  BY <1>1 DEF OpToRel
<1>3. \A m \in S : i <= m
  BY <1>2
<1> QED BY <1>3

\* Loop, spelled out.
Left(k, size) == size - (End(taken + k) - End(taken))
Errs(k, size) ==
  Left(k, size) > PostDecrypt.look /\ Refuses(wire[taken + k + 1], recv_id + k, Left(k, size))
Stops(k, size) ==
  Left(k, size) <= PostDecrypt.look \/ Errs(k, size) \/ wire[taken + k + 1].length > Left(k, size)

\* The loop goes round until the first time it has to stop.
LEMMA LoopIs ==
  ASSUME NEW size, taken \in Nat, Len(wire) \in Nat, taken <= Len(wire),
         \E k \in 0..(Len(wire) - taken) : Stops(k, size)
  PROVE  \E n \in 0..(Len(wire) - taken) :
           /\ Loop(size) = [frames |-> n, left |-> Left(n, size), error |-> Errs(n, size)]
           /\ Stops(n, size) /\ \A k \in 0..(Len(wire) - taken) : k < n => ~Stops(k, size)
<1> DEFINE S == {k \in 0..(Len(wire) - taken) : Stops(k, size)}
           n == CHOOSE x \in S : \A y \in S : x <= y
<1>1. Loop(size) = [frames |-> n, left |-> Left(n, size), error |-> Errs(n, size)]
  BY DEF Loop, Min, Left, Errs, Stops
<1>2. S \subseteq Nat /\ S # {}
  OBVIOUS
<1>3. n \in S /\ \A y \in S : n <= y
  <2> HIDE DEF S
  <2> QED BY <1>2, LeastOf
<1>4. n \in 0..(Len(wire) - taken) /\ Stops(n, size)
  <2> HIDE DEF n
  <2> QED BY <1>3
<1>5. \A k \in 0..(Len(wire) - taken) : k < n => ~Stops(k, size)
  <2> HIDE DEF n
  <2> QED BY <1>3, <1>4
<1> HIDE DEF n
<1> QED BY <1>1, <1>4, <1>5

\* The reader has the types it should, and what it keeps is what Reassembles says.
ReaderInv ==
  /\ taken \in Nat /\ taken <= Len(wire) /\ read \in Nat /\ read <= Total(wire)
  /\ recv_buffer_size \in Nat /\ recv_buffer_size <= RECV_BUFFER
  /\ recv_id \in Nat /\ out \in Nat /\ refused \in BOOLEAN
  /\ ~refused => recv_id = IF proto \in Counted THEN taken + 1 ELSE 1
  /\ Reassembles

\* Where the frames of the wire end.
LEMMA Ends ==
  ASSUME wire \in Seq(FrameType)
  PROVE  /\ Len(wire) \in Nat /\ Total(wire) \in Nat
         /\ End(0) = 0 /\ End(Len(wire)) = Total(wire)
         /\ \A k \in 0..Len(wire) : End(k) \in Nat
         /\ \A k \in 1..Len(wire) : End(k) = End(k - 1) + wire[k].length
BY FirstFrames, TotalSteps, TotalsType DEF End

\* No frame ends before one that comes earlier.
LEMMA EndsGrow ==
  ASSUME wire \in Seq(FrameType), NEW i \in 0..Len(wire)
  PROVE  \A k \in 0..(Len(wire) - i) : End(i + k) >= End(i)
<1> DEFINE m == Len(wire) - i
           S == {k \in 0..m : End(i + k) >= End(i)}
<1>1. /\ Len(wire) \in Nat /\ m \in Nat /\ i \in Nat /\ i + 0 = i
      /\ \A k \in 0..Len(wire) : End(k) \in Nat
      /\ \A k \in 1..Len(wire) : End(k) = End(k - 1) + wire[k].length
  BY Ends
<1>2. 0 \in S
  BY <1>1
<1>3. ASSUME NEW k \in 0..m, k < m, k \in S PROVE k + 1 \in S
  <2>1. /\ i + k \in 0..Len(wire) /\ i + (k + 1) \in 1..Len(wire) /\ (i + (k + 1)) - 1 = i + k
        /\ k + 1 \in 0..m /\ i \in 0..Len(wire)
    BY <1>1, <1>3
  <2>2. wire[i + (k + 1)].length \in Nat
    BY <2>1, FrameFields, ElementOfSeq
  <2>3. End(i + (k + 1)) = End(i + k) + wire[i + (k + 1)].length /\ End(i + k) \in Nat /\ End(i) \in Nat
    BY <1>1, <2>1
  <2>4. End(i + k) >= End(i)
    BY <1>3
  <2>5. End(i + (k + 1)) >= End(i)
    BY <2>2, <2>3, <2>4
  <2> QED BY <2>1, <2>5
<1>4. \A k \in 0..m : k \in S
  <2> HIDE DEF S, m
  <2> QED BY <1>1, <1>2, <1>3, UpTo
<1> QED BY <1>4

\* The bytes of the stream from the first frame not taken to byte to.
LEMMA Waiting ==
  ASSUME FramesInv, ReaderInv, ~refused, NEW to \in Int, to > read, to <= Total(wire), to <= read + BUF_SIZE
  PROVE  LET size == recv_buffer_size + (to - read)
         IN  /\ size \in Nat /\ size = to - End(taken) /\ size <= RECV_BUFFER
             /\ ~Overflows(to - read)
<1>1. /\ Len(wire) \in Nat /\ Total(wire) \in Nat /\ End(Len(wire)) = Total(wire)
      /\ \A k \in 0..Len(wire) : End(k) \in Nat
      /\ \A k \in 1..Len(wire) : End(k) = End(k - 1) + wire[k].length
  BY Ends DEF FramesInv
<1>2. taken \in 0..Len(wire) /\ End(taken) \in Nat /\ recv_buffer_size = read - End(taken)
  BY <1>1 DEF ReaderInv, Reassembles
<1>3. recv_buffer_size <= 8191
  <2>1. CASE taken = Len(wire)
    BY <1>1, <1>2, <2>1 DEF ReaderInv
  <2>2. CASE taken # Len(wire)
    <3>1. taken + 1 \in 1..Len(wire) /\ (taken + 1) - 1 = taken /\ taken < Len(wire)
      BY <1>1, <1>2, <2>2
    <3>2. wire[taken + 1] \in FrameType /\ wire[taken + 1].length <= 8191
      BY <3>1 DEF FramesInv, Sized
    <3>3. End(taken + 1) = End(taken) + wire[taken + 1].length /\ read < End(taken + 1)
      BY <1>1, <3>1 DEF ReaderInv, Reassembles
    <3>4. wire[taken + 1].length \in Nat
      BY <3>2, FrameFields
    <3> QED BY <1>2, <3>2, <3>3, <3>4 DEF ReaderInv
  <2> QED BY <2>1, <2>2
<1>4. read \in Nat /\ recv_buffer_size \in Nat /\ to - read <= 2048
  BY DEF ReaderInv, BUF_SIZE
<1>5. recv_buffer_size + (to - read) <= 16384
  BY <1>3, <1>4
<1> QED BY <1>2, <1>4, <1>5 DEF Overflows, RECV_BUFFER

\* How far every plugin looks before it begins.
LEMMA Looks ==
  ASSUME proto \in Kinds
  PROVE  PostDecrypt.look \in {2, 4} /\ PostDecrypt.least \in {7, 8} /\ PostDecrypt.lead \in {2, 4}
BY DEF Kinds, PostDecrypt, verify_simple_client_post_decrypt, verify_simple_server_post_decrypt,
       auth_simple_client_post_decrypt, auth_sha1_client_post_decrypt, auth_sha1_v2_client_post_decrypt,
       auth_sha1_v4_client_post_decrypt, auth_aes128_sha1_client_post_decrypt

\* A whole frame with a fault is refused.
LEMMA FaultRefused ==
  ASSUME proto \in Kinds, NEW f \in FrameType, NEW n, NEW size \in Int, f.length <= size,
         ~Refuses(f, n, size)
  PROVE  f.fault = "none"
<1>1. f.fault \in {"none", "long", "short", "sum"}
  BY DEF FrameType
<1>2. PostDecrypt.least \in {7, 8}
  BY Looks
<1> QED BY <1>1, <1>2 DEF Refuses, LengthField

\* An honest frame is not, where the reader's count has come to it.
LEMMA HonestPasses ==
  ASSUME NEW f, NEW i, NEW n, Honest(f, i), proto \in Counted => n = i, NEW size \in Nat
  PROVE  ~Refuses(f, n, size)
BY DEF Honest, Refuses

\* What a call takes, with all bytes up to to: whole frames without a fault, until what is
\* left is less than the next frame, or the next has a fault.
LEMMA LoopTakes ==
  ASSUME FramesInv, ReaderInv, ~refused, NEW to \in Int, to > read, to <= Total(wire), to <= read + BUF_SIZE
  PROVE  \E n \in Nat :
           LET took == Loop(recv_buffer_size + (to - read))
               t == taken + n
           IN  /\ took.frames = n /\ took.left = to - End(t) /\ took.error \in BOOLEAN
               /\ t \in Nat /\ t <= Len(wire) /\ to - End(t) \in Nat /\ to - End(t) <= RECV_BUFFER
               /\ \A i \in 1..t : i > taken => wire[i].fault = "none"
               /\ took.error => t < Len(wire) /\ wire[t + 1].fault # "none"
               /\ ~took.error /\ t < Len(wire) => to < End(t + 1)
<1> DEFINE size == recv_buffer_size + (to - read)
           look == PostDecrypt.look
<1>1. size \in Nat /\ size = to - End(taken) /\ size <= RECV_BUFFER
  BY Waiting
<1>2. /\ Len(wire) \in Nat /\ Total(wire) \in Nat /\ End(Len(wire)) = Total(wire)
      /\ \A k \in 0..Len(wire) : End(k) \in Nat
      /\ \A k \in 1..Len(wire) : End(k) = End(k - 1) + wire[k].length
  BY Ends DEF FramesInv
<1>3. look \in {2, 4}
  BY Looks DEF FramesInv
<1> HIDE DEF size, look
<1>4. taken \in Nat /\ taken <= Len(wire) /\ End(taken) \in Nat
  BY <1>2 DEF ReaderInv
<1>5. \A k \in 0..(Len(wire) - taken) : taken + k \in 0..Len(wire) /\ Left(k, size) = to - End(taken + k)
                                        /\ End(taken + k) \in Nat
  <2>1. \A k \in 0..(Len(wire) - taken) : taken + k \in 0..Len(wire)
    BY <1>2, <1>4
  <2> QED BY <1>1, <1>2, <1>4, <2>1 DEF Left
<1>6. ASSUME NEW k \in 0..(Len(wire) - taken), k < Len(wire) - taken
      PROVE  LET f == wire[taken + k + 1]
             IN  /\ taken + k + 1 \in 1..Len(wire) /\ f \in FrameType /\ f.length \in Nat
                 /\ f.length >= 8 /\ End(taken + k + 1) = End(taken + k) + f.length
  <2>1. taken + k + 1 \in 1..Len(wire) /\ (taken + k + 1) - 1 = taken + k
    BY <1>2, <1>4, <1>6
  <2>2. wire[taken + k + 1] \in FrameType /\ wire[taken + k + 1].length >= 8
    BY <2>1 DEF FramesInv, Sized
  <2> QED BY <1>2, <2>1, <2>2, FrameFields
<1>7. Stops(Len(wire) - taken, size)
  <2> DEFINE k == Len(wire) - taken
  <2>1. k \in 0..(Len(wire) - taken) /\ taken + k = Len(wire)
    BY <1>2, <1>4
  <2> HIDE DEF k
  <2>2. Left(k, size) <= look
    BY <1>2, <1>3, <1>5, <2>1
  <2> QED BY <2>2 DEF Stops, k, look
<1>8. \E k \in 0..(Len(wire) - taken) : Stops(k, size)
  <2>1. Len(wire) - taken \in 0..(Len(wire) - taken)
    BY <1>2, <1>4
  <2> QED BY <1>7, <2>1
<1>9. PICK n \in 0..(Len(wire) - taken) :
        /\ Loop(size) = [frames |-> n, left |-> Left(n, size), error |-> Errs(n, size)]
        /\ Stops(n, size) /\ \A k \in 0..(Len(wire) - taken) : k < n => ~Stops(k, size)
  BY <1>2, <1>4, <1>8, LoopIs
<1> DEFINE t == taken + n
<1>10. /\ n \in Nat /\ t \in Nat /\ t <= Len(wire) /\ t >= taken
       /\ Left(n, size) = to - End(t) /\ End(t) \in Nat
  BY <1>2, <1>4, <1>5
<1>11. ASSUME NEW k \in 0..(Len(wire) - taken), k < n
       PROVE  /\ Left(k, size) > look /\ wire[taken + k + 1].length <= Left(k, size)
              /\ wire[taken + k + 1].fault = "none"
  <2>1. ~Stops(k, size)
    BY <1>9, <1>11
  <2>2. k < Len(wire) - taken
    BY <1>2, <1>4, <1>9, <1>11
  <2>3. Left(k, size) \in Int /\ look \in Int /\ wire[taken + k + 1] \in FrameType
        /\ wire[taken + k + 1].length \in Int
    BY <1>1, <1>3, <1>5, <1>6, <2>2
  <2>4. Left(k, size) > look /\ ~Refuses(wire[taken + k + 1], recv_id + k, Left(k, size))
        /\ wire[taken + k + 1].length <= Left(k, size)
    BY <2>1, <2>3 DEF Stops, Errs, look
  <2> QED BY <2>3, <2>4, FaultRefused DEF FramesInv
<1>12. to - End(t) \in Nat /\ to - End(t) <= RECV_BUFFER
  <2>1. CASE n = 0
    BY <1>1, <1>4, <2>1
  <2>2. CASE n # 0
    <3> DEFINE k == n - 1
    <3>1. k \in 0..(Len(wire) - taken) /\ k < n /\ taken + k + 1 = t /\ k < Len(wire) - taken
      BY <1>2, <1>4, <1>9, <2>2
    <3> HIDE DEF k
    <3>2. Left(k, size) = to - End(taken + k) /\ End(taken + k) \in Nat
      BY <1>5, <3>1
    <3>3. /\ wire[t].length \in Nat /\ wire[t].length <= Left(k, size)
          /\ End(t) = End(taken + k) + wire[t].length
      BY <1>6, <1>11, <3>1
    <3>4. End(t) >= End(taken)
      <4>1. wire \in Seq(FrameType) /\ taken \in 0..Len(wire) /\ n \in 0..(Len(wire) - taken)
        BY <1>2, <1>4 DEF FramesInv
      <4> HIDE DEF t
      <4>2. \A m \in 0..(Len(wire) - taken) : End(taken + m) >= End(taken)
        BY <4>1, EndsGrow
      <4> QED BY <4>1, <4>2 DEF t
    <3>5. RECV_BUFFER \in Int /\ End(t) \in Nat
      BY <1>10 DEF RECV_BUFFER
    <3> QED BY <1>1, <1>4, <1>10, <3>2, <3>3, <3>4, <3>5, SMTT(30)
  <2> QED BY <2>1, <2>2
<1>13. ASSUME NEW i \in 1..t, i > taken PROVE wire[i].fault = "none"
  <2> DEFINE k == i - taken - 1
  <2>1. k \in 0..(Len(wire) - taken) /\ k < n /\ taken + k + 1 = i
    BY <1>2, <1>4, <1>10, <1>13
  <2> HIDE DEF k
  <2> QED BY <1>11, <2>1
<1>14. ASSUME t < Len(wire)
       PROVE  /\ t + 1 \in 1..Len(wire) /\ wire[t + 1] \in FrameType /\ wire[t + 1].length \in Nat
              /\ wire[t + 1].length >= 8 /\ End(t + 1) = End(t) + wire[t + 1].length
  <2>1. n < Len(wire) - taken
    BY <1>2, <1>4, <1>14
  <2> QED BY <1>6, <2>1
<1>15. ASSUME Errs(n, size) PROVE t < Len(wire) /\ wire[t + 1].fault # "none"
  <2>1. Left(n, size) > look /\ Refuses(wire[t + 1], recv_id + n, Left(n, size))
    BY <1>15 DEF Errs, look
  <2>2. t < Len(wire)
    <3>1. CASE t = Len(wire)
      <4>1. Left(n, size) <= 0
        BY <1>2, <1>10, <3>1
      <4> QED BY <1>3, <1>10, <2>1, <4>1
    <3> QED BY <1>2, <1>10, <3>1
  <2>3. ASSUME wire[t + 1].fault = "none" PROVE FALSE
    <3>1. Honest(wire[t + 1], t + 1)
      BY <1>14, <2>2, <2>3 DEF FramesInv
    <3>2. proto \in Counted => recv_id + n = t + 1
      BY <1>4, <1>10 DEF ReaderInv
    <3>3. Left(n, size) \in Nat
      BY <1>10, <1>12
    <3> QED BY <2>1, <3>1, <3>2, <3>3, HonestPasses
  <2> QED BY <2>2, <2>3
<1>16. ASSUME ~Errs(n, size), t < Len(wire) PROVE to < End(t + 1)
  <2>1. Left(n, size) <= look \/ wire[t + 1].length > Left(n, size)
    BY <1>9, <1>16 DEF Stops, look
  <2> QED BY <1>3, <1>10, <1>14, <1>16, <2>1
<1>17. Errs(n, size) \in BOOLEAN
  BY DEF Errs, Refuses
<1> DEFINE took == Loop(size)
<1>18. took.frames = n /\ took.left = to - End(t) /\ took.error = Errs(n, size)
  BY <1>9, <1>10
<1> HIDE DEF took, t
<1>19. /\ took.frames = n /\ took.left = to - End(t) /\ took.error \in BOOLEAN
       /\ t \in Nat /\ t <= Len(wire) /\ to - End(t) \in Nat /\ to - End(t) <= RECV_BUFFER
       /\ \A i \in 1..t : i > taken => wire[i].fault = "none"
       /\ took.error => t < Len(wire) /\ wire[t + 1].fault # "none"
       /\ ~took.error /\ t < Len(wire) => to < End(t + 1)
  BY <1>10, <1>12, <1>13, <1>15, <1>16, <1>17, <1>18
<1> QED BY <1>10, <1>19 DEF took, t, size

\* The payloads that the reader finds in the frames it takes are those of the wire.
LEMMA KeptPayload ==
  ASSUME wire \in Seq(FrameType), HonestWire, NEW a \in Nat, NEW n \in Nat, a + n <= Len(wire),
         \A i \in 1..(a + n) : i > a => wire[i].fault = "none"
  PROVE  LET kept == SubSeq(wire, a + 1, a + n)
         IN  Payload(SubSeq(wire, 1, a + n))
               = Payload(SubSeq(wire, 1, a)) + Sum([i \in DOMAIN kept |-> PayloadOf(kept[i])])
<1> DEFINE kept == SubSeq(wire, a + 1, a + n)
           first == SubSeq(wire, 1, a)
           w == wire
<1>1. /\ Len(w) \in Nat /\ DOMAIN w = 1..Len(w) /\ a \in 0..Len(w) /\ a + n \in 0..Len(w)
      /\ w \in Seq(FrameType) /\ \A i \in 1..Len(w) : w[i] \in FrameType
  OBVIOUS
<1>2. /\ kept \in Seq(FrameType) /\ Len(kept) = n /\ DOMAIN kept = 1..n
      /\ \A i \in 1..n : kept[i] = w[a + i]
  <2>1. a + 1 \in Int /\ a + n \in Int /\ \A i \in (a + 1)..(a + n) : w[i] \in FrameType
    BY <1>1
  <2>2. /\ kept \in Seq(FrameType)
        /\ Len(kept) = IF a + 1 <= a + n THEN (a + n) - (a + 1) + 1 ELSE 0
        /\ \A i \in 1 .. (a + n) - (a + 1) + 1 : kept[i] = w[(a + 1) + i - 1]
    BY <2>1, SubSeqProperties
  <2>3. (a + n) - (a + 1) + 1 = n /\ \A i \in 1..n : (a + 1) + i - 1 = a + i
    BY <1>1
  <2>4. Len(kept) = n
    BY <2>2, <2>3
  <2> HIDE DEF kept
  <2>5. DOMAIN kept = 1..n
    BY <2>2, <2>4
  <2> QED BY <2>2, <2>3, <2>4, <2>5
<1>3. /\ first \in Seq(FrameType) /\ Len(first) = a /\ \A i \in 1..a : first[i] = w[i]
  BY <1>1
<1>4. SubSeq(w, 1, a + n) = first \o kept
  <2>1. SubSeq(w, 1, a + n) = [i \in 1..(a + n) |-> w[i]]
    BY <1>1
  <2> DEFINE c == first \o kept
  <2> HIDE DEF first, kept
  <2>2. c \in Seq(FrameType) /\ Len(c) = a + n
        /\ \A i \in 1..(a + n) : c[i] = IF i <= a THEN first[i] ELSE kept[i - a]
    BY <1>2, <1>3, ConcatProperties
  <2> HIDE DEF c
  <2>3. \A i \in 1..(a + n) : c[i] = w[i]
    <3>1. ASSUME NEW i \in 1..(a + n), i <= a PROVE c[i] = w[i]
      <4>1. i \in 1..a
        BY <3>1
      <4> QED BY <1>3, <2>2, <3>1, <4>1
    <3>2. ASSUME NEW i \in 1..(a + n), ~(i <= a) PROVE c[i] = w[i]
      <4>1. i - a \in 1..n /\ a + (i - a) = i
        BY <3>2
      <4> QED BY <1>2, <2>2, <3>2, <4>1
    <3> QED BY <3>1, <3>2
  <2>4. c = [i \in 1..(a + n) |-> c[i]]
    BY <2>2
  <2> QED BY <2>1, <2>3, <2>4 DEF c
<1>5. [i \in DOMAIN kept |-> PayloadOf(kept[i])] = [i \in DOMAIN kept |-> kept[i].data]
  <2>1. ASSUME NEW i \in 1..n PROVE PayloadOf(kept[i]) = kept[i].data
    <3>1. a + i \in 1..(a + n) /\ a + i > a /\ a + i \in DOMAIN w
      BY <1>1
    <3>2. Honest(w[a + i], a + i)
      BY <3>1 DEF HonestWire
    <3> HIDE DEF kept, w
    <3> QED BY <1>2, <3>2 DEF Honest
  <2> HIDE DEF kept
  <2> QED BY <1>2, <2>1
<1> HIDE DEF first, kept, w
<1>6. Payload(first \o kept) = Payload(first) + Payload(kept)
  BY <1>2, <1>3, TotalsConcat
<1>7. Payload(kept) = Sum([i \in DOMAIN kept |-> PayloadOf(kept[i])])
  BY <1>5 DEF Payload
<1> QED BY <1>4, <1>6, <1>7 DEF w, first, kept

\* The reader's next piece.
LEMMA ReceiveReads ==
  ASSUME FramesInv, ReaderInv, Receive
  PROVE  ReaderInv'
<1>1. ~refused /\ UNCHANGED <<proto, dir, wire>>
  BY DEF Receive
<1>2. PICK to : /\ to \in {End(k) + d : k \in 0..Len(wire), d \in Cuts} \cup {read + BUF_SIZE, Total(wire)}
                /\ to > read /\ to <= Total(wire) /\ to <= read + BUF_SIZE
                /\ Receives(to - read) /\ read' = to
  BY DEF Receive
<1>3. /\ wire \in Seq(FrameType) /\ Len(wire) \in Nat /\ Total(wire) \in Nat /\ End(0) = 0
      /\ \A k \in 0..Len(wire) : End(k) \in Nat
  BY Ends DEF FramesInv
<1>4. to \in Int
  <2>1. read \in Nat
    BY DEF ReaderInv
  <2>2. \A k \in 0..Len(wire), d \in Cuts : End(k) + d \in Int
    BY <1>3, SizesAssumption
  <2> QED BY <1>2, <1>3, <2>1, <2>2 DEF BUF_SIZE
<1> DEFINE size == recv_buffer_size + (to - read)
           took == Loop(size)
<1>5. PICK n \in Nat :
        /\ took.frames = n /\ took.left = to - End(taken + n) /\ took.error \in BOOLEAN
        /\ taken + n \in Nat /\ taken + n <= Len(wire)
        /\ to - End(taken + n) \in Nat /\ to - End(taken + n) <= RECV_BUFFER
        /\ \A i \in 1..(taken + n) : i > taken => wire[i].fault = "none"
        /\ took.error => taken + n < Len(wire) /\ wire[taken + n + 1].fault # "none"
        /\ ~took.error /\ taken + n < Len(wire) => to < End(taken + n + 1)
  BY <1>1, <1>2, <1>4, LoopTakes
<1>6. ~Overflows(to - read)
  BY <1>1, <1>2, <1>4, Waiting
<1> HIDE DEF took
<1> DEFINE kept == SubSeq(wire, taken + 1, taken + n)
           found == Sum([i \in DOMAIN kept |-> PayloadOf(kept[i])])
<1>7. /\ refused' = took.error
      /\ recv_buffer_size' = IF took.error THEN 0 ELSE to - End(taken + n)
      /\ taken' = taken + n
      /\ recv_id' = IF proto \in Counted THEN recv_id + n ELSE recv_id
      /\ out' = IF took.error THEN out ELSE out + found
  <2> DEFINE kept2 == SubSeq(wire, taken + 1, taken + took.frames)
             found2 == Sum([i \in DOMAIN kept2 |-> PayloadOf(kept2[i])])
  <2>1. /\ refused' = took.error
        /\ recv_buffer_size' = IF took.error THEN 0 ELSE took.left
        /\ taken' = taken + took.frames
        /\ recv_id' = IF proto \in Counted THEN recv_id + took.frames ELSE recv_id
        /\ out' = IF took.error THEN out ELSE out + found2
    <3>1. Receives(to - read)
      BY <1>2
    <3> QED BY <3>1, <1>6 DEF Receives, took
  <2>2. kept2 = kept
    BY <1>5
  <2>3. found2 = found
    <3> HIDE DEF kept2, kept
    <3> QED BY <2>2
  <2> HIDE DEF found2, found, kept2, kept
  <2> QED BY <1>5, <2>1, <2>3
<1>8. taken \in Nat /\ read \in Nat /\ out \in Nat /\ recv_id \in Nat /\ taken <= Len(wire)
      /\ out = Payload(SubSeq(wire, 1, taken))
      /\ recv_id = (IF proto \in Counted THEN taken + 1 ELSE 1)
      /\ \A i \in 1..taken : wire[i].fault = "none"
  BY <1>1 DEF ReaderInv, Reassembles
<1>9. Payload(SubSeq(wire, 1, taken + n)) = Payload(SubSeq(wire, 1, taken)) + found
  BY <1>3, <1>5, <1>8, KeptPayload DEF FramesInv, HonestWire
<1> HIDE DEF found
<1>10. out' \in Nat /\ (~refused' => out' = Payload(SubSeq(wire', 1, taken')))
  <2>1. taken + n \in 0..Len(wire)
    BY <1>3, <1>5
  <2>2. Payload(SubSeq(wire, 1, taken + n)) \in Nat
    BY <1>3, <2>1, TotalsType
  <2> QED BY <1>1, <1>7, <1>8, <1>9, <2>2
<1>12. \A i \in 1..taken' : wire'[i].fault = "none"
  BY <1>1, <1>5, <1>7, <1>8
<1>13. refused' => taken' < Len(wire') /\ wire'[taken' + 1].fault # "none"
  BY <1>1, <1>5, <1>7
<1>14. ~refused' => /\ recv_buffer_size' = read' - End(taken')
                    /\ taken' < Len(wire') => read' < End(taken' + 1)
  BY <1>1, <1>2, <1>5, <1>7
<1>15. Reassembles'
  <2>2. End(taken)' = End(taken') /\ End(taken + 1)' = End(taken' + 1)
    BY <1>1 DEF End
  <2> QED BY <1>10, <1>12, <1>13, <1>14, <2>2 DEF Reassembles
<1>16. Total(wire)' = Total(wire) /\ Total(wire') = Total(wire)
  BY <1>1
<1>17. read' \in Nat /\ read' <= Total(wire')
  BY <1>1, <1>2, <1>4, <1>8
<1>18. taken' \in Nat /\ taken' <= Len(wire') /\ recv_id' \in Nat /\ refused' \in BOOLEAN
       /\ recv_buffer_size' \in Nat /\ recv_buffer_size' <= RECV_BUFFER
  BY <1>1, <1>5, <1>7, <1>8 DEF RECV_BUFFER
<1>19. ~refused' => recv_id' = IF proto' \in Counted THEN taken' + 1 ELSE 1
  BY <1>1, <1>5, <1>7, <1>8
<1>20. RECV_BUFFER' = RECV_BUFFER
  OBVIOUS
<1> QED BY <1>10, <1>15, <1>17, <1>18, <1>19 DEF ReaderInv

\* Frames that come behind those of the wire change nothing of what the reader has done.
LEMMA GrowthReads ==
  ASSUME FramesInv, ReaderInv, SizedWire', UNCHANGED <<proto, reader>>,
         NEW more \in Seq(FrameType), wire' = wire \o more
  PROVE  ReaderInv'
<1> DEFINE w == wire
<1>1. /\ w \in Seq(FrameType) /\ Len(w) \in Nat /\ Len(more) \in Nat
      /\ wire' \in Seq(FrameType) /\ Len(wire') = Len(w) + Len(more)
      /\ \A i \in 1..Len(w) : wire'[i] = w[i]
  <2>1. w \in Seq(FrameType)
    BY DEF FramesInv
  <2> QED BY <2>1
<1>2. \A k \in 0..Len(w) : SubSeq(wire', 1, k) = SubSeq(w, 1, k)
  BY <1>1, PrefixOfConcat
<1>3. /\ Total(w) \in Nat /\ Total(more) \in Nat /\ Total(wire') = Total(w) + Total(more)
  BY <1>1, TotalsType, TotalsConcat
<1>4. /\ taken \in Nat /\ taken <= Len(w) /\ read \in Nat /\ read <= Total(w)
      /\ End(Len(w)) = Total(w)
  BY <1>1, Ends DEF ReaderInv
<1>5. taken \in 0..Len(w) /\ taken <= Len(wire')
  BY <1>1, <1>4
<1>6. /\ Total(SubSeq(wire', 1, taken)) = End(taken)
      /\ Payload(SubSeq(wire', 1, taken)) = Payload(SubSeq(wire, 1, taken))
  BY <1>2, <1>5 DEF End
<1>7. ASSUME ~refused, taken < Len(wire') PROVE read < Total(SubSeq(wire', 1, taken + 1))
  <2>1. CASE taken < Len(w)
    <3>1. taken + 1 \in 0..Len(w)
      BY <1>1, <1>4, <2>1
    <3>2. read < End(taken + 1)
      BY <1>7, <2>1 DEF ReaderInv, Reassembles
    <3> QED BY <1>2, <3>1, <3>2 DEF End
  <2>2. CASE taken = Len(w)
    <3>1. taken + 1 \in 1..Len(wire') /\ (taken + 1) - 1 = taken
      BY <1>1, <1>4, <1>7
    <3>2. wire'[taken + 1].length \in Nat /\ wire'[taken + 1].length >= 8
      BY <1>1, <3>1, FrameFields, ElementOfSeq, SMTT(30) DEF SizedWire, Sized
    <3>3. Total(SubSeq(wire', 1, taken + 1)) = Total(SubSeq(wire', 1, taken)) + wire'[taken + 1].length
      BY <1>1, <3>1, TotalSteps
    <3>4. Total(SubSeq(wire', 1, taken)) = Total(w)
      BY <1>4, <1>6, <2>2
    <3> DEFINE a == Total(SubSeq(wire', 1, taken + 1))
               b == Total(SubSeq(wire', 1, taken))
               c == wire'[taken + 1].length
               d == Total(w)
    <3>5. a = b + c /\ b = d /\ c \in Nat /\ c >= 8 /\ d \in Nat /\ read \in Nat /\ read <= d
      BY <1>3, <1>4, <3>2, <3>3, <3>4
    <3> HIDE DEF a, b, c, d
    <3>6. read < a
      BY <3>5
    <3> QED BY <3>6 DEF a
  <2> QED BY <1>1, <1>4, <2>1, <2>2
<1>8. UNCHANGED <<read, recv_buffer_size, recv_id, taken, out, refused, proto>>
  BY DEF reader
<1>9. Reassembles'
  <2>1. \A i \in 1..taken : wire'[i] = wire[i]
    BY <1>1, <1>5
  <2>2. refused => taken < Len(wire') /\ wire'[taken + 1].fault # "none"
    <3>1. ASSUME refused PROVE taken < Len(w) /\ wire[taken + 1].fault # "none"
      BY <3>1 DEF ReaderInv, Reassembles
    <3>2. taken < Len(w) => taken + 1 \in 1..Len(w) /\ taken < Len(wire')
      BY <1>1, <1>4
    <3> QED BY <1>1, <3>1, <3>2
  <2>3. /\ out = Payload(SubSeq(wire, 1, taken)) \/ refused
        /\ recv_buffer_size = read - End(taken) \/ refused
        /\ \A i \in 1..taken : wire[i].fault = "none"
    BY DEF ReaderInv, Reassembles
  <2> QED BY <1>6, <1>7, <1>8, <2>1, <2>2, <2>3 DEF Reassembles, End
<1>10. read <= Total(wire')
  BY <1>3, <1>4
<1> QED BY <1>5, <1>8, <1>9, <1>10 DEF ReaderInv
-----------------------------------------------------------------------------
(* The invariant, and what it implies.                                     *)

\* The counters.
CountsInv ==
  /\ proto \in Protocols /\ has_sent_header \in BOOLEAN
  /\ writes \in 0..MaxWrites /\ connections \in 1..MaxConnections
  /\ connection_id \in 0..LastId /\ client_id \in Nat
  /\ headers \in Seq([client : Nat, connection : 0..LastId])

\* Every step keeps them within their bounds.
LEMMA CountsStep ==
  ASSUME CountsInv, [Next]_vars
  PROVE  CountsInv'
<1>1. ASSUME NEW n \in WriteSizes, PacksHeader(n) PROVE CountsInv'
  <2>1. PICK ids \in NextIds([client |-> client_id, connection |-> connection_id]) :
          client_id' = ids.client /\ connection_id' = ids.connection /\ headers' = Append(headers, ids)
    BY <1>1 DEF PacksHeader
  <2>2. ids \in [client : Nat, connection : 0..LastId]
    <3>1. client_id \in Nat /\ connection_id \in Nat /\ connection_id <= LastId /\ LastId \in Nat
      BY FirstIdsAssumption DEF CountsInv
    <3>2. CASE connection_id + 1 > LastId
      <4>1. PICK i \in FirstIds : ids = [client |-> client_id + 1, connection |-> i]
        BY <3>2 DEF NextIds
      <4>2. i \in 0..LastId
        BY <3>1, FirstIdsAssumption
      <4> QED BY <3>1, <4>1, <4>2
    <3>3. CASE ~(connection_id + 1 > LastId)
      <4>1. ids = [client |-> client_id, connection |-> connection_id + 1]
        BY <3>3 DEF NextIds
      <4>2. connection_id + 1 \in 0..LastId
        BY <3>1, <3>3
      <4> QED BY <3>1, <4>1, <4>2
    <3> QED BY <3>2, <3>3
  <2>3. client_id' \in Nat /\ connection_id' \in 0..LastId
        /\ headers' \in Seq([client : Nat, connection : 0..LastId])
    BY <2>1, <2>2 DEF CountsInv
  <2>4. writes' \in 0..MaxWrites
    BY <1>1, BoundsAssumption DEF CountsInv, PacksHeader, Packs
  <2> QED BY <1>1, <2>3, <2>4 DEF CountsInv, PacksHeader
<1>2. ASSUME NEW n \in WriteSizes, PacksData(n) PROVE CountsInv'
  <2>1. writes' \in 0..MaxWrites
    BY <1>2, BoundsAssumption DEF CountsInv, PacksData, Packs
  <2> QED BY <1>2, <2>1 DEF CountsInv, PacksData
<1>3. CASE PacksBad
  <2>1. writes' \in 0..MaxWrites
    BY <1>3, BoundsAssumption DEF CountsInv, PacksBad
  <2> QED BY <1>3, <2>1 DEF CountsInv, PacksBad
<1>4. CASE NewConnection
  <2>1. writes' \in 0..MaxWrites /\ connections' \in 1..MaxConnections
    BY <1>4, BoundsAssumption DEF CountsInv, NewConnection
  <2> QED BY <1>4, <2>1 DEF CountsInv, NewConnection
<1>5. CASE Receive
  BY <1>5 DEF CountsInv, Receive, sender
<1>6. CASE UNCHANGED vars
  BY <1>6 DEF CountsInv, vars, sender
<1> QED BY <1>1, <1>2, <1>3, <1>4, <1>5, <1>6 DEF Next

\* A wire that stays as it is.
LEMMA StillReads ==
  ASSUME ReaderInv, UNCHANGED <<proto, wire, reader>>
  PROVE  ReaderInv'
<1>1. UNCHANGED <<read, recv_buffer_size, recv_id, taken, out, refused, proto, wire>>
  BY DEF reader
<1>2. UNCHANGED <<End(taken), End(taken + 1)>>
  BY <1>1 DEF End
<1> QED BY <1>1, <1>2 DEF ReaderInv, Reassembles

\* Every step keeps what the reader knows true.
LEMMA ReaderStep ==
  ASSUME FramesInv, ReaderInv, [Next]_vars, FramesInv'
  PROVE  ReaderInv'
<1>1. ASSUME NEW n \in WriteSizes, PacksHeader(n) PROVE ReaderInv'
  BY <1>1, StillReads DEF PacksHeader
<1>2. ASSUME NEW n \in WriteSizes, PacksData(n) PROVE ReaderInv'
  <2>1. PICK want \in Paddings :
          wire' = IF dir = "up" /\ ~WithoutHeader THEN wire ELSE wire \o PackAll(n, pack_id, want)
    BY <1>2 DEF PacksData
  <2>2. UNCHANGED <<proto, reader>>
    BY <1>2 DEF PacksData
  <2>3. PackAll(n, pack_id, want) \in Seq(FrameType)
    BY PackAllHonest, SizesAssumption DEF FramesInv
  <2>4. SizedWire'
    BY DEF FramesInv, SizedWire
  <2> QED BY <2>1, <2>2, <2>3, <2>4, StillReads, GrowthReads
<1>3. CASE PacksBad
  <2>1. PICK f : wire' = Append(wire, f)
    BY <1>3 DEF PacksBad
  <2>2. UNCHANGED <<proto, reader>>
    BY <1>3 DEF PacksBad
  <2>3. wire \in Seq(FrameType) /\ wire' \in Seq(FrameType) /\ SizedWire'
    BY DEF FramesInv, SizedWire
  <2>4. f \in FrameType
    <3>1. Len(wire) \in Nat /\ Len(wire') = Len(wire) + 1 /\ wire'[Len(wire) + 1] = f
      BY <2>1, <2>3
    <3> QED BY <2>3, <3>1, ElementOfSeq
  <2>5. <<f>> \in Seq(FrameType) /\ wire' = wire \o <<f>>
    BY <2>1, <2>3, <2>4
  <2> QED BY <2>2, <2>3, <2>5, GrowthReads
<1>4. CASE NewConnection
  BY <1>4, StillReads DEF NewConnection
<1>5. CASE Receive
  BY <1>5, ReceiveReads
<1>6. CASE UNCHANGED vars
  BY <1>6, StillReads DEF vars
<1> QED BY <1>1, <1>2, <1>3, <1>4, <1>5, <1>6 DEF Next

\* The inductive invariant.
IndInv == FramesInv /\ ReaderInv /\ PackedFits /\ CountsInv

\* All of it holds at first.
LEMMA InitInd == Init => IndInv
<1> SUFFICES ASSUME Init PROVE IndInv
  OBVIOUS
<1>1. FramesInv
  BY InitFrames
<1>2. CountsInv
  <2>1. connection_id \in 0..LastId
    BY FirstIdsAssumption DEF Init
  <2>2. writes \in 0..MaxWrites /\ connections \in 1..MaxConnections
    BY BoundsAssumption DEF Init
  <2>3. headers \in Seq([client : Nat, connection : 0..LastId])
    <3> DEFINE R == [client : Nat, connection : 0..LastId]
    <3> HIDE DEF R
    <3>1. <<>> \in Seq(R)
      OBVIOUS
    <3> QED BY <3>1 DEF R, Init
  <2>4. has_sent_header \in BOOLEAN /\ client_id \in Nat /\ proto \in Protocols
    BY DEF Init
  <2> QED BY <2>1, <2>2, <2>3, <2>4 DEF CountsInv
<1>3. PackedFits
  BY NothingFits DEF Init, PackedFits
<1>4. wire \in Seq(FrameType) /\ Len(wire) = 0 /\ SubSeq(wire, 1, 0) = wire
  BY <1>1, FirstFrames DEF Init, FramesInv
<1>5. Total(wire) = 0 /\ Payload(SubSeq(wire, 1, 0)) = 0 /\ End(0) = 0
  BY <1>4, TotalSteps DEF End
<1>6. Reassembles
  BY <1>4, <1>5 DEF Init, Reassembles
<1>7. ReaderInv
  <2>1. /\ taken = 0 /\ read = 0 /\ recv_buffer_size = 0 /\ recv_id = 1 /\ out = 0 /\ refused = FALSE
        /\ RECV_BUFFER \in Nat /\ 0 <= RECV_BUFFER
    BY DEF Init, RECV_BUFFER
  <2>2. taken \in Nat /\ taken <= Len(wire) /\ read \in Nat /\ read <= Total(wire)
    BY <1>4, <1>5, <2>1
  <2>3. recv_buffer_size \in Nat /\ recv_buffer_size <= RECV_BUFFER /\ recv_id \in Nat /\ out \in Nat
    BY <2>1
  <2>4. recv_id = IF proto \in Counted THEN taken + 1 ELSE 1
    BY <2>1
  <2>5. refused \in BOOLEAN
    BY <2>1
  <2> QED BY <1>6, <2>2, <2>3, <2>4, <2>5 DEF ReaderInv
<1> QED BY <1>1, <1>2, <1>3, <1>7 DEF IndInv

\* Every step keeps the last call packed within its room.
LEMMA PackedStep ==
  ASSUME FramesInv, PackedFits, [Next]_vars
  PROVE  PackedFits'
<1>1. CASE NewConnection
  <2>1. packed' = Nothing
    BY <1>1 DEF NewConnection
  <2> QED BY <2>1, NothingFits DEF PackedFits
<1>2. CASE UNCHANGED packed
  BY <1>2 DEF PackedFits
<1>3. PacksBad \/ Receive \/ UNCHANGED vars => UNCHANGED packed
  BY DEF PacksBad, Receive, vars, sender
<1> QED BY <1>1, <1>2, <1>3, PacksHeaderFits, PacksDataFits DEF Next

\* The invariant as a whole (pre_encrypt, post_decrypt and what comes between).
THEOREM Inductive == Spec => []IndInv
<1>1. IndInv /\ [Next]_vars => IndInv'
  BY FramesStep, ReaderStep, PackedStep, CountsStep DEF IndInv
<1> QED BY <1>1, InitInd, PTL DEF Spec

\* The variables have their types, and the reader's buffer never holds more than it has room for
\* ("if (local->recv_buffer_size + plaindatalength > 16384) return -1" of *_post_decrypt).
THEOREM TypeCorrect == Spec => []TypeOK
<1>1. IndInv => TypeOK
  <2> SUFFICES ASSUME IndInv PROVE TypeOK
    OBVIOUS
  <2>1. \A i \in DOMAIN headers : headers[i] \in [client : Nat, connection : 0..LastId]
    <3> DEFINE R == [client : Nat, connection : 0..LastId]
    <3>1. headers \in Seq(R)
      BY DEF IndInv, CountsInv
    <3> HIDE DEF R
    <3>2. \A i \in DOMAIN headers : headers[i] \in R
      BY <3>1
    <3> QED BY <3>2 DEF R
  <2>2. recv_buffer_size \in 0..RECV_BUFFER /\ taken \in 0..Len(wire)
    <3>1. /\ recv_buffer_size \in Nat /\ recv_buffer_size <= RECV_BUFFER
          /\ taken \in Nat /\ taken <= Len(wire) /\ Len(wire) \in Nat
      BY LenProperties DEF IndInv, ReaderInv, FramesInv
    <3>2. RECV_BUFFER \in Nat
      BY DEF RECV_BUFFER
    <3> QED BY <3>1, <3>2
  <2> QED BY <2>1, <2>2 DEF IndInv, FramesInv, ReaderInv, CountsInv, TypeOK
<1> QED BY <1>1, Inductive, PTL

\* However TCP cuts the stream, post_decrypt hands on the payload of the frames it has whole, and
\* answers -1 to a bad frame and to nothing else: for any sizes, paddings and places of the cuts.
THEOREM StreamReassembled == Spec => []Reassembles
<1>1. IndInv => Reassembles
  BY DEF IndInv, ReaderInv
<1> QED BY <1>1, Inductive, PTL

\* Every pre_encrypt packs all its bytes, inside the out_buffer it allocates for them.
THEOREM BuffersHoldFrames == Spec => []PackingFits
<1>1. IndInv => PackingFits
  <2> SUFFICES ASSUME IndInv PROVE PackingFits
    OBVIOUS
  <2>1. ASSUME NEW i \in DOMAIN packed.frames
        PROVE  8 <= packed.frames[i].length /\ packed.frames[i].length <= 8191
    <3>1. Sized(packed.frames[i])
      BY DEF IndInv, FramesInv
    <3>2. packed.frames[i].length \in Nat
      BY <3>1, SizedIsFrame, FrameFields
    <3> QED BY <3>1, <3>2 DEF Sized
  <2> QED BY <2>1 DEF IndInv, PackedFits, PackingFits
<1> QED BY <1>1, Inductive, PTL
-----------------------------------------------------------------------------

\* f tells what the first elements of a sequence of sequences are when joined.
Joins(f, T, s) ==
  /\ f \in [0..Len(s) -> Seq(T)] /\ f[0] = <<>>
  /\ \A k \in 1..Len(s) : f[k] = f[k - 1] \o s[k]

\* Every sequence of sequences can be joined, piece by piece.
LEMMA PartialJoins ==
  ASSUME NEW T, NEW s \in Seq(Seq(T))
  PROVE  \E f : Joins(f, T, s)
<1> DEFINE n == Len(s)
           Upto(f, m) == f \in [0..m -> Seq(T)] /\ f[0] = <<>> /\ \A k \in 1..m : f[k] = f[k - 1] \o s[k]
           S == {m \in 0..n : \E f : Upto(f, m)}
<1>1. n \in Nat /\ \A k \in 1..n : s[k] \in Seq(T)
  BY LenProperties, ElementOfSeq
<1> HIDE DEF n
<1>2. 0 \in S
  <2> DEFINE g == [k \in 0..0 |-> <<>>]
  <2>1. Upto(g, 0)
    <3>1. <<>> \in Seq(T)
      OBVIOUS
    <3> QED BY <3>1
  <2>2. \E f : Upto(f, 0)
    BY <2>1
  <2>3. 0 \in 0..n
    BY <1>1
  <2> HIDE DEF Upto
  <2> QED BY <2>2, <2>3
<1>3. ASSUME NEW k \in 0..n, k < n, k \in S PROVE k + 1 \in S
  <2>1. PICK f : Upto(f, k)
    BY <1>3
  <2> DEFINE g == [i \in 0..(k + 1) |-> IF i = k + 1 THEN f[k] \o s[k + 1] ELSE f[i]]
  <2>2. k \in Nat /\ k + 1 \in 0..n /\ k + 1 \in 1..n /\ s[k + 1] \in Seq(T)
    BY <1>1, <1>3
  <2>3. g \in [0..(k + 1) -> Seq(T)] /\ g[0] = <<>>
    <3>1. f[k] \in Seq(T)
      BY <2>1, <2>2
    <3>2. f[k] \o s[k + 1] \in Seq(T)
      BY <2>2, <3>1, ConcatProperties
    <3> QED BY <2>1, <2>2, <3>2
  <2>4. ASSUME NEW i \in 1..(k + 1) PROVE g[i] = g[i - 1] \o s[i]
    <3>1. i \in 0..(k + 1) /\ i - 1 \in 0..(k + 1) /\ i - 1 # k + 1
      BY <2>2
    <3>2. g[i - 1] = f[i - 1]
      BY <3>1
    <3>3. CASE i = k + 1
      <4>1. i - 1 = k
        BY <2>2, <3>3
      <4>2. g[i] = f[k] \o s[i]
        BY <3>1, <3>3
      <4> QED BY <3>2, <4>1, <4>2
    <3>4. CASE i # k + 1
      <4>1. i \in 1..k
        BY <2>2, <3>4
      <4>2. f[i] = f[i - 1] \o s[i]
        BY <2>1, <4>1
      <4>3. g[i] = f[i]
        BY <3>1, <3>4
      <4> HIDE DEF g
      <4> QED BY <3>2, <4>2, <4>3
    <3> QED BY <3>3, <3>4
  <2>5. Upto(g, k + 1)
    BY <2>3, <2>4
  <2> QED BY <2>2, <2>5
<1>4. \A k \in 0..n : k \in S
  <2> HIDE DEF S
  <2> QED BY <1>1, <1>2, <1>3, UpTo
<1>5. n \in S
  <2> HIDE DEF S
  <2> QED BY <1>1, <1>4
<1> QED BY <1>5 DEF n, Joins

\* Joined is the last of them.
LEMMA JoinedIs ==
  ASSUME NEW T, NEW s \in Seq(Seq(T)), NEW f, Joins(f, T, s)
  PROVE  Joined(s) = f[Len(s)]
<1> DEFINE Fix(t) == t = [k \in 0..Len(s) |-> IF k = 0 THEN <<>> ELSE t[k - 1] \o s[k]]
           to == CHOOSE t : Fix(t)
<1>0. Len(s) \in Nat
  BY LenProperties
<1>1. Fix(f)
  <2>1. ASSUME NEW k \in 0..Len(s) PROVE f[k] = IF k = 0 THEN <<>> ELSE f[k - 1] \o s[k]
    <3>1. CASE k = 0
      BY <3>1 DEF Joins
    <3>2. CASE k # 0
      <4>1. k \in 1..Len(s)
        BY <1>0, <3>2
      <4>2. f[k] = f[k - 1] \o s[k]
        BY <4>1 DEF Joins
      <4> QED BY <3>2, <4>2
    <3> QED BY <3>1, <3>2
  <2>2. f = [k \in 0..Len(s) |-> f[k]]
    BY DEF Joins
  <2> QED BY <2>1, <2>2
<1>2. Fix(to)
  BY <1>1
<1>3. Joined(s) = to[Len(s)]
  BY DEF Joined
<1> HIDE DEF to
<1>4. \A k \in 0..Len(s) : to[k] = IF k = 0 THEN <<>> ELSE to[k - 1] \o s[k]
  BY <1>2
<1>5. \A k \in 0..Len(s) : to[k] = f[k]
  <2> DEFINE S == {k \in 0..Len(s) : to[k] = f[k]}
  <2>1. 0 \in S
    BY <1>0, <1>4 DEF Joins
  <2>2. ASSUME NEW k \in 0..Len(s), k < Len(s), k \in S PROVE k + 1 \in S
    <3>1. k + 1 \in 1..Len(s) /\ k + 1 \in 0..Len(s) /\ (k + 1) - 1 = k /\ k + 1 # 0
      BY <1>0, <2>2
    <3>2. f[k + 1] = f[k] \o s[k + 1] /\ to[k + 1] = to[k] \o s[k + 1]
      BY <1>4, <3>1 DEF Joins
    <3> QED BY <2>2, <3>1, <3>2
  <2>3. \A k \in 0..Len(s) : k \in S
    <3> HIDE DEF S
    <3> QED BY <1>0, <2>1, <2>2, UpTo
  <2> QED BY <2>3
<1> QED BY <1>0, <1>3, <1>5

\* Joined goes on by one element at a time.
LEMMA JoinedPrefixes ==
  ASSUME NEW T, NEW s \in Seq(Seq(T))
  PROVE  /\ Joined([i \in 1..0 |-> s[i]]) = <<>>
         /\ \A k \in 0..Len(s) : Joined([i \in 1..k |-> s[i]]) \in Seq(T)
         /\ \A k \in 1..Len(s) : Joined([i \in 1..k |-> s[i]]) = Joined([i \in 1..(k - 1) |-> s[i]]) \o s[k]
<1>1. PICK f : Joins(f, T, s)
  BY PartialJoins
<1>2. Len(s) \in Nat /\ \A k \in 1..Len(s) : s[k] \in Seq(T)
  BY LenProperties, ElementOfSeq
<1>3. ASSUME NEW k \in 0..Len(s) PROVE Joined([i \in 1..k |-> s[i]]) = f[k] /\ f[k] \in Seq(T)
  <2> DEFINE g == [i \in 0..k |-> f[i]]
             p == [i \in 1..k |-> s[i]]
  <2>1. p \in Seq(Seq(T)) /\ Len(p) = k /\ \A i \in 1..k : p[i] = s[i]
    <3>1. k \in Nat /\ \A i \in 1..k : s[i] \in Seq(T)
      BY <1>2
    <3> QED BY <3>1
  <2>2. Joins(g, T, p)
    <3>1. g \in [0..k -> Seq(T)] /\ g[0] = <<>>
      BY <1>1, <1>2 DEF Joins
    <3>2. ASSUME NEW i \in 1..k PROVE g[i] = g[i - 1] \o p[i]
      <4>1. i \in 1..Len(s) /\ i \in 0..k /\ i - 1 \in 0..k
        BY <1>2
      <4> QED BY <1>1, <2>1, <4>1 DEF Joins
    <3> HIDE DEF g, p
    <3> QED BY <2>1, <3>1, <3>2 DEF Joins
  <2>3. Joined(p) = g[k]
    <3> HIDE DEF g, p
    <3> QED BY <2>1, <2>2, JoinedIs
  <2> QED BY <1>1, <1>2, <2>3 DEF Joins
<1>4. 0 \in 0..Len(s) /\ \A k \in 1..Len(s) : k \in 0..Len(s) /\ k - 1 \in 0..Len(s)
  BY <1>2
<1>5. f[0] = <<>> /\ \A k \in 1..Len(s) : f[k] = f[k - 1] \o s[k]
  BY <1>1 DEF Joins
<1> DEFINE J(k) == Joined([i \in 1..k |-> s[i]])
<1>6. \A k \in 0..Len(s) : J(k) = f[k] /\ f[k] \in Seq(T)
  BY <1>3
<1>7. J(0) = <<>> /\ (\A k \in 0..Len(s) : J(k) \in Seq(T)) /\ \A k \in 1..Len(s) : J(k) = J(k - 1) \o s[k]
  <2> HIDE DEF J
  <2> QED BY <1>4, <1>5, <1>6
<1> QED BY <1>7

\* The first elements of a sequence of numbers, summed.
LEMMA SumFirsts ==
  ASSUME NEW s \in Seq(Int)
  PROVE  /\ Sum([i \in 1..0 |-> s[i]]) = 0
         /\ \A k \in 0..Len(s) : Sum([i \in 1..k |-> s[i]]) \in Int
         /\ \A k \in 1..Len(s) : Sum([i \in 1..k |-> s[i]]) = Sum([i \in 1..(k - 1) |-> s[i]]) + s[k]
<1>1. Len(s) \in Nat
  BY LenProperties
<1>2. \A k \in 0..Len(s) : SubSeq(s, 1, k) = [i \in 1..k |-> s[i]]
  BY <1>1
<1>3. 0 \in 0..Len(s) /\ \A k \in 1..Len(s) : k \in 0..Len(s) /\ k - 1 \in 0..Len(s)
  BY <1>1
<1> DEFINE J(k) == Sum([i \in 1..k |-> s[i]])
<1>4. \A k \in 0..Len(s) : J(k) = Sum(SubSeq(s, 1, k))
  BY <1>2
<1>5. J(0) = 0 /\ (\A k \in 0..Len(s) : J(k) \in Int) /\ \A k \in 1..Len(s) : J(k) = J(k - 1) + s[k]
  <2> HIDE DEF J
  <2> QED BY <1>3, <1>4, SumPrefixes
<1> QED BY <1>5

\* What the client has sent of a chunk.
SentChunk == [size : ChunkSizes, good : BOOLEAN]

\* The chunks of the client follow one another.
LEMMA Starts ==
  ASSUME chunks \in Seq(SentChunk)
  PROVE  /\ Len(chunks) \in Nat /\ DOMAIN chunks = 1..Len(chunks)
         /\ \A c \in 1..Len(chunks) :
              /\ chunks[c] \in SentChunk /\ chunks[c].size \in ChunkSizes /\ chunks[c].size \in Nat
              /\ SizeOf(c) = AUTH_BYTES + chunks[c].size /\ SizeOf(c) \in Nat /\ SizeOf(c) > 2
         /\ Start(1) = 0
         /\ \A c \in 1..(Len(chunks) + 1) : Start(c) \in Int
         /\ \A c \in 1..Len(chunks) : Start(c + 1) = Start(c) + SizeOf(c)
<1>1. Len(chunks) \in Nat /\ DOMAIN chunks = 1..Len(chunks) /\ \A c \in 1..Len(chunks) : chunks[c] \in SentChunk
  BY LenProperties, ElementOfSeq
<1>2. \A c \in 1..Len(chunks) :
        /\ chunks[c] \in SentChunk /\ chunks[c].size \in ChunkSizes /\ chunks[c].size \in Nat
        /\ SizeOf(c) = AUTH_BYTES + chunks[c].size /\ SizeOf(c) \in Nat /\ SizeOf(c) > 2
  <2>1. ChunkSizes \subseteq Nat /\ AUTH_BYTES \in Nat /\ AUTH_BYTES > 2
    BY OtaAssumption DEF CLEN_BYTES
  <2>2. ASSUME NEW c \in 1..Len(chunks) PROVE chunks[c].size \in ChunkSizes /\ chunks[c].size \in Nat
    BY <1>1, <2>1 DEF SentChunk
  <2> QED BY <1>1, <2>1, <2>2 DEF SizeOf
<1> DEFINE s == [i \in 1..Len(chunks) |-> SizeOf(i)]
           J(k) == Sum([i \in 1..k |-> s[i]])
<1>3. s \in Seq(Int) /\ Len(s) = Len(chunks) /\ \A i \in 1..Len(chunks) : s[i] = SizeOf(i)
  BY <1>1, <1>2
<1>4. /\ J(0) = 0 /\ \A k \in 0..Len(chunks) : J(k) \in Int
      /\ \A k \in 1..Len(chunks) : J(k) = J(k - 1) + s[k]
  <2> HIDE DEF s
  <2> QED BY <1>3, SumFirsts
<1>5. ASSUME NEW c \in 1..(Len(chunks) + 1) PROVE Start(c) = J(c - 1)
  <2>1. [i \in 1..(c - 1) |-> SizeOf(i)] = [i \in 1..(c - 1) |-> s[i]]
    <3>1. \A i \in 1..(c - 1) : i \in 1..Len(chunks)
      BY <1>1
    <3> HIDE DEF s
    <3> QED BY <1>3, <3>1
  <2> QED BY <2>1 DEF Start
<1>6. /\ 1 \in 1..(Len(chunks) + 1) /\ 1 - 1 = 0
      /\ \A c \in 1..(Len(chunks) + 1) : c - 1 \in 0..Len(chunks)
      /\ \A c \in 1..Len(chunks) : c \in 1..(Len(chunks) + 1) /\ c + 1 \in 1..(Len(chunks) + 1) /\ (c + 1) - 1 = c
  BY <1>1
<1> HIDE DEF s, J
<1>7. Start(1) = 0 /\ \A c \in 1..(Len(chunks) + 1) : Start(c) \in Int
  BY <1>4, <1>5, <1>6
<1>8. ASSUME NEW c \in 1..Len(chunks) PROVE Start(c + 1) = Start(c) + SizeOf(c)
  <2>1. Start(c) = J(c - 1) /\ Start(c + 1) = J((c + 1) - 1) /\ (c + 1) - 1 = c
    BY <1>5, <1>6, Zenon
  <2>2. J(c) = J(c - 1) + s[c] /\ s[c] = SizeOf(c)
    BY <1>3, <1>4, Zenon
  <2> QED BY <2>1, <2>2, Zenon
<1> QED BY <1>1, <1>2, <1>7, <1>8

\* No chunk begins before one that comes earlier.
LEMMA StartsGrow ==
  ASSUME chunks \in Seq(SentChunk), NEW i \in 1..(Len(chunks) + 1)
  PROVE  \A k \in i..(Len(chunks) + 1) : Start(k) >= Start(i)
<1> DEFINE m == Len(chunks) + 1 - i
           S == {k \in 0..m : Start(i + k) >= Start(i)}
<1>1. Len(chunks) \in Nat /\ m \in Nat /\ i \in Nat /\ i + 0 = i
  BY Starts
<1>2. 0 \in S
  BY <1>1, Starts
<1>3. ASSUME NEW k \in 0..m, k < m, k \in S PROVE k + 1 \in S
  <2>1. i + k \in 1..Len(chunks) /\ i + k \in 1..(Len(chunks) + 1) /\ k + 1 \in 0..m /\ i + (k + 1) = (i + k) + 1
    BY <1>1, <1>3
  <2>2. Start((i + k) + 1) = Start(i + k) + SizeOf(i + k) /\ SizeOf(i + k) \in Nat
        /\ Start(i + k) \in Int /\ Start(i) \in Int
    BY <2>1, Starts
  <2>3. Start((i + k) + 1) >= Start(i)
    BY <1>3, <2>2
  <2> QED BY <2>1, <2>3
<1>4. \A k \in 0..m : k \in S
  <2> HIDE DEF S, m
  <2> QED BY <1>1, <1>2, <1>3, UpTo
<1>5. ASSUME NEW k \in i..(Len(chunks) + 1) PROVE Start(k) >= Start(i)
  <2>1. k - i \in 0..m /\ i + (k - i) = k
    BY <1>1
  <2> QED BY <1>4, <2>1
<1> QED BY <1>5

\* A byte of the stream is told by its chunk and its place in it.
LEMMA ByteIs ==
  ASSUME chunks \in Seq(SentChunk), NEW c \in 1..Len(chunks), NEW x \in Nat, x < SizeOf(c)
  PROVE  ByteAt(Start(c) + x) = <<c, x>>
<1> DEFINE S == {i \in DOMAIN chunks : Start(i) <= Start(c) + x}
<1>1. Len(chunks) \in Nat /\ DOMAIN chunks = 1..Len(chunks) /\ Start(c) \in Int /\ SizeOf(c) \in Nat
      /\ c + 1 \in 1..(Len(chunks) + 1) /\ Start(c + 1) = Start(c) + SizeOf(c)
  BY Starts
<1>2. c \in S
  BY <1>1
<1>3. ASSUME NEW i \in S PROVE c >= i
  <2> SUFFICES ASSUME i > c PROVE FALSE
    BY <1>1
  <2>1. i \in (c + 1)..(Len(chunks) + 1) /\ i \in 1..(Len(chunks) + 1)
    BY <1>1
  <2>2. Start(i) >= Start(c + 1) /\ Start(i) \in Int
    BY <1>1, <2>1, Starts, StartsGrow
  <2> QED BY <1>1, <2>2
<1>4. S \subseteq Int
  BY <1>1
<1> HIDE DEF S
<1>5. Max(S) = c
  <2>1. \E x1 \in S : \A y \in S : x1 >= y
    BY <1>2, <1>3
  <2>2. Max(S) \in S /\ \A y \in S : Max(S) >= y
    BY <2>1 DEF Max
  <2>3. c \in Int /\ Max(S) \in Int
    BY <1>2, <1>4, <2>2
  <2>4. Max(S) >= c /\ c >= Max(S)
    BY <1>2, <1>3, <2>2
  <2> HIDE DEF Max
  <2> QED BY <2>3, <2>4
<1>6. Start(c) + x - Start(c) = x
  BY <1>1
<1> DEFINE P == Start(c) + x
           m == Max({i \in DOMAIN chunks : Start(i) <= P})
<1>7. ByteAt(P) = <<m, P - Start(m)>>
  <2> HIDE DEF P
  <2> QED BY ZenonT(20) DEF ByteAt
<1>8. m = Max(S)
  BY Zenon DEF S
<1> HIDE DEF m
<1>9. m = c
  BY <1>5, <1>8
<1>10. P - Start(m) = x
  <2>1. Start(m) = Start(c)
    BY <1>9, Zenon
  <2>2. Start(c) \in Int /\ x \in Int
    BY <1>1
  <2> QED BY <2>1, <2>2
<1>11. ByteAt(P) = <<c, x>>
  <2> HIDE DEF P
  <2> QED BY <1>7, <1>9, <1>10
<1> QED BY <1>11

\* What the chunks carry is put together one by one.
LEMMA PayloadSteps ==
  ASSUME chunks \in Seq(SentChunk), Len(chunks) <= MaxChunks
  PROVE  /\ Payloads(0) = <<>>
         /\ \A c \in 0..Len(chunks) : Payloads(c) \in Seq(StreamByte)
         /\ \A c \in 1..Len(chunks) :
              /\ Carried(c) \in Seq(StreamByte) /\ Len(Carried(c)) = chunks[c].size
              /\ \A i \in 1..chunks[c].size : Carried(c)[i] = <<c, AUTH_BYTES + i - 1>>
              /\ Payloads(c) = Payloads(c - 1) \o Carried(c)
<1>1. Len(chunks) \in Nat /\ MaxChunks \in Nat /\ AUTH_BYTES \in Nat /\ AUTH_BYTES > 2
      /\ \A c \in 1..Len(chunks) : chunks[c].size \in Nat
  BY Starts, OtaAssumption DEF CLEN_BYTES
<1>2. ASSUME NEW c \in 1..Len(chunks)
      PROVE  /\ Carried(c) \in Seq(StreamByte) /\ Len(Carried(c)) = chunks[c].size
             /\ \A i \in 1..chunks[c].size : Carried(c)[i] = <<c, AUTH_BYTES + i - 1>>
  <2>1. chunks[c].size \in Nat /\ c \in 0..MaxChunks
    BY <1>1
  <2>2. \A i \in 1..chunks[c].size : <<c, AUTH_BYTES + i - 1>> \in StreamByte
    BY <1>1, <2>1 DEF StreamByte
  <2> QED BY <2>1, <2>2, SMTT(30) DEF Carried
<1> DEFINE s == [i \in 1..Len(chunks) |-> Carried(i)]
           J(k) == Joined([i \in 1..k |-> s[i]])
<1>3. s \in Seq(Seq(StreamByte)) /\ Len(s) = Len(chunks) /\ \A i \in 1..Len(chunks) : s[i] = Carried(i)
  BY <1>1, <1>2
<1>4. /\ J(0) = <<>> /\ \A k \in 0..Len(chunks) : J(k) \in Seq(StreamByte)
      /\ \A k \in 1..Len(chunks) : J(k) = J(k - 1) \o s[k]
  <2> HIDE DEF s
  <2> QED BY <1>3, JoinedPrefixes
<1>5. ASSUME NEW c \in 0..Len(chunks) PROVE Payloads(c) = J(c)
  <2>1. [i \in 1..c |-> Carried(i)] = [i \in 1..c |-> s[i]]
    <3>1. \A i \in 1..c : i \in 1..Len(chunks)
      BY <1>1
    <3> HIDE DEF s
    <3> QED BY <1>3, <3>1
  <2> QED BY <2>1 DEF Payloads
<1>6. 0 \in 0..Len(chunks) /\ \A c \in 1..Len(chunks) : c \in 0..Len(chunks) /\ c - 1 \in 0..Len(chunks)
  BY <1>1
<1> HIDE DEF s, J
<1> QED BY <1>2, <1>3, <1>4, <1>5, <1>6

\* The chunks sent so far stay where and what they are when the client sends more.
LEMMA ChunksStay ==
  ASSUME chunks \in Seq(SentChunk), NEW t \in SentChunk, chunks' = Append(chunks, t)
  PROVE  /\ chunks' \in Seq(SentChunk) /\ Len(chunks') = Len(chunks) + 1
         /\ \A c \in 1..Len(chunks) : chunks'[c] = chunks[c] /\ SizeOf(c)' = SizeOf(c)
         /\ \A c \in 1..(Len(chunks) + 1) : Start(c)' = Start(c)
         /\ \A c \in 0..Len(chunks) : Payloads(c)' = Payloads(c)
<1>1. Len(chunks) \in Nat
  BY LenProperties
<1>2. /\ chunks' \in Seq(SentChunk) /\ Len(chunks') = Len(chunks) + 1
      /\ \A c \in 1..Len(chunks) : chunks'[c] = chunks[c]
  BY <1>1
<1>3. \A c \in 1..Len(chunks) : SizeOf(c)' = SizeOf(c) /\ Carried(c)' = Carried(c)
  BY <1>2 DEF SizeOf, Carried
<1>4. ASSUME NEW c \in 1..(Len(chunks) + 1) PROVE Start(c)' = Start(c)
  <2>1. \A i \in 1..(c - 1) : i \in 1..Len(chunks)
    BY <1>1
  <2>2. [i \in 1..(c - 1) |-> SizeOf(i)'] = [i \in 1..(c - 1) |-> SizeOf(i)]
    BY <1>3, <2>1
  <2> QED BY <2>2 DEF Start
<1>5. ASSUME NEW c \in 0..Len(chunks) PROVE Payloads(c)' = Payloads(c)
  <2>1. \A i \in 1..c : i \in 1..Len(chunks)
    BY <1>1
  <2>2. [i \in 1..c |-> Carried(i)'] = [i \in 1..c |-> Carried(i)]
    BY <1>3, <2>1
  <2> QED BY <2>2 DEF Payloads
<1> QED BY <1>2, <1>3, <1>4, <1>5

\* Every byte of the stream is one of some chunk.
LEMMA EveryByte ==
  ASSUME chunks \in Seq(SentChunk), Len(chunks) <= MaxChunks
  PROVE  \A p \in Nat : p < Sent => ByteAt(p) \in StreamByte
<1> DEFINE n == Len(chunks)
           S == {c \in 0..n : \A p \in Nat : p < Start(c + 1) => ByteAt(p) \in StreamByte}
<1>1. n \in Nat /\ Start(1) = 0 /\ 0 + 1 = 1 /\ MaxChunks \in Nat /\ n <= MaxChunks
  BY Starts, OtaAssumption
<1>2. 0 \in S
  BY <1>1
<1>3. ASSUME NEW c \in 0..n, c < n, c \in S PROVE c + 1 \in S
  <2>1. c + 1 \in 1..n /\ c + 1 \in 1..(n + 1) /\ c + 1 \in 0..n /\ c + 1 \in 0..MaxChunks
    BY <1>1, <1>3
  <2>2. Start(c + 1) \in Int /\ Start((c + 1) + 1) = Start(c + 1) + SizeOf(c + 1) /\ SizeOf(c + 1) \in Nat
    BY <2>1, Starts
  <2>3. ASSUME NEW p \in Nat, p < Start((c + 1) + 1) PROVE ByteAt(p) \in StreamByte
    <3>1. CASE p < Start(c + 1)
      BY <1>3, <3>1
    <3>2. CASE ~(p < Start(c + 1))
      <4> DEFINE x == p - Start(c + 1)
      <4>1. x \in Nat /\ x < SizeOf(c + 1) /\ Start(c + 1) + x = p
        BY <2>2, <2>3, <3>2
      <4>2. ByteAt(Start(c + 1) + x) = <<c + 1, x>>
        <5> HIDE DEF x, n
        <5> QED BY <2>1, <4>1, ByteIs DEF n
      <4>3. ByteAt(p) = <<c + 1, x>>
        <5> HIDE DEF x
        <5> QED BY <4>1, <4>2
      <4> QED BY <2>1, <4>1, <4>3 DEF StreamByte
    <3> QED BY <3>1, <3>2
  <2> QED BY <2>1, <2>3
<1>4. \A c \in 0..n : c \in S
  <2> HIDE DEF S, n
  <2> QED BY <1>1, <1>2, <1>3, UpTo
<1>5. n \in S
  BY <1>1, <1>4
<1> QED BY <1>5 DEF Sent

\* A buffer grows as far as it is asked to, and no less than it has.
LEMMA BreallocIs ==
  ASSUME NEW a \in Nat, NEW b \in Nat
  PROVE  /\ brealloc(a, b) \in Nat /\ brealloc(a, b) >= a /\ brealloc(a, b) >= b
         /\ brealloc(a, b) >= BufferSize
<1>1. BufferSize \in Nat
  BY OtaAssumption
<1>2. \E x \in {a, b, BufferSize} : \A y \in {a, b, BufferSize} : x >= y
  BY <1>1
<1> DEFINE m == Max({a, b, BufferSize})
<1>3. m \in {a, b, BufferSize} /\ \A y \in {a, b, BufferSize} : m >= y
  BY <1>2 DEF Max
<1>4. m = brealloc(a, b)
  BY DEF brealloc
<1> HIDE DEF m
<1>5. m \in Nat
  BY <1>1, <1>3
<1> QED BY <1>3, <1>4, <1>5

\* f is what ss_check_hash holds after each turn of its loop.
Follows(f, n, m) == f = [i \in 0..m |-> IF i = 0 THEN Begin(n) ELSE Turn(f[i - 1], n - i)]

\* The loop of ss_check_hash goes n turns.
LEMMA LoopTurns ==
  ASSUME NEW n \in Nat
  PROVE  \E f : /\ ss_check_hash(n) = f[n] /\ f[0] = Begin(n)
                /\ \A i \in 1..n : f[i] = Turn(f[i - 1], n - i)
<1> DEFINE S == {m \in 0..n : \E f : Follows(f, n, m)}
<1>1. 0 \in S
  <2> DEFINE g == [i \in 0..0 |-> Begin(n)]
  <2>1. Follows(g, n, 0)
    <3>1. \A i \in 0..0 : i = 0
      OBVIOUS
    <3> QED BY <3>1 DEF Follows
  <2>2. 0 \in 0..n /\ \E f : Follows(f, n, 0)
    BY <2>1
  <2> QED BY <2>2
<1>2. ASSUME NEW m \in 0..n, m < n, m \in S PROVE m + 1 \in S
  <2>1. PICK f : Follows(f, n, m)
    BY <1>2
  <2> DEFINE g == [i \in 0..(m + 1) |-> IF i = m + 1 THEN Turn(f[m], n - i) ELSE f[i]]
             h == [i \in 0..(m + 1) |-> IF i = 0 THEN Begin(n) ELSE Turn(g[i - 1], n - i)]
  <2>2. ASSUME NEW i \in 0..(m + 1) PROVE g[i] = h[i]
    <3>1. CASE i = m + 1
      <4>1. i # 0 /\ i - 1 = m /\ m \in 0..(m + 1) /\ m # m + 1
        BY <3>1
      <4>2. g[i] = Turn(f[m], n - i) /\ g[m] = f[m]
        BY <3>1, <4>1
      <4>3. h[i] = Turn(g[i - 1], n - i)
        BY <4>1
      <4> HIDE DEF g, h
      <4> QED BY <4>1, <4>2, <4>3
    <3>2. CASE i # m + 1
      <4>1. i \in 0..m
        BY <3>2
      <4>2. g[i] = f[i]
        BY <3>2
      <4>3. f[i] = IF i = 0 THEN Begin(n) ELSE Turn(f[i - 1], n - i)
        BY <2>1, <4>1 DEF Follows
      <4>4. CASE i = 0
        BY <4>2, <4>3, <4>4
      <4>5. CASE i # 0
        <5>1. i - 1 \in 0..(m + 1) /\ i - 1 # m + 1
          BY <4>1, <4>5
        <5>2. g[i - 1] = f[i - 1]
          BY <5>1
        <5>3. h[i] = Turn(g[i - 1], n - i)
          BY <4>5
        <5> HIDE DEF g, h
        <5> QED BY <4>2, <4>3, <4>5, <5>2, <5>3
      <4> QED BY <4>4, <4>5
    <3> QED BY <3>1, <3>2
  <2>3. g = h
    BY <2>2
  <2>4. Follows(g, n, m + 1)
    <3> HIDE DEF g
    <3> QED BY <2>3 DEF Follows
  <2>5. m + 1 \in 0..n
    BY <1>2
  <2> HIDE DEF g
  <2> QED BY <2>4, <2>5
<1>3. \A m \in 0..n : m \in S
  <2> HIDE DEF S
  <2> QED BY <1>1, <1>2, UpTo
<1>4. \E f : Follows(f, n, n)
  BY <1>3
<1> DEFINE after == CHOOSE f : Follows(f, n, n)
<1>5. Follows(after, n, n)
  BY <1>4
<1>6. ss_check_hash(n) = after[n]
  BY DEF ss_check_hash, Follows
<1> HIDE DEF after
<1>7. \A i \in 0..n : after[i] = IF i = 0 THEN Begin(n) ELSE Turn(after[i - 1], n - i)
  BY <1>5 DEF Follows
<1>8. after[0] = Begin(n)
  BY <1>7
<1>9. \A i \in 1..n : after[i] = Turn(after[i - 1], n - i)
  BY <1>7
<1> QED BY <1>6, <1>8, <1>9

\* A byte taken, spelled out.
LEMMA ByteTaken ==
  ASSUME NEW s, NEW t, t = TakeByte(s)
  PROVE  /\ t.buf = s.buf /\ t.j = s.j /\ t.k = s.k + 1 /\ t.room = s.room
         /\ t.chunk.idx = s.chunk.idx + 1 /\ t.chunk.counter = s.chunk.counter
         /\ t.chunk.buf = [s.chunk.buf EXCEPT ![s.chunk.idx] = s.buf[s.k]]
         /\ s.chunk.idx + 1 = 2 =>
              /\ t.chunk.len = LengthIn(t.chunk.buf)
              /\ t.chunk.capacity = brealloc(s.chunk.capacity, t.chunk.len + AUTH_BYTES)
         /\ s.chunk.idx + 1 # 2 => t.chunk.len = s.chunk.len /\ t.chunk.capacity = s.chunk.capacity
<1> DEFINE buf == [s.chunk.buf EXCEPT ![s.chunk.idx] = s.buf[s.k]]
           len == IF s.chunk.idx + 1 = 2 THEN LengthIn(buf) ELSE s.chunk.len
           cap == IF s.chunk.idx + 1 = 2 THEN brealloc(s.chunk.capacity, len + AUTH_BYTES)
                  ELSE s.chunk.capacity
           over == s.overrun \/ s.chunk.idx >= s.chunk.capacity
           c == [idx |-> s.chunk.idx + 1, counter |-> s.chunk.counter, len |-> len, buf |-> buf,
                 capacity |-> cap]
           r == [buf |-> s.buf, j |-> s.j, k |-> s.k + 1, room |-> s.room, refused |-> FALSE,
                 overrun |-> over, chunk |-> c]
<1>1. t = r
  BY Zenon DEF TakeByte, CLEN_BYTES
<1>2. c.idx = s.chunk.idx + 1 /\ c.counter = s.chunk.counter /\ c.len = len /\ c.buf = buf /\ c.capacity = cap
  OBVIOUS
<1> HIDE DEF r, c, over
<1>3. t.buf = s.buf /\ t.j = s.j /\ t.k = s.k + 1 /\ t.room = s.room /\ t.chunk = c
  BY <1>1 DEF r
<1>4. s.chunk.idx + 1 = 2 => c.len = LengthIn(c.buf) /\ c.capacity = brealloc(s.chunk.capacity, c.len + AUTH_BYTES)
  BY <1>2
<1>5. s.chunk.idx + 1 # 2 => c.len = s.chunk.len /\ c.capacity = s.chunk.capacity
  BY <1>2
<1> HIDE DEF len, cap
<1> QED BY <1>2, <1>3, <1>4, <1>5, Zenon

\* A byte taken where there is room for it.
LEMMA ByteInside ==
  ASSUME NEW s, NEW t, t = TakeByte(s), s.overrun = FALSE, ~(s.chunk.idx >= s.chunk.capacity)
  PROVE  t.refused = FALSE /\ t.overrun = FALSE
<1> DEFINE over == s.overrun \/ s.chunk.idx >= s.chunk.capacity
<1>1. over = FALSE
  BY Zenon
<1>2. TakeByte(s).refused = FALSE
  BY Zenon DEF TakeByte
<1>3. TakeByte(s).overrun = over
  BY Zenon DEF TakeByte
<1> QED BY <1>1, <1>2, <1>3, Zenon

\* A chunk copied back, spelled out.
LEMMA CopiedBack ==
  ASSUME NEW s, NEW left, NEW t, t = CopyBack(s, left)
  PROVE  /\ t.j = s.j + s.chunk.len /\ t.k = s.j + s.chunk.len /\ t.room = s.room
         /\ t.chunk.idx = 0 /\ t.chunk.counter = s.chunk.counter + 1 /\ t.chunk.len = s.chunk.len
         /\ t.chunk.buf = s.chunk.buf /\ t.chunk.capacity = s.chunk.capacity
         /\ t.buf = Moved(s, left)
<1> DEFINE moved == Moved(s, left)
           over == s.overrun \/ s.j + s.chunk.len + left > s.room
           c == [idx |-> 0, counter |-> s.chunk.counter + 1, len |-> s.chunk.len,
                 buf |-> s.chunk.buf, capacity |-> s.chunk.capacity]
           r == [buf |-> moved, j |-> s.j + s.chunk.len, k |-> s.j + s.chunk.len, room |-> s.room,
                 refused |-> FALSE, overrun |-> over, chunk |-> c]
<1>1. t = r
  BY Zenon DEF CopyBack, Rebase
<1>2. c.idx = 0 /\ c.counter = s.chunk.counter + 1 /\ c.len = s.chunk.len
      /\ c.buf = s.chunk.buf /\ c.capacity = s.chunk.capacity
  OBVIOUS
<1> HIDE DEF r, c, over, moved
<1>3. /\ t.buf = moved /\ t.j = s.j + s.chunk.len /\ t.k = s.j + s.chunk.len /\ t.room = s.room
      /\ t.chunk = c
  BY <1>1 DEF r
<1> QED BY <1>2, <1>3, Zenon DEF moved

\* A chunk copied back where there is room for it.
LEMMA CopiedInside ==
  ASSUME NEW s, NEW left, NEW t, t = CopyBack(s, left), s.overrun = FALSE,
         ~(s.j + s.chunk.len + left > s.room)
  PROVE  t.refused = FALSE /\ t.overrun = FALSE
<1> DEFINE over == s.overrun \/ s.j + s.chunk.len + left > s.room
<1>1. over = FALSE
  BY Zenon
<1>2. CopyBack(s, left).refused = FALSE
  BY Zenon DEF CopyBack
<1>3. CopyBack(s, left).overrun = over
  BY Zenon DEF CopyBack
<1> QED BY <1>1, <1>2, <1>3, Zenon

\* A byte taken whose chunk is then refused.
LEMMA RefusedByte ==
  ASSUME NEW s, NEW t, t = TakeByte(s), NEW v, v = [t EXCEPT !.refused = TRUE]
  PROVE      /\ v.refused = TRUE /\ v.overrun = t.overrun /\ v.room = t.room /\ v.chunk = t.chunk
<1>1. "refused" \in DOMAIN t /\ "overrun" \in DOMAIN t /\ "room" \in DOMAIN t /\ "chunk" \in DOMAIN t
  BY Zenon DEF TakeByte
<1>2. v.refused = TRUE
  BY <1>1, Zenon
<1>3. v.overrun = t.overrun /\ v.room = t.room /\ v.chunk = t.chunk
  BY <1>1
<1> QED BY <1>2, <1>3, Zenon

\* The contents of a buffer.
Buffer == [0..Top -> StreamByte]

\* A chunk_t c gathers what there is of the chunk after the ones it counts.
Gathers(c) ==
  /\ c.idx \in 0..Top /\ c.len \in ChunkSizes \cup {0} /\ c.capacity \in Nat /\ c.buf \in Buffer
  /\ c.counter \in Nat /\ c.counter <= Len(chunks)
  /\ \A b \in 1..c.counter : chunks[b].good

\* It has the bytes so far, it knows the length once it has been read, and has room for it.
Knows(c) ==
  /\ c.counter < Len(chunks) => c.idx < SizeOf(c.counter + 1)
  /\ \A p \in 0..(c.idx - 1) : c.buf[p] = <<c.counter + 1, p>>
  /\ c.idx >= 2 => c.len = chunks[c.counter + 1].size /\ c.capacity >= c.len + AUTH_BYTES

\* The inductive invariant of OtaSpec.
OtaInv ==
  /\ chunks \in Seq(SentChunk) /\ Len(chunks) <= MaxChunks
  /\ arrived \in Nat /\ arrived <= Sent /\ room \in Nat /\ closed \in BOOLEAN
  /\ written \in Seq(StreamByte) /\ overrun = FALSE
  /\ Gathers(chunk)
  /\ closed = FALSE =>
       /\ Knows(chunk) /\ arrived = Start(chunk.counter + 1) + chunk.idx
       /\ written = Payloads(chunk.counter)
  /\ closed = TRUE =>
       /\ chunk.counter < Len(chunks) /\ ~chunks[chunk.counter + 1].good
       /\ arrived >= Start(chunk.counter + 2)
       /\ \E c \in 0..chunk.counter : written = Payloads(c)

\* The bytes that ss_check_hash has put back.
Front(s) == [q \in 1..s.j |-> s.buf[q - 1]]

\* ss_check_hash after i turns over the n bytes of a read: the chunk is gathered so far, the bytes
\* still to come are where the next turns look for them, in the room there is, and what has been
\* put back goes on what was written.
Going(n, i, s) ==
  /\ s.refused = FALSE /\ s.overrun = FALSE
  /\ Gathers(s.chunk) /\ Knows(s.chunk) /\ s.chunk.capacity >= 2
  /\ arrived + i = Start(s.chunk.counter + 1) + s.chunk.idx
  /\ s.buf \in Buffer /\ s.j \in Nat /\ s.k \in Nat /\ s.room \in Nat /\ s.room >= chunk.len + n
  /\ \A p \in 0..(n - i - 1) : s.buf[s.k + p] = ByteAt(arrived + i + p)
  /\ s.k + (n - i) <= chunk.len + n
  /\ s.chunk.counter >= chunk.counter
  /\ s.chunk.counter = chunk.counter => s.j = 0 /\ s.chunk.idx = chunk.idx + i
  /\ s.chunk.counter # chunk.counter => s.j + s.chunk.idx + (n - i) <= chunk.len + n
  /\ written \o Front(s) = Payloads(s.chunk.counter)

\* A hash did not fit.
Stopped(n, i, s) ==
  /\ s.refused = TRUE /\ s.overrun = FALSE /\ s.room \in Nat
  /\ Gathers(s.chunk) /\ s.chunk.counter >= chunk.counter
  /\ s.chunk.counter < Len(chunks) /\ ~chunks[s.chunk.counter + 1].good
  /\ arrived + i >= Start(s.chunk.counter + 2)

\* What a turn has after it took a byte.
Took(s, t) ==
  /\ s.chunk.counter < Len(chunks)
  /\ t.buf = s.buf /\ t.j = s.j /\ t.k = s.k + 1 /\ t.room = s.room /\ t.refused = FALSE /\ t.overrun = FALSE
  /\ t.chunk.idx = s.chunk.idx + 1 /\ t.chunk.counter = s.chunk.counter
  /\ t.chunk.idx <= SizeOf(t.chunk.counter + 1)
  /\ Gathers(t.chunk) /\ t.chunk.capacity >= 2
  /\ \A p \in 0..(t.chunk.idx - 1) : t.chunk.buf[p] = <<t.chunk.counter + 1, p>>
  /\ t.chunk.idx >= 2 => t.chunk.len = chunks[t.chunk.counter + 1].size
                         /\ t.chunk.capacity >= t.chunk.len + AUTH_BYTES

\* There is always room for the next byte, and it is the right one.
LEMMA NextByte ==
  ASSUME OtaInv, NEW n \in Nat, NEW i \in Nat, i < n, arrived + n <= Sent, chunk.len + n <= Top,
         NEW s, Going(n, i, s), NEW t, t = TakeByte(s)
  PROVE  Took(s, t)
<1> DEFINE d == s.chunk.counter
           x == s.chunk.idx
           len == s.chunk.len
           cap == s.chunk.capacity
           cbuf == s.chunk.buf
           buf == [cbuf EXCEPT ![x] = s.buf[s.k]]
           k == s.k
           sbuf == s.buf
           n0 == chunk.len + n
<1>1. /\ AUTH_BYTES \in Nat /\ AUTH_BYTES > 2 /\ Top \in Nat /\ ChunkSizes \subseteq Nat
      /\ \A m \in ChunkSizes \cup {0} : m + AUTH_BYTES <= Top
      /\ BufferSize \in Nat
  BY OtaAssumption DEF CLEN_BYTES
<1>2. s.overrun = FALSE
  BY Zenon DEF Going
<1>3. /\ x \in 0..Top /\ len \in ChunkSizes \cup {0} /\ cap \in Nat /\ cbuf \in Buffer
      /\ d \in Nat /\ d <= Len(chunks) /\ \A b \in 1..d : chunks[b].good
  BY Zenon DEF Going, Gathers
<1>4. /\ d < Len(chunks) => x < SizeOf(d + 1)
      /\ \A p \in 0..(x - 1) : cbuf[p] = <<d + 1, p>>
      /\ x >= 2 => len = chunks[d + 1].size /\ cap >= len + AUTH_BYTES
  BY Zenon DEF Going, Knows
<1>5. /\ cap >= 2 /\ arrived + i = Start(d + 1) + x
      /\ sbuf \in Buffer /\ k \in Nat /\ k + (n - i) <= n0
      /\ \A p \in 0..(n - i - 1) : sbuf[k + p] = ByteAt(arrived + i + p)
  BY Zenon DEF Going
<1>6. chunk.len \in ChunkSizes \cup {0}
  BY Zenon DEF OtaInv, Gathers
<1>7. n0 \in Nat /\ n0 <= Top
  <2> DEFINE l0 == chunk.len
  <2>1. l0 \in Nat
    <3>1. l0 \in ChunkSizes \cup {0}
      BY <1>6, Zenon
    <3>2. ChunkSizes \subseteq Nat
      BY <1>1
    <3> HIDE DEF l0
    <3> QED BY <3>1, <3>2
  <2>2. l0 + n <= Top
    OBVIOUS
  <2> HIDE DEF l0
  <2>3. l0 + n \in Nat
    BY <2>1
  <2> QED BY <2>2, <2>3 DEF l0
<1>8. arrived \in Nat /\ chunks \in Seq(SentChunk) /\ Len(chunks) \in Nat /\ Sent = Start(Len(chunks) + 1)
  BY Starts DEF OtaInv, Sent
<1>9. /\ t.buf = sbuf /\ t.j = s.j /\ t.k = k + 1 /\ t.room = s.room
      /\ t.chunk.idx = x + 1 /\ t.chunk.counter = d /\ t.chunk.buf = buf
      /\ x + 1 = 2 => /\ t.chunk.len = LengthIn(t.chunk.buf)
                      /\ t.chunk.capacity = brealloc(cap, t.chunk.len + AUTH_BYTES)
      /\ x + 1 # 2 => t.chunk.len = len /\ t.chunk.capacity = cap
  <2> HIDE DEF d, x, len, cap, cbuf, buf, k, n0, sbuf
  <2> QED BY ByteTaken DEF d, x, len, cap, cbuf, buf, k, n0, sbuf
<1>10. buf = [cbuf EXCEPT ![x] = sbuf[k]]
  OBVIOUS
<1> HIDE DEF d, x, len, cap, cbuf, buf, k, n0, sbuf
<1>11. d < Len(chunks)
  <2> SUFFICES ASSUME d = Len(chunks) PROVE FALSE
    BY <1>3, <1>8
  <2>1. arrived + i = Sent + x
    BY <1>5, <1>8
  <2>2. Sent \in Int
    BY <1>8, Starts
  <2> QED BY <1>3, <1>8, <2>1, <2>2
<1>12. d + 1 \in 1..Len(chunks)
  BY <1>3, <1>8, <1>11
<1> DEFINE size == chunks[d + 1].size
<1>13. size \in ChunkSizes /\ size \in Nat /\ SizeOf(d + 1) \in Nat /\ SizeOf(d + 1) = AUTH_BYTES + size
  BY <1>8, <1>12, Starts
<1> HIDE DEF size
<1>14. x < AUTH_BYTES + size /\ AUTH_BYTES + size <= Top
  BY <1>1, <1>4, <1>11, <1>13
<1>15. sbuf[k] = <<d + 1, x>>
  <2>1. 0 \in 0..(n - i - 1) /\ k + 0 = k /\ arrived + i + 0 = Start(d + 1) + x
    BY <1>5, <1>8
  <2>2. sbuf[k + 0] = ByteAt(arrived + i + 0)
    BY <1>5, <2>1
  <2>3. ByteAt(Start(d + 1) + x) = <<d + 1, x>>
    BY <1>3, <1>4, <1>8, <1>11, <1>12, ByteIs
  <2> QED BY <2>1, <2>2, <2>3
<1>16. ~(x >= cap)
  <2>1. CASE x < 2
    BY <1>3, <1>5, <2>1
  <2>2. CASE ~(x < 2)
    <3>1. len = size /\ cap >= len + AUTH_BYTES
      BY <1>3, <1>4, <2>2 DEF size
    <3> QED BY <1>1, <1>3, <1>13, <1>14, <3>1
  <2> QED BY <2>1, <2>2
<1>24. t.refused = FALSE /\ t.overrun = FALSE
  BY <1>2, <1>16, ByteInside, Zenon DEF x, cap
<1>17. buf \in Buffer /\ \A p \in 0..x : buf[p] = <<d + 1, p>>
  <2>1. k \in 0..Top /\ x \in 0..Top
    BY <1>1, <1>3, <1>5, <1>7
  <2>2. sbuf[k] \in StreamByte
    BY <1>5, <2>1 DEF Buffer
  <2>3. buf \in Buffer /\ buf[x] = <<d + 1, x>> /\ \A p \in 0..Top : p # x => buf[p] = cbuf[p]
    BY <1>3, <1>10, <1>15, <2>1, <2>2 DEF Buffer
  <2>5. x \in Nat /\ x <= Top /\ Top \in Nat
    BY <1>1, <2>1
  <2>4. ASSUME NEW p \in 0..x PROVE buf[p] = <<d + 1, p>>
    <3>1. CASE p = x
      BY <2>3, <3>1
    <3>2. CASE p # x
      <4>1. p \in 0..(x - 1) /\ p \in 0..Top
        BY <2>5, <3>2
      <4> QED BY <1>4, <2>3, <3>2, <4>1
    <3> QED BY <3>1, <3>2
  <2> QED BY <2>3, <2>4
<1>18. /\ t.chunk.len \in ChunkSizes \cup {0} /\ t.chunk.capacity \in Nat /\ t.chunk.capacity >= 2
       /\ x + 1 >= 2 => t.chunk.len = size /\ t.chunk.capacity >= t.chunk.len + AUTH_BYTES
  <2>1. CASE x + 1 = 2
    <3>1. buf[0] = <<d + 1, 0>> /\ buf[1] = <<d + 1, 1>>
      BY <1>3, <1>17, <2>1
    <3>2. LengthIn(buf) = size
      <4>1. buf[0][1] = d + 1 /\ d + 1 > 0
        BY <1>3, <3>1
      <4> QED BY <3>1, <4>1 DEF LengthIn, size
    <3>3. t.chunk.len = size /\ size + AUTH_BYTES \in Nat /\ t.chunk.capacity = brealloc(cap, size + AUTH_BYTES)
      BY <1>1, <1>9, <1>13, <1>16, <2>1, <3>2
    <3>4. t.chunk.capacity \in Nat /\ t.chunk.capacity >= size + AUTH_BYTES
      BY <1>3, <3>3, BreallocIs
    <3> QED BY <1>1, <1>13, <3>3, <3>4
  <2>2. CASE x + 1 # 2
    <3>1. x + 1 >= 2 => x >= 2
      BY <1>3, <2>2
    <3> QED BY <1>3, <1>4, <1>5, <1>9, <1>16, <2>2, <3>1 DEF size
  <2> QED BY <2>1, <2>2
<1>19. x + 1 \in 0..Top /\ x + 1 <= SizeOf(d + 1) /\ \A p \in 0..(x + 1 - 1) : buf[p] = <<d + 1, p>>
  BY <1>1, <1>3, <1>13, <1>14, <1>17
<1>20. Gathers(t.chunk)
  BY <1>3, <1>9, <1>16, <1>17, <1>18, <1>19, Zenon DEF Gathers
<1>21. /\ t.buf = sbuf /\ t.j = s.j /\ t.k = k + 1 /\ t.room = s.room /\ t.refused = FALSE /\ t.overrun = FALSE
       /\ t.chunk.idx = x + 1 /\ t.chunk.counter = d /\ t.chunk.buf = buf
  BY <1>9, <1>24, Zenon
<1>22. /\ t.chunk.idx <= SizeOf(t.chunk.counter + 1)
       /\ \A p \in 0..(t.chunk.idx - 1) : t.chunk.buf[p] = <<t.chunk.counter + 1, p>>
       /\ t.chunk.idx >= 2 => t.chunk.len = chunks[t.chunk.counter + 1].size
                              /\ t.chunk.capacity >= t.chunk.len + AUTH_BYTES
  <2>1. x + 1 <= SizeOf(d + 1) /\ \A p \in 0..(x + 1 - 1) : buf[p] = <<d + 1, p>>
    BY <1>19, Zenon
  <2>2. x + 1 >= 2 => t.chunk.len = chunks[d + 1].size /\ t.chunk.capacity >= t.chunk.len + AUTH_BYTES
    BY <1>18, Zenon DEF size
  <2>3. t.chunk.idx <= SizeOf(t.chunk.counter + 1)
    BY <1>9, <2>1, Zenon
  <2>4. ASSUME NEW p \in 0..(t.chunk.idx - 1) PROVE t.chunk.buf[p] = <<t.chunk.counter + 1, p>>
    <3>1. p \in 0..(x + 1 - 1)
      <4>1. t.chunk.idx = x + 1
        BY <1>9, Zenon
      <4>2. x \in Int
        BY <1>3
      <4> QED BY <4>1, <4>2
    <3>2. buf[p] = <<d + 1, p>>
      BY <2>1, <3>1
    <3> QED BY <1>9, <3>2, Zenon
  <2>5. t.chunk.idx >= 2 => t.chunk.len = chunks[t.chunk.counter + 1].size
                              /\ t.chunk.capacity >= t.chunk.len + AUTH_BYTES
    BY <1>9, <2>2, Zenon
  <2> QED BY <2>3, <2>4, <2>5
<1>23. d < Len(chunks) /\ Gathers(t.chunk) /\ t.chunk.capacity >= 2
  BY <1>11, <1>18, <1>20, Zenon
<1> QED BY <1>21, <1>22, <1>23, Zenon DEF Took, d, x, k, sbuf

\* A chunk that is not whole yet goes on being gathered.
LEMMA GoesOn ==
  ASSUME OtaInv, NEW n \in Nat, NEW i \in Nat, i < n,
         NEW s, Going(n, i, s), NEW t, Took(s, t), t.chunk.idx # t.chunk.len + AUTH_BYTES
  PROVE  Going(n, i + 1, t)
<1> DEFINE d == t.chunk.counter
           x == t.chunk.idx
           len == t.chunk.len
           cap == t.chunk.capacity
<1>1. /\ d = s.chunk.counter /\ x = s.chunk.idx + 1 /\ t.buf = s.buf /\ t.j = s.j /\ t.k = s.k + 1 /\ t.room = s.room
  BY Zenon DEF Took
<1>2. t.refused = FALSE /\ t.overrun = FALSE
  BY Zenon DEF Took
<1>3. /\ d < Len(chunks) /\ x <= SizeOf(d + 1) /\ cap >= 2 /\ Gathers(t.chunk)
      /\ \A p \in 0..(x - 1) : t.chunk.buf[p] = <<d + 1, p>>
      /\ x >= 2 => len = chunks[d + 1].size /\ cap >= len + AUTH_BYTES
  <2>1. s.chunk.counter < Len(chunks)
    BY Zenon DEF Took
  <2> QED BY <1>1, <2>1, Zenon DEF Took
<1>4. d \in Nat /\ s.chunk.idx \in 0..Top
  <2>1. s.chunk.idx \in 0..Top
    BY Zenon DEF Going, Gathers
  <2> QED BY <1>3, <2>1, Zenon DEF Gathers
<1>5. chunks \in Seq(SentChunk)
  BY Zenon DEF OtaInv
<1>6. AUTH_BYTES \in Nat /\ AUTH_BYTES > 2 /\ Top \in Nat
  BY OtaAssumption DEF CLEN_BYTES
<1> HIDE DEF d, x, len, cap
<1>7. d + 1 \in 1..Len(chunks) /\ Len(chunks) \in Nat
  BY <1>3, <1>4, <1>5, Starts
<1>8. SizeOf(d + 1) \in Nat /\ SizeOf(d + 1) = AUTH_BYTES + chunks[d + 1].size /\ chunks[d + 1].size \in Nat
  BY <1>5, <1>7, Starts
<1>9. x \in Nat /\ x >= 1 /\ s.chunk.idx \in Nat
  BY <1>1, <1>4, <1>6
<1>10. x < SizeOf(d + 1)
  <2>0. x # len + AUTH_BYTES
    BY Zenon DEF x, len
  <2>1. CASE x >= 2
    <3>1. len = chunks[d + 1].size
      BY <1>3, <2>1
    <3> QED BY <1>3, <1>6, <1>8, <1>9, <2>0, <3>1
  <2>2. CASE ~(x >= 2)
    BY <1>6, <1>8, <1>9, <2>2
  <2> QED BY <2>1, <2>2
<1>11. Knows(t.chunk)
  <2>1. \A p \in 0..(t.chunk.idx - 1) : t.chunk.buf[p] = <<t.chunk.counter + 1, p>>
    BY <1>3 DEF x, d
  <2>2. t.chunk.counter < Len(chunks) => t.chunk.idx < SizeOf(t.chunk.counter + 1)
    BY <1>10 DEF x, d
  <2>3. t.chunk.idx >= 2 => t.chunk.len = chunks[t.chunk.counter + 1].size
                            /\ t.chunk.capacity >= t.chunk.len + AUTH_BYTES
    BY <1>3 DEF x, d, len, cap
  <2> QED BY <2>1, <2>2, <2>3 DEF Knows
<1> DEFINE sx == s.chunk.idx
           k == s.k
           j == s.j
           st == Start(d + 1)
           x0 == chunk.idx
           d0 == chunk.counter
           l0 == chunk.len
<1>12. /\ arrived + i = st + sx /\ j \in Nat /\ k \in Nat /\ s.buf \in Buffer
       /\ \A p \in 0..(n - i - 1) : s.buf[k + p] = ByteAt(arrived + i + p)
       /\ k + (n - i) <= l0 + n
       /\ d >= d0
       /\ d = d0 => j = 0 /\ sx = x0 + i
       /\ d # d0 => j + sx + (n - i) <= l0 + n
       /\ s.room \in Nat /\ s.room >= l0 + n
  BY <1>1, Zenon DEF Going
<1>13. written \o Front(s) = Payloads(d)
  BY <1>1, Zenon DEF Going
<1>14. Front(t) = Front(s)
  BY <1>1 DEF Front
<1>15. arrived \in Nat /\ st \in Int /\ x0 \in Nat /\ l0 \in Nat
  <2>1. arrived \in Nat
    BY Zenon DEF OtaInv
  <2>2. x0 \in 0..Top /\ l0 \in ChunkSizes \cup {0}
    BY Zenon DEF OtaInv, Gathers
  <2>3. ChunkSizes \subseteq Nat
    BY OtaAssumption
  <2>4. d + 1 \in 1..(Len(chunks) + 1)
    BY <1>7
  <2>5. st \in Int
    BY <1>5, <2>4, Starts
  <2> HIDE DEF x0, l0
  <2> QED BY <1>6, <2>1, <2>2, <2>3, <2>5
<1>16. x = sx + 1
  BY <1>1
<1> HIDE DEF sx, k, j, st, x0, d0, l0
<1>17. arrived + (i + 1) = st + x
  BY <1>12, <1>15, <1>16, <1>9 DEF sx
<1>18. (k + 1) + (n - (i + 1)) <= l0 + n
  BY <1>12, <1>15
<1>19. d = d0 => j = 0 /\ x = x0 + (i + 1)
  BY <1>9, <1>12, <1>15, <1>16 DEF sx
<1>20. d # d0 => j + x + (n - (i + 1)) <= l0 + n
  BY <1>9, <1>12, <1>15, <1>16 DEF sx
<1>21. ASSUME NEW p \in 0..(n - (i + 1) - 1) PROVE s.buf[(k + 1) + p] = ByteAt(arrived + (i + 1) + p)
  <2>1. p + 1 \in 0..(n - i - 1) /\ (k + 1) + p = k + (p + 1) /\ arrived + (i + 1) + p = arrived + i + (p + 1)
    BY <1>12, <1>15
  <2> QED BY <1>12, <2>1
<1>22. /\ arrived + (i + 1) = Start(t.chunk.counter + 1) + t.chunk.idx
       /\ t.buf \in Buffer /\ t.j \in Nat /\ t.k \in Nat /\ t.room \in Nat /\ t.room >= chunk.len + n
       /\ \A p \in 0..(n - (i + 1) - 1) : t.buf[t.k + p] = ByteAt(arrived + (i + 1) + p)
       /\ t.k + (n - (i + 1)) <= chunk.len + n
       /\ t.chunk.counter >= chunk.counter
       /\ t.chunk.counter = chunk.counter => t.j = 0 /\ t.chunk.idx = chunk.idx + (i + 1)
       /\ t.chunk.counter # chunk.counter => t.j + t.chunk.idx + (n - (i + 1)) <= chunk.len + n
       /\ written \o Front(t) = Payloads(t.chunk.counter)
  <2>1. k + 1 \in Nat
    BY <1>12
  <2>2. /\ arrived + (i + 1) = Start(t.chunk.counter + 1) + t.chunk.idx
        /\ t.buf \in Buffer /\ t.j \in Nat /\ t.k \in Nat /\ t.room \in Nat /\ t.room >= chunk.len + n
        /\ t.chunk.counter >= chunk.counter
    BY <1>1, <1>12, <1>17, <2>1, Zenon DEF d, x, st, j, k, l0, d0
  <2>3. /\ \A p \in 0..(n - (i + 1) - 1) : t.buf[t.k + p] = ByteAt(arrived + (i + 1) + p)
        /\ t.k + (n - (i + 1)) <= chunk.len + n
    BY <1>1, <1>18, <1>21, Zenon DEF l0, k
  <2>4. t.chunk.counter = chunk.counter => t.j = 0 /\ t.chunk.idx = chunk.idx + (i + 1)
    BY <1>1, <1>19, Zenon DEF d, d0, j, x, x0
  <2>5. t.chunk.counter # chunk.counter => t.j + t.chunk.idx + (n - (i + 1)) <= chunk.len + n
    BY <1>1, <1>20, Zenon DEF d, d0, j, x, l0
  <2>6. written \o Front(t) = Payloads(t.chunk.counter)
    BY <1>13, <1>14, Zenon DEF d
  <2> QED BY <2>2, <2>3, <2>4, <2>5, <2>6, Zenon
<1>23. Gathers(t.chunk) /\ t.chunk.capacity >= 2
  BY <1>3, Zenon DEF cap
<1> QED BY <1>2, <1>11, <1>22, <1>23, Zenon DEF Going

\* What a chunk has when it is whole.
LEMMA WholeChunk ==
  ASSUME OtaInv, closed = FALSE, NEW n \in Nat, NEW i \in Nat, i < n,
         NEW s, Going(n, i, s), NEW t, Took(s, t), t.chunk.idx = t.chunk.len + AUTH_BYTES
  PROVE  /\ t.chunk.counter \in Nat /\ t.chunk.counter + 1 \in 1..Len(chunks) /\ t.chunk.counter >= chunk.counter
         /\ t.chunk.len \in Nat /\ t.chunk.len = chunks[t.chunk.counter + 1].size
         /\ arrived + (i + 1) = Start(t.chunk.counter + 2)
         /\ HashFits(t.chunk.buf, t.chunk.len, t.chunk.counter) <=> chunks[t.chunk.counter + 1].good
         /\ t.j \in Nat /\ t.j + t.chunk.len + (n - (i + 1)) <= chunk.len + n
<1> DEFINE d == t.chunk.counter
           x == t.chunk.idx
           len == t.chunk.len
           cap == t.chunk.capacity
           tbuf == t.chunk.buf
           sx == s.chunk.idx
           st == Start(d + 1)
           x0 == chunk.idx
           d0 == chunk.counter
           l0 == chunk.len
           j == t.j
<1>1. d = s.chunk.counter /\ x = s.chunk.idx + 1 /\ t.j = s.j
  BY Zenon DEF Took
<1>2. /\ d < Len(chunks) /\ x <= SizeOf(d + 1) /\ Gathers(t.chunk)
      /\ \A p \in 0..(x - 1) : tbuf[p] = <<d + 1, p>>
      /\ x >= 2 => len = chunks[d + 1].size /\ cap >= len + AUTH_BYTES
  <2>1. s.chunk.counter < Len(chunks)
    BY Zenon DEF Took
  <2> QED BY <1>1, <2>1, Zenon DEF Took
<1>3. d \in Nat /\ sx \in 0..Top /\ len \in ChunkSizes \cup {0}
  <2>1. s.chunk.idx \in 0..Top
    BY Zenon DEF Going, Gathers
  <2> QED BY <1>2, <2>1, Zenon DEF Gathers
<1>4. chunks \in Seq(SentChunk) /\ arrived \in Nat
  BY Zenon DEF OtaInv
<1>5. AUTH_BYTES \in Nat /\ AUTH_BYTES > 2 /\ Top \in Nat /\ ChunkSizes \subseteq Nat
  BY OtaAssumption DEF CLEN_BYTES
<1>6. /\ arrived + i = st + sx /\ j \in Nat
      /\ d >= d0
      /\ d = d0 => j = 0 /\ sx = x0 + i
      /\ d # d0 => j + sx + (n - i) <= l0 + n
  BY <1>1, Zenon DEF Going
<1>7. /\ x0 \in 0..Top /\ l0 \in ChunkSizes \cup {0} /\ d0 \in Nat
      /\ x0 >= 2 => l0 = chunks[d0 + 1].size
  BY Zenon DEF OtaInv, Gathers, Knows
<1>8. x = len + AUTH_BYTES
  BY Zenon
<1>9. x = sx + 1
  BY <1>1
<1> HIDE DEF d, x, len, cap, tbuf, sx, st, x0, d0, l0, j
<1>10. len \in Nat /\ l0 \in Nat /\ x0 \in Nat /\ sx \in Nat /\ x \in Nat
  BY <1>3, <1>5, <1>7, <1>9
<1>11. d + 1 \in 1..Len(chunks) /\ Len(chunks) \in Nat /\ d + 1 \in 1..(Len(chunks) + 1)
  BY <1>2, <1>3, <1>4, Starts
<1>12. SizeOf(d + 1) \in Nat /\ SizeOf(d + 1) = AUTH_BYTES + chunks[d + 1].size /\ chunks[d + 1].size \in Nat
       /\ Start((d + 1) + 1) = Start(d + 1) + SizeOf(d + 1) /\ Start(d + 1) \in Int
  BY <1>4, <1>11, Starts
<1>13. len = chunks[d + 1].size
  <2>1. x >= 2
    BY <1>5, <1>8, <1>10
  <2> QED BY <1>2, <2>1
<1>14. arrived + (i + 1) = Start(d + 2)
  <2>1. st \in Int /\ Start((d + 1) + 1) = st + x
    BY <1>5, <1>8, <1>10, <1>12, <1>13 DEF st
  <2>2. (d + 1) + 1 = d + 2
    BY <1>3
  <2> QED BY <1>4, <1>6, <1>9, <1>10, <2>1, <2>2, SMTT(30)
<1>15. HashFits(tbuf, len, d) <=> chunks[d + 1].good
  <2>1. \A p \in 2 .. AUTH_BYTES + len - 1 : tbuf[p] = <<d + 1, p>>
    <3>1. \A p \in 2 .. AUTH_BYTES + len - 1 : p \in 0..(x - 1)
      BY <1>5, <1>8, <1>10
    <3> QED BY <1>2, <3>1
  <2>2. d + 1 \in DOMAIN chunks
    BY <1>4, <1>11, Starts
  <2> QED BY <1>13, <2>1, <2>2, Zenon DEF HashFits, CLEN_BYTES
<1>16. j + len + (n - (i + 1)) <= l0 + n
  <2>1. CASE d = d0 /\ x0 >= 2
    <3>1. len = l0 /\ j = 0
      BY <1>6, <1>7, <1>13, <2>1
    <3> QED BY <1>10, <3>1
  <2>2. CASE d = d0 /\ ~(x0 >= 2)
    <3>1. j = 0 /\ sx = x0 + i
      BY <1>6, <2>2
    <3> QED BY <1>5, <1>8, <1>9, <1>10, <2>2, <3>1
  <2>3. CASE d # d0
    <3>1. j + sx + (n - i) <= l0 + n
      BY <1>6, <2>3
    <3> QED BY <1>5, <1>6, <1>8, <1>9, <1>10, <3>1
  <2> QED BY <2>1, <2>2, <2>3
<1>17. /\ d \in Nat /\ d + 1 \in 1..Len(chunks) /\ d >= d0
       /\ len \in Nat /\ len = chunks[d + 1].size
       /\ arrived + (i + 1) = Start(d + 2)
       /\ HashFits(tbuf, len, d) <=> chunks[d + 1].good
       /\ j \in Nat /\ j + len + (n - (i + 1)) <= l0 + n
  BY <1>3, <1>6, <1>10, <1>11, <1>13, <1>14, <1>15, <1>16, Zenon
<1> QED BY <1>17, Zenon DEF d, d0, len, tbuf, j, l0

\* A whole chunk whose hash does not fit stops the loop.
LEMMA StopsAt ==
  ASSUME OtaInv, closed = FALSE, NEW n \in Nat, NEW i \in Nat, i < n,
         NEW s, Going(n, i, s), NEW t, t = TakeByte(s), Took(s, t), t.chunk.idx = t.chunk.len + AUTH_BYTES,
         ~HashFits(t.chunk.buf, t.chunk.len, t.chunk.counter),
         NEW v, v = [t EXCEPT !.refused = TRUE]
  PROVE  Stopped(n, i + 1, v)
<1>1. v.refused = TRUE /\ v.overrun = t.overrun /\ v.room = t.room /\ v.chunk = t.chunk
  BY RefusedByte, Zenon
<1>2. t.overrun = FALSE /\ t.room = s.room /\ Gathers(t.chunk) /\ t.chunk.counter < Len(chunks)
  <2>1. s.chunk.counter < Len(chunks) /\ t.chunk.counter = s.chunk.counter
    BY Zenon DEF Took
  <2> QED BY <2>1, Zenon DEF Took
<1>3. s.room \in Nat
  BY Zenon DEF Going
<1>4. t.chunk.counter >= chunk.counter /\ ~chunks[t.chunk.counter + 1].good
      /\ arrived + (i + 1) = Start(t.chunk.counter + 2)
  BY WholeChunk, Zenon
<1>5. arrived + (i + 1) >= Start(t.chunk.counter + 2)
  <2>1. arrived + (i + 1) \in Int
    <3>1. arrived \in Nat
      BY Zenon DEF OtaInv
    <3> QED BY <3>1
  <2> DEFINE a == arrived + (i + 1)
  <2> HIDE DEF a
  <2>2. a >= a
    BY <2>1 DEF a
  <2> QED BY <1>4, <2>2 DEF a
<1> QED BY <1>1, <1>2, <1>3, <1>4, <1>5, Zenon DEF Stopped

\* There is room in t's buffer for its chunk, which is D and has x bytes, and for left bytes behind it.
Movable(t, left, D, x) ==
  /\ t.j \in Nat /\ t.k \in Nat /\ t.chunk.len \in Nat /\ x = t.chunk.len + AUTH_BYTES /\ x <= Top
  /\ t.j + t.chunk.len + left <= Top /\ t.k + left <= Top /\ t.buf \in Buffer /\ t.chunk.buf \in Buffer
  /\ \A p \in 0..(x - 1) : t.chunk.buf[p] = <<D, p>>

\* A whole chunk put back where the bytes before it end, and the bytes still to come behind it.
LEMMA BufferMoved ==
  ASSUME NEW t, NEW left \in Nat, NEW D, NEW x, Movable(t, left, D, x)
  PROVE  /\ Moved(t, left) \in Buffer
         /\ \A p \in 0..(t.j - 1) : Moved(t, left)[p] = t.buf[p]
         /\ \A p \in 0..(t.chunk.len - 1) : Moved(t, left)[t.j + p] = <<D, AUTH_BYTES + p>>
         /\ \A p \in 0..(left - 1) : Moved(t, left)[t.j + t.chunk.len + p] = t.buf[t.k + p]
<1> DEFINE j == t.j
           len == t.chunk.len
           k == t.k
           tbuf == t.buf
           cbuf == t.chunk.buf
           behind == j + len
           E(p) == IF p \in j .. behind - 1 THEN cbuf[AUTH_BYTES + p - j]
                   ELSE IF p \in behind .. behind + left - 1 THEN tbuf[k + p - behind]
                   ELSE tbuf[p]
           m == [p \in 0..Top |-> E(p)]
<1>1. Moved(t, left) = m
  BY DEF Moved
<1>2. /\ j \in Nat /\ len \in Nat /\ k \in Nat /\ behind = j + len /\ behind + left <= Top /\ k + left <= Top
      /\ x = len + AUTH_BYTES /\ x <= Top /\ tbuf \in Buffer /\ cbuf \in Buffer
      /\ \A p \in 0..(x - 1) : cbuf[p] = <<D, p>>
  BY Zenon DEF Movable
<1> HIDE DEF j, len, k, tbuf, cbuf, behind
<1>3. Top \in Nat /\ AUTH_BYTES \in Nat /\ x \in Nat /\ behind \in Nat
  BY <1>2, OtaAssumption
<1>4. \A p \in 0..Top : tbuf[p] \in StreamByte /\ cbuf[p] \in StreamByte
  BY <1>2 DEF Buffer
<1>5. ASSUME NEW p \in 0..Top PROVE E(p) \in StreamByte
  <2>1. CASE p \in j .. behind - 1
    <3>1. AUTH_BYTES + p - j \in 0..Top
      BY <1>2, <1>3, <2>1
    <3> QED BY <1>4, <2>1, <3>1
  <2>2. CASE ~(p \in j .. behind - 1) /\ p \in behind .. behind + left - 1
    <3>1. k + p - behind \in 0..Top
      BY <1>2, <1>3, <2>2
    <3> QED BY <1>4, <2>2, <3>1
  <2>3. CASE ~(p \in j .. behind - 1) /\ ~(p \in behind .. behind + left - 1)
    BY <1>4, <2>3
  <2> QED BY <2>1, <2>2, <2>3
<1>6. m \in Buffer
  BY <1>5 DEF Buffer
<1>7. ASSUME NEW p \in 0..(j - 1) PROVE m[p] = tbuf[p]
  <2>1. p \in 0..Top /\ ~(p \in j .. behind - 1) /\ ~(p \in behind .. behind + left - 1)
    BY <1>2, <1>3
  <2> QED BY <2>1
<1>8. ASSUME NEW p \in 0..(len - 1) PROVE m[j + p] = <<D, AUTH_BYTES + p>>
  <2>1. j + p \in 0..Top /\ j + p \in j .. behind - 1
    BY <1>2, <1>3
  <2>2. AUTH_BYTES + (j + p) - j = AUTH_BYTES + p /\ AUTH_BYTES + p \in 0..(x - 1)
    BY <1>2, <1>3
  <2>3. m[j + p] = cbuf[AUTH_BYTES + (j + p) - j]
    BY <2>1
  <2> HIDE DEF m
  <2> QED BY <1>2, <2>2, <2>3
<1>9. ASSUME NEW p \in 0..(left - 1) PROVE m[behind + p] = tbuf[k + p]
  <2>1. behind + p \in 0..Top /\ ~(behind + p \in j .. behind - 1) /\ behind + p \in behind .. behind + left - 1
    BY <1>2, <1>3
  <2>2. k + (behind + p) - behind = k + p
    BY <1>2, <1>3
  <2>3. m[behind + p] = tbuf[k + (behind + p) - behind]
    BY <2>1
  <2> HIDE DEF m
  <2> QED BY <2>2, <2>3
<1> HIDE DEF m
<1>10. /\ m \in Buffer
       /\ \A p \in 0..(j - 1) : m[p] = tbuf[p]
       /\ \A p \in 0..(len - 1) : m[j + p] = <<D, AUTH_BYTES + p>>
       /\ \A p \in 0..(left - 1) : m[j + len + p] = tbuf[k + p]
  BY <1>6, <1>7, <1>8, <1>9 DEF behind
<1> QED BY <1>1, <1>10, Zenon DEF j, len, tbuf, k

\* Two sequences joined, place by place.
LEMMA ConcatIs ==
  ASSUME NEW T, NEW f \in Seq(T), NEW c \in Seq(T)
  PROVE  /\ f \o c \in Seq(T)
         /\ f \o c = [q \in 1..(Len(f) + Len(c)) |-> IF q <= Len(f) THEN f[q] ELSE c[q - Len(f)]]
<1>1. Len(f) \in Nat /\ Len(c) \in Nat
  OBVIOUS
<1>2. f \o c \in Seq(T) /\ Len(f \o c) = Len(f) + Len(c)
  OBVIOUS
<1>3. ASSUME NEW q \in 1..(Len(f) + Len(c)) PROVE (f \o c)[q] = IF q <= Len(f) THEN f[q] ELSE c[q - Len(f)]
  BY ConcatProperties
<1>4. f \o c = [q \in 1..(Len(f) + Len(c)) |-> (f \o c)[q]]
  <2>1. ASSUME NEW h \in Seq(T) PROVE h = [q \in 1..Len(h) |-> h[q]]
    BY LenProperties
  <2> QED BY <1>2, <2>1
<1> QED BY <1>2, <1>3, <1>4

\* Joining is associative.
LEMMA Associates ==
  ASSUME NEW w \in Seq(StreamByte), NEW f \in Seq(StreamByte), NEW c \in Seq(StreamByte)
  PROVE  (w \o f) \o c = w \o (f \o c)
BY ConcatAssociative

\* Joining goes on at the end.
LEMMA JoinedMore ==
  ASSUME NEW w \in Seq(StreamByte), NEW f \in Seq(StreamByte), NEW c \in Seq(StreamByte),
         NEW g, g = f \o c, NEW p, w \o f = p, NEW q, q = p \o c
  PROVE  w \o g = q
BY Associates, Zenon

\* t has what s has, and the bytes of chunk d + 1 behind it.
PutBehind(s, t, d) ==
  /\ s.j \in Nat /\ s.buf \in Buffer /\ t.j = s.j + chunks[d + 1].size /\ t.j <= Top
  /\ \A p \in 0..(s.j - 1) : t.buf[p] = s.buf[p]
  /\ \A p \in 0..(chunks[d + 1].size - 1) : t.buf[s.j + p] = <<d + 1, AUTH_BYTES + p>>

\* What has been put back is then followed by what the chunk carries.
LEMMA FrontGrows ==
  ASSUME chunks \in Seq(SentChunk), Len(chunks) <= MaxChunks,
         NEW d \in Nat, d + 1 \in 1..Len(chunks), NEW s, NEW t, PutBehind(s, t, d)
  PROVE  Front(s) \in Seq(StreamByte) /\ Front(t) = Front(s) \o Carried(d + 1)
<1> DEFINE c == Carried(d + 1)
           size == chunks[d + 1].size
           j == s.j
           sbuf == s.buf
           tbuf == t.buf
           f == [q \in 1..j |-> sbuf[q - 1]]
           g == [q \in 1..(j + size) |-> tbuf[q - 1]]
<1>1. c \in Seq(StreamByte) /\ Len(c) = size /\ \A q \in 1..size : c[q] = <<d + 1, AUTH_BYTES + q - 1>>
  BY PayloadSteps
<1>2. size \in Nat /\ AUTH_BYTES \in Nat /\ Top \in Nat
  BY Starts, OtaAssumption
<1>3. /\ j \in Nat /\ sbuf \in Buffer /\ t.j = j + size
      /\ \A p \in 0..(j - 1) : tbuf[p] = sbuf[p]
      /\ \A p \in 0..(size - 1) : tbuf[j + p] = <<d + 1, AUTH_BYTES + p>>
  BY Zenon DEF PutBehind
<1>4. j + size <= Top
  BY Zenon DEF PutBehind
<1>5. Front(s) = f /\ Front(t) = g
  BY <1>3, Zenon DEF Front
<1> HIDE DEF c, size, j, sbuf, tbuf
<1>6. ASSUME NEW p \in 0..(size - 1) PROVE tbuf[j + p] = c[p + 1]
  <2>1. p + 1 \in 1..size /\ AUTH_BYTES + (p + 1) - 1 = AUTH_BYTES + p
    BY <1>2
  <2> QED BY <1>1, <1>3, <2>1
<1>7. f \in Seq(StreamByte) /\ Len(f) = j /\ \A q \in 1..j : f[q] = sbuf[q - 1]
  <2>1. \A q \in 1..j : sbuf[q - 1] \in StreamByte
    <3>1. \A q \in 1..j : q - 1 \in 0..Top
      BY <1>2, <1>3, <1>4
    <3> QED BY <1>3, <3>1 DEF Buffer
  <2> QED BY <1>3, <2>1
<1>8. g = f \o c
  <2> HIDE DEF f
  <2>1. f \o c = [q \in 1..(j + size) |-> IF q <= j THEN f[q] ELSE c[q - j]]
    <3>1. c \in Seq(StreamByte) /\ Len(c) = size
      BY <1>1
    <3>2. f \o c = [q \in 1..(Len(f) + Len(c)) |-> IF q <= Len(f) THEN f[q] ELSE c[q - Len(f)]]
      BY <1>7, <3>1, ConcatIs
    <3> QED BY <1>7, <3>1, <3>2
  <2>2. ASSUME NEW q \in 1..(j + size) PROVE tbuf[q - 1] = IF q <= j THEN f[q] ELSE c[q - j]
    <3>1. CASE q <= j
      <4>1. q - 1 \in 0..(j - 1) /\ q \in 1..j
        BY <1>2, <1>3, <3>1
      <4> QED BY <1>3, <1>7, <3>1, <4>1
    <3>2. CASE ~(q <= j)
      <4>1. q - 1 - j \in 0..(size - 1) /\ j + (q - 1 - j) = q - 1 /\ (q - 1 - j) + 1 = q - j
        BY <1>2, <1>3, <3>2
      <4>2. tbuf[j + (q - 1 - j)] = c[(q - 1 - j) + 1]
        BY <1>6, <4>1
      <4> QED BY <3>2, <4>1, <4>2
    <3> QED BY <3>1, <3>2
  <2> QED BY <2>1, <2>2
<1> HIDE DEF f, g
<1> QED BY <1>5, <1>7, <1>8, Zenon DEF c

\* A whole chunk whose hash fits is put back, and the loop goes on behind it.
LEMMA PutsBack ==
  ASSUME OtaInv, closed = FALSE, NEW n \in Nat, NEW i \in Nat, i < n, chunk.len + n <= Top,
         NEW s, Going(n, i, s), NEW t, Took(s, t), t.chunk.idx = t.chunk.len + AUTH_BYTES,
         HashFits(t.chunk.buf, t.chunk.len, t.chunk.counter),
         NEW left, left = n - (i + 1), NEW r, r = CopyBack(t, left)
  PROVE  Going(n, i + 1, r)
<1> DEFINE d == t.chunk.counter
           len == t.chunk.len
           j == t.j
           k == t.k
           l0 == chunk.len
           d0 == chunk.counter
<1>1. /\ d \in Nat /\ d + 1 \in 1..Len(chunks) /\ d >= d0 /\ len \in Nat /\ len = chunks[d + 1].size
      /\ arrived + (i + 1) = Start(d + 2) /\ chunks[d + 1].good
      /\ j \in Nat /\ j + len + (n - (i + 1)) <= l0 + n
  BY WholeChunk, ZenonT(40)
<1>2. /\ t.buf = s.buf /\ j = s.j /\ k = s.k + 1 /\ t.room = s.room /\ Gathers(t.chunk) /\ t.chunk.capacity >= 2
      /\ \A p \in 0..(t.chunk.idx - 1) : t.chunk.buf[p] = <<d + 1, p>>
  BY Zenon DEF Took
<1>3. t.overrun = FALSE
  BY Zenon DEF Took
<1>4. d = s.chunk.counter
  BY Zenon DEF Took
<1>5. /\ s.buf \in Buffer /\ s.k \in Nat /\ s.room \in Nat /\ s.room >= l0 + n
      /\ \A p \in 0..(n - i - 1) : s.buf[s.k + p] = ByteAt(arrived + i + p)
      /\ s.k + (n - i) <= l0 + n
      /\ written \o Front(s) = Payloads(d)
  BY <1>4, Zenon DEF Going
<1>6. /\ chunks \in Seq(SentChunk) /\ Len(chunks) <= MaxChunks /\ arrived \in Nat /\ written \in Seq(StreamByte)
      /\ l0 \in ChunkSizes \cup {0} /\ d0 \in Nat
  BY Zenon DEF OtaInv, Gathers
<1>7. AUTH_BYTES \in Nat /\ AUTH_BYTES > 2 /\ Top \in Nat /\ ChunkSizes \subseteq Nat
  BY OtaAssumption DEF CLEN_BYTES
<1>8. /\ t.chunk.idx \in 0..Top /\ len \in ChunkSizes \cup {0} /\ t.chunk.capacity \in Nat /\ t.chunk.buf \in Buffer
      /\ \A b \in 1..d : chunks[b].good
  BY <1>2, Zenon DEF Gathers
<1>9. l0 + n <= Top
  OBVIOUS
<1>10. t.chunk.idx = len + AUTH_BYTES
  BY Zenon
<1> DEFINE x == t.chunk.idx
           room1 == t.room
           sk == s.k
           sbuf == s.buf
           cbuf == t.chunk.buf
<1>11. k = sk + 1 /\ sk \in Nat /\ sk + (n - i) <= l0 + n /\ room1 \in Nat /\ room1 >= l0 + n
  BY <1>2, <1>5, Zenon
<1>12. \A p \in 0..(n - i - 1) : sbuf[sk + p] = ByteAt(arrived + i + p)
  BY <1>5
<1> HIDE DEF d, len, j, k, l0, d0, x, room1, sk, sbuf, cbuf
<1>13. l0 \in Nat /\ left \in Nat /\ left = n - (i + 1) /\ k \in Nat /\ x \in Nat /\ x <= Top /\ x = len + AUTH_BYTES
  BY <1>6, <1>7, <1>8, <1>10, <1>11 DEF x
<1>26. j \in Nat /\ len \in Nat /\ j + len + (n - (i + 1)) <= l0 + n
  BY <1>1, Zenon
<1>14. j + len + left <= l0 + n /\ j + len + left <= Top /\ k + left <= l0 + n /\ k + left <= Top
  BY <1>7, <1>9, <1>11, <1>13, <1>26
<1>15. ~(j + len + left > room1)
  BY <1>1, <1>11, <1>13, <1>14, SMTT(30)
<1>16. r.refused = FALSE /\ r.overrun = FALSE
  BY <1>3, <1>15, CopiedInside, Zenon DEF j, len, room1
<1>17. /\ r.j = j + len /\ r.k = j + len /\ r.room = room1
       /\ r.chunk.idx = 0 /\ r.chunk.counter = d + 1 /\ r.chunk.len = len
       /\ r.chunk.buf = t.chunk.buf /\ r.chunk.capacity = t.chunk.capacity /\ r.buf = Moved(t, left)
  BY CopiedBack DEF j, len, room1, d
<1> DEFINE m == Moved(t, left)
<1>18. /\ m \in Buffer /\ \A p \in 0..(j - 1) : m[p] = sbuf[p]
       /\ \A p \in 0..(len - 1) : m[j + p] = <<d + 1, AUTH_BYTES + p>>
       /\ \A p \in 0..(left - 1) : m[j + len + p] = sbuf[k + p]
  <2>2. t.buf \in Buffer /\ t.chunk.buf \in Buffer
    BY <1>2, <1>5, <1>8, Zenon
  <2>3. \A p \in 0..(x - 1) : t.chunk.buf[p] = <<d + 1, p>>
    BY <1>2, Zenon DEF x
  <2> DEFINE D == d + 1
  <2> HIDE DEF D, m
  <2>4. \A p \in 0..(x - 1) : t.chunk.buf[p] = <<D, p>>
    BY <2>3 DEF D
  <2>5. /\ Moved(t, left) \in Buffer
        /\ \A p \in 0..(t.j - 1) : Moved(t, left)[p] = t.buf[p]
        /\ \A p \in 0..(t.chunk.len - 1) : Moved(t, left)[t.j + p] = <<D, AUTH_BYTES + p>>
        /\ \A p \in 0..(left - 1) : Moved(t, left)[t.j + t.chunk.len + p] = t.buf[t.k + p]
    <3>1. Movable(t, left, D, x)
      <4>1. t.j \in Nat /\ t.k \in Nat /\ t.chunk.len \in Nat /\ x = t.chunk.len + AUTH_BYTES /\ x <= Top
        BY <1>13, <1>26, Zenon DEF j, k, len
      <4>2. t.j + t.chunk.len + left <= Top /\ t.k + left <= Top
        BY <1>14, Zenon DEF j, k, len
      <4> QED BY <2>2, <2>4, <4>1, <4>2, Zenon DEF Movable
    <3> QED BY <1>13, <3>1, BufferMoved
  <2> QED BY <1>2, <2>5, Zenon DEF m, D, j, k, len, sbuf
<1> HIDE DEF m
<1>19. \A p \in 0..(n - (i + 1) - 1) : m[j + len + p] = ByteAt(arrived + (i + 1) + p)
  <2> SUFFICES ASSUME NEW p \in 0..(n - (i + 1) - 1) PROVE m[j + len + p] = ByteAt(arrived + (i + 1) + p)
    OBVIOUS
  <2>1. p \in 0..(left - 1) /\ p + 1 \in 0..(n - i - 1) /\ k + p = sk + (p + 1)
        /\ arrived + (i + 1) + p = arrived + i + (p + 1)
    BY <1>6, <1>11, <1>13
  <2>2. m[j + len + p] = sbuf[k + p]
    BY <1>18, <2>1
  <2>3. sbuf[sk + (p + 1)] = ByteAt(arrived + i + (p + 1))
    BY <1>12, <2>1
  <2> QED BY <2>1, <2>2, <2>3
<1>20. written \o Front(r) = Payloads(d + 1)
  <2>1. PutBehind(t, r, d)
    <3>1. t.j \in Nat /\ t.buf \in Buffer /\ r.j = t.j + chunks[d + 1].size
      BY <1>1, <1>2, <1>5, <1>17, Zenon DEF j
    <3>2. r.j <= Top
      <4>1. j + len <= Top
        BY <1>7, <1>13, <1>14, <1>26
      <4> QED BY <1>17, <4>1, Zenon
    <3>3. \A p \in 0..(t.j - 1) : r.buf[p] = t.buf[p]
      BY <1>2, <1>17, <1>18, Zenon DEF j, m, sbuf
    <3>4. \A p \in 0..(chunks[d + 1].size - 1) : r.buf[t.j + p] = <<d + 1, AUTH_BYTES + p>>
      BY <1>1, <1>17, <1>18, ZenonT(40) DEF j, m
    <3> QED BY <3>1, <3>2, <3>3, <3>4, Zenon DEF PutBehind
  <2>2. Front(t) \in Seq(StreamByte) /\ Front(r) = Front(t) \o Carried(d + 1)
    BY <1>1, <1>6, <2>1, FrontGrows, Zenon
  <2>3. written \o Front(t) = Payloads(d)
    <3>1. Front(t) = Front(s)
      BY <1>2, Zenon DEF Front, j
    <3> QED BY <1>5, <3>1, Zenon
  <2>4. Carried(d + 1) \in Seq(StreamByte) /\ Payloads(d + 1) = Payloads(d) \o Carried(d + 1)
    <3>1. ASSUME NEW c \in 1..Len(chunks)
          PROVE  Carried(c) \in Seq(StreamByte) /\ Payloads(c) = Payloads(c - 1) \o Carried(c)
      BY <1>6, PayloadSteps
    <3>2. (d + 1) - 1 = d
      BY <1>1
    <3> QED BY <1>1, <3>1, <3>2
  <2> DEFINE f == Front(t)
             g == Front(r)
             c == Carried(d + 1)
             p == Payloads(d)
             q == Payloads(d + 1)
  <2>5. /\ written \in Seq(StreamByte) /\ f \in Seq(StreamByte) /\ c \in Seq(StreamByte)
        /\ g = f \o c /\ written \o f = p /\ q = p \o c
    BY <1>6, <2>2, <2>3, <2>4, Zenon
  <2> HIDE DEF f, g, c, p, q
  <2>6. written \o g = q
    <3>1. (written \o f) \o c = written \o (f \o c)
      BY <2>5, Associates, Zenon
    <3> QED BY <2>5, <3>1, Zenon
  <2> QED BY <2>6, Zenon DEF g, q
<1>21. Gathers(r.chunk) /\ r.chunk.capacity >= 2
  <2>1. d + 1 \in Nat /\ d + 1 <= Len(chunks) /\ 0 \in 0..Top
    BY <1>1, <1>6, <1>7, Starts
  <2>2. \A b \in 1..(d + 1) : chunks[b].good
    <3>1. \A b \in 1..(d + 1) : b \in 1..d \/ b = d + 1
      BY <1>1
    <3> QED BY <1>1, <1>8, <3>1
  <2> QED BY <1>2, <1>8, <1>17, <2>1, <2>2, Zenon DEF Gathers
<1>22. Knows(r.chunk)
  <2>1. d + 1 < Len(chunks) => 0 < SizeOf((d + 1) + 1)
    <3> SUFFICES ASSUME d + 1 < Len(chunks) PROVE 0 < SizeOf((d + 1) + 1)
      OBVIOUS
    <3>1. (d + 1) + 1 \in 1..Len(chunks)
      BY <1>1, <1>6, Starts
    <3> QED BY <1>6, <3>1, Starts
  <2>2. ~(0 >= 2) /\ 0..(0 - 1) = {}
    OBVIOUS
  <2> DEFINE c == r.chunk
  <2>3. c.idx = 0 /\ c.counter = d + 1
    BY <1>17
  <2> HIDE DEF c
  <2>4. Knows(c)
    BY <2>1, <2>2, <2>3 DEF Knows
  <2> QED BY <2>4 DEF c
<1>23. arrived + (i + 1) = Start((d + 1) + 1) + 0 /\ d + 1 >= d0 /\ d + 1 # d0 /\ j + len \in Nat
       /\ j + len + (n - (i + 1)) <= l0 + n /\ j + len + 0 + (n - (i + 1)) <= l0 + n
  <2>1. (d + 1) + 1 = d + 2 /\ d + 1 >= d0 /\ d + 1 # d0 /\ j + len \in Nat /\ j + len + 0 = j + len
    BY <1>1, <1>6
  <2>2. arrived + (i + 1) = Start((d + 1) + 1) + 0
    <3>1. Start(d + 2) \in Int
      <4>1. arrived + (i + 1) \in Int
        BY <1>6
      <4> QED BY <1>1, <4>1, Zenon
    <3> DEFINE S == Start(d + 2)
    <3> HIDE DEF S
    <3>2. S + 0 = S
      BY <3>1 DEF S
    <3> QED BY <1>1, <2>1, <3>2, Zenon DEF S
  <2> QED BY <1>1, <2>1, <2>2
<1>24. /\ arrived + (i + 1) = Start(r.chunk.counter + 1) + r.chunk.idx
       /\ r.buf \in Buffer /\ r.j \in Nat /\ r.k \in Nat /\ r.room \in Nat /\ r.room >= chunk.len + n
       /\ r.k + (n - (i + 1)) <= chunk.len + n
       /\ r.chunk.counter >= chunk.counter /\ r.chunk.counter # chunk.counter
       /\ r.j + r.chunk.idx + (n - (i + 1)) <= chunk.len + n
       /\ written \o Front(r) = Payloads(r.chunk.counter)
  BY <1>11, <1>17, <1>18, <1>20, <1>23, Zenon DEF m, l0, d0
<1>25. \A p \in 0..(n - (i + 1) - 1) : r.buf[r.k + p] = ByteAt(arrived + (i + 1) + p)
  BY <1>17, <1>19, Zenon DEF m
<1> QED BY <1>16, <1>21, <1>22, <1>24, <1>25, Zenon DEF Going

\* A turn of the loop gathers, puts a chunk back, or stops.
LEMMA TurnStep ==
  ASSUME OtaInv, closed = FALSE, NEW n \in Nat, NEW i \in Nat, i < n, arrived + n <= Sent, chunk.len + n <= Top,
         NEW s, Going(n, i, s), NEW r, r = Turn(s, n - (i + 1))
  PROVE  Going(n, i + 1, r) \/ Stopped(n, i + 1, r)
<1> DEFINE t == TakeByte(s)
           left == n - (i + 1)
           whole == t.chunk.idx = t.chunk.len + AUTH_BYTES
           fits == HashFits(t.chunk.buf, t.chunk.len, t.chunk.counter)
<1>1. r = Takes(s, left)
  <2>1. s.refused = FALSE
    BY Zenon DEF Going
  <2> QED BY <2>1, Zenon DEF Turn
<1>2. Took(s, t)
  <2> HIDE DEF t
  <2>1. t = TakeByte(s)
    BY DEF t
  <2> QED BY <2>1, NextByte, Zenon
<1>3. CASE ~whole
  <2>1. r = t
    BY <1>1, <1>3, Zenon DEF Takes
  <2>2. Going(n, i + 1, t)
    BY <1>2, <1>3, GoesOn, Zenon
  <2> QED BY <2>1, <2>2, Zenon
<1>4. CASE whole /\ fits
  <2>1. r = CopyBack(t, left)
    BY <1>1, <1>4, Zenon DEF Takes
  <2>2. Going(n, i + 1, r)
    BY <1>2, <1>4, <2>1, PutsBack, Zenon
  <2> QED BY <2>2, Zenon
<1>5. CASE whole /\ ~fits
  <2>1. r = [t EXCEPT !.refused = TRUE]
    BY <1>1, <1>5, Zenon DEF Takes
  <2>2. Stopped(n, i + 1, r)
    BY <1>2, <1>5, <2>1, StopsAt, Zenon
  <2> QED BY <2>2, Zenon
<1> QED BY <1>3, <1>4, <1>5, Zenon

\* Once stopped it stays so.
LEMMA StaysStopped ==
  ASSUME OtaInv, NEW n \in Nat, NEW i \in Nat, NEW s, Stopped(n, i, s), NEW r, NEW left, r = Turn(s, left)
  PROVE  Stopped(n, i + 1, r)
<1>1. r = s
  <2>1. s.refused = TRUE
    BY Zenon DEF Stopped
  <2> QED BY <2>1, Zenon DEF Turn
<1> DEFINE d == s.chunk.counter
           st == Start(d + 2)
<1>2. /\ d \in Nat /\ d < Len(chunks) /\ arrived + i >= st
  BY Zenon DEF Stopped, Gathers
<1>3. chunks \in Seq(SentChunk) /\ arrived \in Nat
  BY Zenon DEF OtaInv
<1> HIDE DEF d
<1>4. st \in Int
  <2>1. d + 2 \in 1..(Len(chunks) + 1)
    BY <1>2, <1>3, Starts
  <2> QED BY <1>3, <2>1, Starts
<1> HIDE DEF st
<1>5. arrived + (i + 1) >= st
  BY <1>2, <1>3, <1>4
<1>6. arrived + (i + 1) >= Start(s.chunk.counter + 2)
  BY <1>5 DEF st, d
<1>7. Stopped(n, i + 1, s)
  BY <1>6, Zenon DEF Stopped
<1> QED BY <1>1, <1>7, Zenon

\* Where the loop begins, spelled out.
LEMMA BeginIs ==
  ASSUME NEW n, NEW s, s = Begin(n)
  PROVE  /\ s.buf = [p \in 0..Top |-> IF p < n THEN ByteAt(arrived + p) ELSE Junk]
         /\ s.j = 0 /\ s.k = 0 /\ s.room = brealloc(room, chunk.len + n)
         /\ s.chunk.idx = chunk.idx /\ s.chunk.counter = chunk.counter /\ s.chunk.len = chunk.len
         /\ s.chunk.buf = chunk.buf /\ s.chunk.capacity = brealloc(chunk.capacity, chunk.len + n)
<1> DEFINE buf == [p \in 0..Top |-> IF p < n THEN ByteAt(arrived + p) ELSE Junk]
           rm == brealloc(room, chunk.len + n)
           cap == brealloc(chunk.capacity, chunk.len + n)
           c == [idx |-> chunk.idx, counter |-> chunk.counter, len |-> chunk.len, buf |-> chunk.buf,
                 capacity |-> cap]
           r == [buf |-> buf, j |-> 0, k |-> 0, room |-> rm, refused |-> FALSE, overrun |-> overrun, chunk |-> c]
<1>1. s = r
  BY Zenon DEF Begin
<1> HIDE DEF buf, rm, cap
<1>2. c.idx = chunk.idx /\ c.counter = chunk.counter /\ c.len = chunk.len /\ c.buf = chunk.buf /\ c.capacity = cap
  OBVIOUS
<1> HIDE DEF r, c
<1>3. s.buf = buf /\ s.j = 0 /\ s.k = 0 /\ s.room = rm /\ s.chunk = c
  BY <1>1 DEF r
<1> QED BY <1>2, <1>3, Zenon DEF buf, rm, cap

\* The flags where the loop begins.
LEMMA BeginFlags ==
  ASSUME NEW n, NEW s, s = Begin(n), overrun = FALSE
  PROVE  s.refused = FALSE /\ s.overrun = FALSE
<1>1. Begin(n).refused = FALSE
  BY Zenon DEF Begin
<1>2. Begin(n).overrun = overrun
  BY Zenon DEF Begin
<1> QED BY <1>1, <1>2, Zenon

\* The bytes just read are where the loop looks for them, and both buffers have room.
LEMMA BeginGoing ==
  ASSUME OtaInv, closed = FALSE, NEW n \in Nat, arrived + n <= Sent, chunk.len + n <= Top, NEW s, s = Begin(n)
  PROVE  Going(n, 0, s)
<1> DEFINE d0 == chunk.counter
           x0 == chunk.idx
           l0 == chunk.len
           c0 == chunk.capacity
           want == l0 + n
           sbuf == s.buf
           E(p) == IF p < n THEN ByteAt(arrived + p) ELSE Junk
<1>1. /\ sbuf = [p \in 0..Top |-> E(p)]
      /\ s.j = 0 /\ s.k = 0 /\ s.room = brealloc(room, want)
      /\ s.chunk.idx = x0 /\ s.chunk.counter = d0 /\ s.chunk.len = l0
      /\ s.chunk.buf = chunk.buf /\ s.chunk.capacity = brealloc(c0, want)
  BY BeginIs
<1>2. s.refused = FALSE /\ s.overrun = FALSE
  <2>1. overrun = FALSE
    BY Zenon DEF OtaInv
  <2> QED BY <2>1, BeginFlags, Zenon
<1>3. /\ chunks \in Seq(SentChunk) /\ Len(chunks) <= MaxChunks /\ arrived \in Nat /\ room \in Nat
      /\ arrived = Start(d0 + 1) + x0 /\ written = Payloads(d0) /\ written \in Seq(StreamByte)
      /\ Gathers(chunk) /\ Knows(chunk)
  BY Zenon DEF OtaInv
<1>4. /\ x0 \in 0..Top /\ l0 \in ChunkSizes \cup {0} /\ c0 \in Nat /\ chunk.buf \in Buffer
      /\ d0 \in Nat /\ d0 <= Len(chunks) /\ \A b \in 1..d0 : chunks[b].good
  BY <1>3, Zenon DEF Gathers
<1>5. /\ d0 < Len(chunks) => x0 < SizeOf(d0 + 1)
      /\ \A p \in 0..(x0 - 1) : chunk.buf[p] = <<d0 + 1, p>>
      /\ x0 >= 2 => l0 = chunks[d0 + 1].size /\ c0 >= l0 + AUTH_BYTES
  BY <1>3, Zenon DEF Knows
<1>6. /\ ChunkSizes \subseteq Nat /\ Top \in Nat /\ BufferSize \in Nat /\ BufferSize >= 2 /\ MaxChunks \in Nat
      /\ AUTH_BYTES \in Nat
  BY OtaAssumption DEF CLEN_BYTES
<1>25. want <= Top
  OBVIOUS
<1> HIDE DEF d0, x0, l0, c0, sbuf
<1>7. l0 \in Nat
  BY <1>4, <1>6
<1>8. want \in Nat
  BY <1>7
<1> DEFINE cap == brealloc(c0, want)
           rm == brealloc(room, want)
<1>9. /\ cap \in Nat /\ cap >= c0 /\ cap >= want /\ cap >= BufferSize
      /\ rm \in Nat /\ rm >= want
  BY <1>3, <1>4, <1>8, BreallocIs
<1> HIDE DEF cap, rm
<1>10. cap >= 2
  BY <1>6, <1>9
<1>11. x0 >= 2 => l0 = chunks[d0 + 1].size /\ cap >= l0 + AUTH_BYTES
  BY <1>4, <1>5, <1>6, <1>7, <1>9
<1>12. n <= Top
  BY <1>6, <1>7, <1>25
<1>13. sbuf \in Buffer /\ \A p \in 0..(n - 1) : sbuf[p] = ByteAt(arrived + p)
  <2>1. ASSUME NEW p \in 0..Top PROVE E(p) \in StreamByte
    <3>1. CASE p < n
      <4>1. arrived + p \in Nat /\ arrived + p < Sent
        <5>1. Sent \in Int
          BY <1>3, Starts DEF Sent
        <5> QED BY <1>3, <1>6, <3>1, <5>1
      <4>2. ByteAt(arrived + p) \in StreamByte
        BY <1>3, <4>1, EveryByte
      <4> QED BY <3>1, <4>2
    <3>2. CASE ~(p < n)
      BY <1>6, <3>2 DEF Junk, StreamByte
    <3> QED BY <3>1, <3>2
  <2>2. [p \in 0..Top |-> E(p)] \in Buffer
    BY <2>1 DEF Buffer
  <2>3. ASSUME NEW p \in 0..(n - 1) PROVE sbuf[p] = ByteAt(arrived + p)
    <3>1. p \in 0..Top /\ p < n
      BY <1>6, <1>12
    <3> QED BY <1>1, <3>1
  <2> QED BY <1>1, <2>2, <2>3
<1>14. Gathers(s.chunk)
  BY <1>1, <1>4, <1>9, Zenon DEF Gathers, cap
<1>15. Knows(s.chunk)
  <2>1. s.chunk.counter < Len(chunks) => s.chunk.idx < SizeOf(s.chunk.counter + 1)
    BY <1>1, <1>5, Zenon
  <2>2. \A p \in 0..(s.chunk.idx - 1) : s.chunk.buf[p] = <<s.chunk.counter + 1, p>>
    BY <1>1, <1>5, Zenon
  <2>3. s.chunk.idx >= 2 => s.chunk.len = chunks[s.chunk.counter + 1].size
                            /\ s.chunk.capacity >= s.chunk.len + AUTH_BYTES
    BY <1>1, <1>11, Zenon DEF cap
  <2> QED BY <2>1, <2>2, <2>3, Zenon DEF Knows
<1>16. ASSUME NEW p \in 0..(n - 0 - 1) PROVE sbuf[0 + p] = ByteAt(arrived + 0 + p)
  <2>1. p \in 0..(n - 1) /\ 0 + p = p /\ arrived + 0 + p = arrived + p
    BY <1>3
  <2> QED BY <1>13, <2>1
<1>17. arrived + 0 = Start(d0 + 1) + x0 /\ 0 + (n - 0) <= want /\ x0 = x0 + 0 /\ d0 >= d0
  <2>1. arrived + 0 = arrived
    BY <1>3
  <2>2. 0 + (n - 0) <= want /\ x0 = x0 + 0 /\ d0 >= d0
    BY <1>4, <1>7
  <2> QED BY <1>3, <2>1, <2>2 DEF d0, x0
<1>18. written \o Front(s) = Payloads(d0)
  <2>1. Front(s) = <<>>
    <3>1. 1..s.j = {}
      BY <1>1
    <3> QED BY <3>1 DEF Front
  <2>2. \A w \in Seq(StreamByte) : w \o <<>> = w
    OBVIOUS
  <2>3. written \o <<>> = written
    BY <1>3, <2>2
  <2>4. written = Payloads(d0)
    BY <1>3, Zenon DEF d0
  <2> QED BY <2>1, <2>3, <2>4, Zenon
<1>19. s.chunk.capacity >= 2
  BY <1>1, <1>10 DEF cap
<1>20. /\ arrived + 0 = Start(s.chunk.counter + 1) + s.chunk.idx
       /\ s.buf \in Buffer /\ s.j \in Nat /\ s.k \in Nat /\ s.room \in Nat /\ s.room >= chunk.len + n
       /\ s.k + (n - 0) <= chunk.len + n
       /\ s.chunk.counter >= chunk.counter
       /\ written \o Front(s) = Payloads(s.chunk.counter)
  <2>1. s.j \in Nat /\ s.k \in Nat
    BY <1>1
  <2> QED BY <1>1, <1>9, <1>13, <1>17, <1>18, <2>1, Zenon DEF sbuf, d0, l0, rm
<1>21. \A p \in 0..(n - 0 - 1) : s.buf[s.k + p] = ByteAt(arrived + 0 + p)
  BY <1>1, <1>16, Zenon DEF sbuf
<1>22. s.chunk.counter = chunk.counter => s.j = 0 /\ s.chunk.idx = chunk.idx + 0
  BY <1>1, <1>17, Zenon DEF x0, d0
<1>23. s.chunk.counter # chunk.counter => s.j + s.chunk.idx + (n - 0) <= chunk.len + n
  BY <1>1, Zenon DEF d0
<1> QED BY <1>2, <1>14, <1>15, <1>19, <1>20, <1>21, <1>22, <1>23, Zenon DEF Going

\* After the loop every byte of the read has been gathered, or a hash did not fit.
LEMMA LoopEnds ==
  ASSUME OtaInv, closed = FALSE, NEW n \in Nat, arrived + n <= Sent, chunk.len + n <= Top,
         NEW s, s = ss_check_hash(n)
  PROVE  Going(n, n, s) \/ Stopped(n, n, s)
<1>1. PICK f : /\ ss_check_hash(n) = f[n] /\ f[0] = Begin(n)
               /\ \A i \in 1..n : f[i] = Turn(f[i - 1], n - i)
  BY LoopTurns
<1> DEFINE S == {i \in 0..n : Going(n, i, f[i]) \/ Stopped(n, i, f[i])}
<1>2. 0 \in S
  <2>1. Going(n, 0, f[0])
    BY <1>1, BeginGoing, Zenon
  <2>2. 0 \in 0..n
    OBVIOUS
  <2> QED BY <2>1, <2>2, Zenon
<1>3. ASSUME NEW i \in 0..n, i < n, i \in S PROVE i + 1 \in S
  <2>1. i \in Nat /\ i + 1 \in 0..n /\ i + 1 \in 1..n /\ (i + 1) - 1 = i
    BY <1>3
  <2>2. f[i + 1] = Turn(f[i], n - (i + 1))
    <3>1. f[i + 1] = Turn(f[(i + 1) - 1], n - (i + 1))
      BY <1>1, <2>1, Zenon
    <3> QED BY <2>1, <3>1, Zenon
  <2>3. CASE Going(n, i, f[i])
    BY <1>3, <2>1, <2>2, <2>3, TurnStep, Zenon
  <2>4. CASE Stopped(n, i, f[i])
    BY <2>1, <2>2, <2>4, StaysStopped, Zenon
  <2> QED BY <1>3, <2>3, <2>4, Zenon
<1>4. \A i \in 0..n : i \in S
  <2> HIDE DEF S
  <2> QED BY <1>2, <1>3, UpTo
<1>5. n \in S
  <2>1. n \in 0..n
    OBVIOUS
  <2> QED BY <1>4, <2>1, Zenon
<1> QED BY <1>1, <1>5, Zenon

\* Nothing has been sent when the server accepts the connection.
LEMMA OtaStarts == OtaInit => OtaInv
<1> SUFFICES ASSUME OtaInit PROVE OtaInv
  OBVIOUS
<1>1. /\ chunks = <<>> /\ arrived = 0 /\ room = BufferSize /\ written = <<>> /\ closed = FALSE /\ overrun = FALSE
      /\ chunk = [idx |-> 0, len |-> 0, counter |-> 0, buf |-> Empty, capacity |-> 0]
  BY Zenon DEF OtaInit
<1>2. chunk.idx = 0 /\ chunk.len = 0 /\ chunk.counter = 0 /\ chunk.buf = Empty /\ chunk.capacity = 0
  BY <1>1
<1>3. /\ Top \in Nat /\ BufferSize \in Nat /\ MaxChunks \in Nat /\ AUTH_BYTES \in Nat
  BY OtaAssumption
<1>4. chunks \in Seq(SentChunk) /\ Len(chunks) = 0 /\ Len(chunks) <= MaxChunks
  BY <1>1, <1>3
<1>5. Start(1) = 0 /\ 0 + 1 = 1 /\ Payloads(0) = <<>>
  BY <1>4, Starts, PayloadSteps
<1>6. Sent = 0
  BY <1>4, <1>5 DEF Sent
<1>7. Empty \in Buffer
  BY <1>3 DEF Empty, Junk, Buffer, StreamByte
<1>8. Gathers(chunk)
  <2>1. 0 \in 0..Top /\ 0 \in ChunkSizes \cup {0} /\ 0 \in Nat /\ 0 <= Len(chunks) /\ 1..0 = {}
    BY <1>3, <1>4
  <2> QED BY <1>2, <1>7, <2>1, Zenon DEF Gathers
<1>9. Knows(chunk)
  <2>1. ~(0 < Len(chunks)) /\ 0..(0 - 1) = {} /\ ~(0 >= 2)
    BY <1>4
  <2> QED BY <1>2, <2>1 DEF Knows
<1>10. /\ arrived \in Nat /\ arrived <= Sent /\ room \in Nat /\ written \in Seq(StreamByte)
       /\ arrived = Start(chunk.counter + 1) + chunk.idx /\ written = Payloads(chunk.counter)
  BY <1>1, <1>2, <1>3, <1>5, <1>6
<1>11. closed \in BOOLEAN /\ closed = FALSE /\ overrun = FALSE /\ ~(closed = TRUE)
  BY <1>1, Zenon
<1> QED BY <1>4, <1>8, <1>9, <1>10, <1>11, Zenon DEF OtaInv

\* What Starts says of the chunks there are then.
LEMMA StartsLater ==
  (chunks \in Seq(SentChunk))' =>
    /\ \A c \in 1..Len(chunks') : SizeOf(c)' \in Nat /\ SizeOf(c)' > 2
    /\ \A c \in 1..Len(chunks') : Start(c + 1)' = Start(c)' + SizeOf(c)'
<1>1. chunks \in Seq(SentChunk) =>
        /\ \A c \in 1..Len(chunks) : SizeOf(c) \in Nat /\ SizeOf(c) > 2
        /\ \A c \in 1..Len(chunks) : Start(c + 1) = Start(c) + SizeOf(c)
  BY Starts
<1>2. (chunks \in Seq(SentChunk) =>
        /\ \A c \in 1..Len(chunks) : SizeOf(c) \in Nat /\ SizeOf(c) > 2
        /\ \A c \in 1..Len(chunks) : Start(c + 1) = Start(c) + SizeOf(c))'
  BY <1>1, PTL
<1> QED BY <1>2

\* Another chunk sent moves nothing of those before it.
LEMMA OtaSends ==
  ASSUME OtaInv, NEW n \in ChunkSizes, ss_gen_hash(n)
  PROVE  OtaInv'
<1>0. PICK d, x, L : d = chunk.counter /\ x = chunk.idx /\ L = Len(chunks)
  OBVIOUS
<1>1. /\ chunks \in Seq(SentChunk) /\ L <= MaxChunks
      /\ arrived \in Nat /\ arrived <= Sent /\ room \in Nat /\ written \in Seq(StreamByte) /\ Gathers(chunk)
  BY <1>0, Zenon DEF OtaInv
<1>2. /\ arrived' = arrived /\ chunk' = chunk /\ room' = room /\ written' = written /\ L < MaxChunks
  BY <1>0 DEF ss_gen_hash
<1>3. closed' = closed /\ overrun' = overrun
  BY Zenon DEF ss_gen_hash
<1>4. PICK good \in BOOLEAN : chunks' = Append(chunks, [size |-> n, good |-> good])
  BY Zenon DEF ss_gen_hash
<1>5. [size |-> n, good |-> good] \in SentChunk
  BY Zenon DEF SentChunk
<1>6. /\ chunks' \in Seq(SentChunk) /\ Len(chunks') = L + 1
      /\ \A c \in 1..L : chunks'[c] = chunks[c] /\ SizeOf(c)' = SizeOf(c)
      /\ \A c \in 1..(L + 1) : Start(c)' = Start(c)
      /\ \A c \in 0..L : Payloads(c)' = Payloads(c)
  <2> DEFINE new == [size |-> n, good |-> good]
  <2>1. new \in SentChunk /\ chunks' = Append(chunks, new)
    BY <1>4, <1>5
  <2> HIDE DEF new
  <2> QED BY <1>0, <1>1, <2>1, ChunksStay
<1>7. /\ x \in 0..Top /\ chunk.len \in ChunkSizes \cup {0} /\ chunk.capacity \in Nat /\ chunk.buf \in Buffer
      /\ d \in Nat /\ d <= L /\ \A b \in 1..d : chunks[b].good
  BY <1>0, <1>1, Zenon DEF Gathers
<1>8. /\ L \in Nat /\ Start(L + 1) \in Int /\ Sent = Start(L + 1)
      /\ Top \in Nat /\ MaxChunks \in Nat /\ AUTH_BYTES \in Nat
  BY <1>0, <1>1, Starts, OtaAssumption DEF Sent
<1>9. Len(chunks') <= MaxChunks
  BY <1>2, <1>6, <1>8
<1>10. \A b \in 1..d : chunks'[b].good
  <2>1. \A b \in 1..d : b \in 1..L
    BY <1>7, <1>8
  <2> QED BY <1>6, <1>7, <2>1, Zenon
<1>11. Gathers(chunk)'
  <2>1. d <= Len(chunks')
    BY <1>6, <1>7, <1>8
  <2> QED BY <1>0, <1>2, <1>7, <1>10, <2>1, Zenon DEF Gathers, Buffer
<1>12. SizeOf(L + 1)' \in Nat /\ SizeOf(L + 1)' > 2 /\ Start((L + 1) + 1)' = Start(L + 1)' + SizeOf(L + 1)'
  <2>1. L + 1 \in 1..Len(chunks')
    BY <1>6, <1>8
  <2> QED BY <1>6, <2>1, StartsLater
<1>13. arrived' <= Sent'
  <2>1. L + 1 \in 1..(L + 1)
    BY <1>8
  <2>2. Start(L + 1)' = Start(L + 1)
    BY <1>6, <2>1
  <2>3. Sent' = Start((L + 1) + 1)'
    BY <1>6, Zenon DEF Sent
  <2> QED BY <1>1, <1>2, <1>8, <1>12, <2>2, <2>3
<1>14. ASSUME closed = FALSE
       PROVE  Knows(chunk)' /\ arrived' = Start(chunk.counter + 1)' + chunk.idx'
              /\ written' = Payloads(chunk.counter)'
  <2>1. Knows(chunk) /\ arrived = Start(d + 1) + x /\ written = Payloads(d)
    BY <1>0, <1>14, Zenon DEF OtaInv
  <2>2. d + 1 \in 1..(L + 1) /\ d \in 0..L
    BY <1>7, <1>8
  <2>3. Start(d + 1)' = Start(d + 1) /\ Payloads(d)' = Payloads(d)
    BY <1>6, <2>2
  <2>4. chunk'.counter = d /\ chunk'.idx = x
    BY <1>0, <1>2
  <2>5. arrived' = Start(chunk.counter + 1)' + chunk.idx' /\ written' = Payloads(chunk.counter)'
    BY <1>2, <2>1, <2>3, <2>4, Zenon
  <2>6. /\ d < L => x < SizeOf(d + 1)
        /\ \A p \in 0..(x - 1) : chunk.buf[p] = <<d + 1, p>>
        /\ x >= 2 => chunk.len = chunks[d + 1].size /\ chunk.capacity >= chunk.len + AUTH_BYTES
    BY <1>0, <2>1, Zenon DEF Knows
  <2>7. x < SizeOf(d + 1)' /\ (x >= 2 => chunk.len = chunks'[d + 1].size /\ chunk.capacity >= chunk.len + AUTH_BYTES)
    <3>1. CASE d < L
      <4>1. d + 1 \in 1..L
        BY <1>7, <1>8, <3>1
      <4>2. SizeOf(d + 1)' = SizeOf(d + 1) /\ chunks'[d + 1] = chunks[d + 1]
        BY <1>6, <4>1, Zenon
      <4> QED BY <2>6, <3>1, <4>2, Zenon
    <3>2. CASE ~(d < L)
      <4>1. d = L
        BY <1>7, <1>8, <3>2
      <4>2. x = 0
        BY <1>1, <1>7, <1>8, <2>1, <4>1
      <4>3. 0 < SizeOf(L + 1)' /\ ~(0 >= 2)
        BY <1>12
      <4> QED BY <4>1, <4>2, <4>3, Zenon
    <3> QED BY <3>1, <3>2
  <2>8. Knows(chunk)'
    BY <1>2, <2>4, <2>6, <2>7, Zenon DEF Knows
  <2> QED BY <2>5, <2>8
<1>15. ASSUME closed = TRUE
       PROVE  /\ chunk'.counter < Len(chunks') /\ ~chunks'[chunk'.counter + 1].good
              /\ arrived' >= Start(chunk.counter + 2)'
              /\ \E c \in 0..chunk'.counter : written' = Payloads(c)'
  <2>1. /\ d < L /\ ~chunks[d + 1].good /\ arrived >= Start(d + 2) /\ \E c \in 0..d : written = Payloads(c)
    BY <1>0, <1>15, Zenon DEF OtaInv
  <2>2. d + 1 \in 1..L /\ d + 2 \in 1..(L + 1) /\ d < Len(chunks') /\ \A c \in 0..d : c \in 0..L
    BY <1>6, <1>7, <1>8, <2>1
  <2>3. chunks'[d + 1] = chunks[d + 1] /\ Start(d + 2)' = Start(d + 2)
    BY <1>6, <2>2, Zenon
  <2>4. PICK c \in 0..d : written = Payloads(c)
    BY <2>1
  <2>5. written' = Payloads(c)'
    BY <1>2, <1>6, <2>2, <2>4
  <2>6. chunk'.counter = d
    BY <1>0, <1>2
  <2> QED BY <1>2, <2>1, <2>2, <2>3, <2>5, <2>6, Zenon
<1>16. overrun' = FALSE /\ closed' \in BOOLEAN /\ arrived' \in Nat /\ room' \in Nat /\ written' \in Seq(StreamByte)
  <2>1. overrun' = FALSE /\ closed' \in BOOLEAN
    BY <1>3, Zenon DEF OtaInv
  <2> QED BY <1>1, <1>2, <2>1, Zenon
<1>17. /\ closed' = FALSE => /\ Knows(chunk)' /\ arrived' = Start(chunk.counter + 1)' + chunk.idx'
                             /\ written' = Payloads(chunk.counter)'
       /\ closed' = TRUE =>
            /\ chunk'.counter < Len(chunks') /\ ~chunks'[chunk'.counter + 1].good
            /\ arrived' >= Start(chunk.counter + 2)'
            /\ \E c \in 0..chunk'.counter : written' = Payloads(c)'
  BY <1>3, <1>14, <1>15, Zenon
<1> QED BY <1>6, <1>9, <1>11, <1>13, <1>16, <1>17, Zenon DEF OtaInv

\* The chunks sent do not change when the server reads.
LEMMA ChunksSame ==
  ASSUME chunks' = chunks
  PROVE  /\ \A c : Start(c)' = Start(c) /\ SizeOf(c)' = SizeOf(c) /\ Payloads(c)' = Payloads(c)
         /\ Sent' = Sent
         /\ \A c : Gathers(c) => Gathers(c)'
         /\ \A c : Knows(c) => Knows(c)'
<1>1. \A c : SizeOf(c)' = SizeOf(c) /\ Carried(c)' = Carried(c)
  BY DEF SizeOf, Carried
<1>2. \A c : Start(c)' = Start(c) /\ Payloads(c)' = Payloads(c)
  BY <1>1 DEF Start, Payloads
<1>3. Sent' = Sent
  BY <1>2 DEF Sent
<1>4. \A c : Gathers(c) => Gathers(c)'
  BY Zenon DEF Gathers, Buffer
<1>5. \A c : Knows(c) => Knows(c)'
  BY <1>1, Zenon DEF Knows
<1> QED BY <1>1, <1>2, <1>3, <1>4, <1>5

\* What is kept of the chunk, spelled out.
LEMMA KeptIs ==
  ASSUME NEW s, NEW c, c = Kept(s)
  PROVE  /\ s.refused = FALSE => c.idx = s.chunk.idx
         /\ s.refused = TRUE => c.idx = chunk.idx
         /\ c.counter = s.chunk.counter /\ c.len = s.chunk.len /\ c.buf = s.chunk.buf
         /\ c.capacity = s.chunk.capacity
<1> DEFINE x == IF s.refused THEN chunk.idx ELSE s.chunk.idx
           r == [idx |-> x, counter |-> s.chunk.counter, len |-> s.chunk.len, buf |-> s.chunk.buf,
                 capacity |-> s.chunk.capacity]
<1>1. c = r
  BY Zenon DEF Kept
<1>2. (s.refused = FALSE => x = s.chunk.idx) /\ (s.refused = TRUE => x = chunk.idx)
  BY Zenon
<1> HIDE DEF x
<1>3. /\ r.idx = x /\ r.counter = s.chunk.counter /\ r.len = s.chunk.len /\ r.buf = s.chunk.buf
      /\ r.capacity = s.chunk.capacity
  OBVIOUS
<1> HIDE DEF r
<1> QED BY <1>1, <1>2, <1>3, Zenon

\* A read that leaves the next chunk being gathered.
LEMMA ReadGoes ==
  ASSUME OtaInv, closed = FALSE, NEW n \in Nat, StreamRead(n), NEW s, s = ss_check_hash(n), Going(n, n, s)
  PROVE  OtaInv'
<1>1. /\ chunks \in Seq(SentChunk) /\ Len(chunks) <= MaxChunks /\ arrived \in Nat
  BY Zenon DEF OtaInv
<1>2. /\ arrived + n <= Sent /\ arrived' = arrived + n /\ chunk' = Kept(s) /\ room' = s.room /\ chunks' = chunks
  BY Zenon DEF StreamRead
<1>3. s.refused = FALSE /\ s.overrun = FALSE
  BY Zenon DEF Going
<1>4. closed' = FALSE /\ overrun' = FALSE
  BY <1>3, Zenon DEF StreamRead
<1>5. written' = written \o Front(s)
  BY <1>3, Zenon DEF StreamRead, Front
<1>15. PICK c : c = Kept(s)
  OBVIOUS
<1>14. /\ c.idx = s.chunk.idx /\ c.counter = s.chunk.counter /\ c.len = s.chunk.len /\ c.buf = s.chunk.buf
       /\ c.capacity = s.chunk.capacity
  BY <1>3, <1>15, KeptIs, Zenon
<1>6. /\ Gathers(c) /\ Knows(c) /\ arrived + n = Start(c.counter + 1) + c.idx /\ s.room \in Nat
      /\ written \o Front(s) = Payloads(c.counter)
  <2>1. /\ Gathers(s.chunk) /\ Knows(s.chunk) /\ arrived + n = Start(s.chunk.counter + 1) + s.chunk.idx
        /\ s.room \in Nat /\ written \o Front(s) = Payloads(s.chunk.counter)
    BY Zenon DEF Going
  <2>2. Gathers(c)
    BY <1>14, <2>1, Zenon DEF Gathers
  <2>3. Knows(c)
    BY <1>14, <2>1, Zenon DEF Knows
  <2> QED BY <1>14, <2>1, <2>2, <2>3, Zenon
<1>7. c.counter \in Nat /\ c.counter <= Len(chunks)
  BY <1>6, Zenon DEF Gathers
<1>8. /\ Start(c.counter + 1)' = Start(c.counter + 1) /\ Payloads(c.counter)' = Payloads(c.counter) /\ Sent' = Sent
      /\ Gathers(c)' /\ Knows(c)'
  BY <1>2, <1>6, ChunksSame, Zenon
<1>9. Gathers(chunk)' /\ Knows(chunk)'
  <2>1. chunk' = c
    BY <1>2, <1>15, Zenon
  <2>2. Gathers(chunk)'
    BY <1>8, <2>1, Zenon DEF Gathers, Buffer
  <2>3. Knows(chunk)'
    BY <1>8, <2>1, Zenon DEF Knows
  <2> QED BY <2>2, <2>3
<1>10. arrived' = Start(chunk.counter + 1)' + chunk.idx' /\ written' = Payloads(chunk.counter)'
  <2>1. chunk' = c
    BY <1>2, <1>15, Zenon
  <2> QED BY <1>2, <1>5, <1>6, <1>8, <2>1, Zenon
<1>11. written' \in Seq(StreamByte)
  <2>1. c.counter \in 0..Len(chunks)
    BY <1>1, <1>7, Starts
  <2>2. Payloads(c.counter) \in Seq(StreamByte)
    BY <1>1, <2>1, PayloadSteps
  <2> QED BY <1>5, <1>6, <2>2, Zenon
<1>12. arrived' \in Nat /\ arrived' <= Sent' /\ room' \in Nat /\ chunks' \in Seq(SentChunk) /\ Len(chunks') <= MaxChunks
  BY <1>1, <1>2, <1>6, <1>8
<1>13. closed' \in BOOLEAN /\ ~(closed' = TRUE)
  BY <1>4, Zenon
<1> QED BY <1>4, <1>9, <1>10, <1>11, <1>12, <1>13, Zenon DEF OtaInv

\* A read in which a hash does not fit closes the connection and hands nothing on.
LEMMA ReadStops ==
  ASSUME OtaInv, closed = FALSE, NEW n \in Nat, StreamRead(n), NEW s, s = ss_check_hash(n), Stopped(n, n, s)
  PROVE  OtaInv'
<1>1. /\ chunks \in Seq(SentChunk) /\ Len(chunks) <= MaxChunks /\ arrived \in Nat
      /\ written = Payloads(chunk.counter) /\ written \in Seq(StreamByte) /\ Gathers(chunk)
  BY Zenon DEF OtaInv
<1>2. /\ arrived + n <= Sent /\ arrived' = arrived + n /\ chunk' = Kept(s) /\ room' = s.room /\ chunks' = chunks
  BY Zenon DEF StreamRead
<1>3. s.refused = TRUE /\ s.overrun = FALSE
  BY Zenon DEF Stopped
<1>4. closed' = TRUE /\ overrun' = FALSE /\ written' = written
  BY <1>3, Zenon DEF StreamRead
<1>0. PICK d0 : d0 = chunk.counter
  OBVIOUS
<1>15. PICK c : c = Kept(s)
  OBVIOUS
<1>14. /\ c.idx = chunk.idx /\ c.counter = s.chunk.counter /\ c.len = s.chunk.len /\ c.buf = s.chunk.buf
       /\ c.capacity = s.chunk.capacity
  BY <1>3, <1>15, KeptIs, Zenon
<1>5. /\ s.room \in Nat /\ Gathers(c) /\ c.counter >= d0
      /\ c.counter < Len(chunks) /\ ~chunks[c.counter + 1].good
      /\ arrived + n >= Start(c.counter + 2)
  <2>1. /\ s.room \in Nat /\ Gathers(s.chunk) /\ s.chunk.counter >= d0
        /\ s.chunk.counter < Len(chunks) /\ ~chunks[s.chunk.counter + 1].good
        /\ arrived + n >= Start(s.chunk.counter + 2)
    BY <1>0, Zenon DEF Stopped
  <2>2. chunk.idx \in 0..Top
    BY <1>1, Zenon DEF Gathers
  <2>3. Gathers(c)
    BY <1>14, <2>1, <2>2, Zenon DEF Gathers
  <2> QED BY <1>14, <2>1, <2>3, Zenon
<1>6. d0 \in Nat /\ c.counter \in Nat
  BY <1>0, <1>1, <1>5, Zenon DEF Gathers
<1>7. /\ Start(c.counter + 2)' = Start(c.counter + 2) /\ Payloads(d0)' = Payloads(d0) /\ Sent' = Sent
      /\ Gathers(c)'
  BY <1>2, <1>5, ChunksSame, Zenon
<1>8. chunk' = c
  BY <1>2, <1>15, Zenon
<1>9. Gathers(chunk)'
  BY <1>7, <1>8, Zenon DEF Gathers, Buffer
<1>10. /\ chunk'.counter < Len(chunks') /\ ~chunks'[chunk'.counter + 1].good
       /\ arrived' >= Start(chunk.counter + 2)'
  BY <1>2, <1>5, <1>7, <1>8, Zenon
<1>11. \E b \in 0..chunk'.counter : written' = Payloads(b)'
  <2>1. d0 \in 0..c.counter
    BY <1>5, <1>6
  <2>2. written' = Payloads(d0)'
    BY <1>0, <1>1, <1>4, <1>7, Zenon
  <2> QED BY <1>8, <2>1, <2>2, Zenon
<1>12. arrived' \in Nat /\ arrived' <= Sent' /\ room' \in Nat /\ chunks' \in Seq(SentChunk) /\ Len(chunks') <= MaxChunks
       /\ written' \in Seq(StreamByte)
  BY <1>1, <1>2, <1>4, <1>5, <1>7
<1>13. closed' \in BOOLEAN /\ ~(closed' = FALSE)
  BY <1>4, Zenon
<1> QED BY <1>4, <1>9, <1>10, <1>11, <1>12, <1>13, Zenon DEF OtaInv

\* What the server has gathered and handed on is what chunks it has of the client's, at every step.
THEOREM ChunksGathered == OtaSpec => []OtaInv
<1>1. OtaInit => OtaInv
  BY OtaStarts
<1>2. OtaInv /\ [OtaNext]_ota_vars => OtaInv'
  <2> SUFFICES ASSUME OtaInv, [OtaNext]_ota_vars PROVE OtaInv'
    OBVIOUS
  <2>1. ASSUME NEW n \in ChunkSizes, ss_gen_hash(n) PROVE OtaInv'
    BY <2>1, OtaSends
  <2>2. ASSUME NEW n \in ReadSizes, StreamRead(n) PROVE OtaInv'
    <3>1. closed = FALSE
      <4>1. ~closed
        BY <2>2, Zenon DEF StreamRead
      <4>2. closed \in BOOLEAN
        BY Zenon DEF OtaInv
      <4> QED BY <4>1, <4>2, Zenon
    <3>2. n \in Nat /\ n <= BufferSize /\ BufferSize \in Nat
      BY OtaAssumption
    <3>3. arrived + n <= Sent
      BY <2>2, Zenon DEF StreamRead
    <3>4. chunk.len + n <= Top
      <4> DEFINE l0 == chunk.len
      <4>1. l0 \in ChunkSizes \cup {0}
        BY Zenon DEF OtaInv, Gathers
      <4> HIDE DEF l0
      <4>2. l0 \in Nat /\ AUTH_BYTES \in Nat /\ l0 + AUTH_BYTES + BufferSize <= Top /\ Top \in Nat
        BY <4>1, OtaAssumption
      <4>3. l0 + n <= Top
        BY <3>2, <4>2
      <4> QED BY <4>3 DEF l0
    <3>5. PICK s : s = ss_check_hash(n)
      OBVIOUS
    <3>6. CASE Going(n, n, s)
      BY <2>2, <3>1, <3>2, <3>5, <3>6, ReadGoes, Zenon
    <3>7. CASE Stopped(n, n, s)
      BY <2>2, <3>1, <3>2, <3>5, <3>7, ReadStops, Zenon
    <3>8. Going(n, n, s) \/ Stopped(n, n, s)
      BY <3>1, <3>2, <3>3, <3>4, <3>5, LoopEnds, Zenon
    <3> QED BY <3>6, <3>7, <3>8, Zenon
  <2>3. CASE UNCHANGED ota_vars
    <3>1. /\ chunks' = chunks /\ arrived' = arrived /\ chunk' = chunk /\ room' = room /\ written' = written
          /\ closed' = closed /\ overrun' = overrun
      BY <2>3, Zenon DEF ota_vars
    <3> QED BY <3>1, Zenon DEF OtaInv, Gathers, Knows, Buffer, SizeOf, Start, Sent, Payloads, Carried
  <2> QED BY <2>1, <2>2, <2>3, Zenon DEF OtaNext
<1> QED BY <1>1, <1>2, PTL DEF OtaSpec

\* The variables have their types, and no chunk, however long or however cut, is written past the
\* end of the buffer it is gathered in or of the one it is put back into.
THEOREM ChunksInside == OtaSpec => []OtaTypeOK
<1>1. OtaInv => OtaTypeOK
  <2> SUFFICES ASSUME OtaInv PROVE OtaTypeOK
    OBVIOUS
  <2>1. /\ chunks \in Seq(SentChunk) /\ Len(chunks) <= MaxChunks /\ arrived \in Nat /\ arrived <= Sent
        /\ room \in Nat /\ written \in Seq(StreamByte) /\ Gathers(chunk)
    BY Zenon DEF OtaInv
  <2>2. closed \in BOOLEAN /\ ~overrun
    BY Zenon DEF OtaInv
  <2> DEFINE d == chunk.counter
  <2>3. /\ chunk.idx \in 0..Top /\ chunk.len \in ChunkSizes \cup {0} /\ chunk.buf \in Buffer
        /\ d \in Nat /\ d <= Len(chunks)
    BY <2>1, Zenon DEF Gathers
  <2> HIDE DEF d
  <2>4. arrived \in 0..Sent
    <3>1. Sent \in Int
      BY <2>1, Starts DEF Sent
    <3> QED BY <2>1, <3>1
  <2>5. d \in 0..MaxChunks
    <3>1. Len(chunks) \in Nat /\ MaxChunks \in Nat
      BY <2>1, Starts, OtaAssumption
    <3> QED BY <2>1, <2>3, <3>1
  <2>6. \A p \in 0..Top : chunk.buf[p] \in StreamByte
    BY <2>3 DEF Buffer
  <2>7. chunks \in Seq([size : ChunkSizes, good : BOOLEAN])
    BY <2>1, Zenon DEF SentChunk
  <2> QED BY <2>1, <2>2, <2>3, <2>4, <2>5, <2>6, <2>7, Zenon DEF OtaTypeOK, d
<1> QED BY <1>1, ChunksGathered, PTL

\* However TCP cuts the stream, the remote gets the payload of the whole chunks, in order and each
\* once, and nothing of one whose hash is wrong.
THEOREM ChunksReassembled == OtaSpec => []Reassembled
<1>1. OtaInv => Reassembled
  <2> SUFFICES ASSUME OtaInv PROVE Reassembled
    OBVIOUS
  <2> DEFINE d == chunk.counter
  <2>1. closed \in BOOLEAN /\ \A b \in 1..d : chunks[b].good
    BY Zenon DEF OtaInv, Gathers
  <2>2. ASSUME ~closed
        PROVE  /\ written = Payloads(d) /\ arrived = Start(d + 1) + chunk.idx
               /\ d < Len(chunks) => chunk.idx < SizeOf(d + 1)
               /\ \A p \in 0..(chunk.idx - 1) : chunk.buf[p] = <<d + 1, p>>
    <3>1. closed = FALSE
      BY <2>1, <2>2, Zenon
    <3>2. Knows(chunk) /\ arrived = Start(d + 1) + chunk.idx /\ written = Payloads(d)
      BY <3>1, Zenon DEF OtaInv
    <3> QED BY <3>2, Zenon DEF Knows
  <2>3. ASSUME closed
        PROVE  /\ d < Len(chunks) /\ ~chunks[d + 1].good /\ arrived >= Start(d + 2)
               /\ \E c \in 0..d : written = Payloads(c)
    <3>1. closed = TRUE
      BY <2>1, <2>3, Zenon
    <3> QED BY <3>1, Zenon DEF OtaInv
  <2> QED BY <2>1, <2>2, <2>3, Zenon DEF Reassembled
<1> QED BY <1>1, ChunksGathered, PTL
=============================================================================
