------------------------------ MODULE OtaChunks ------------------------------
(***************************************************************************)
(* One-time authentication of ss-server's stream (encrypt.c).  The client  *)
(* sends each of its buffers as a chunk: a length, a hash, the bytes.      *)
(* ss_check_hash gathers the chunks from whatever pieces TCP makes of      *)
(* them, checks each hash, and writes the bytes back into the buffer it is *)
(* still reading from.                                                     *)
(*                                                                         *)
(* A byte is <<chunk, offset>>, so that a byte lost, doubled or out of     *)
(* place is seen; arrays are indexed from 0 as in the code.                *)
(*                                                                         *)
(* The names differ from those of Frames, which does the like for the      *)
(* protocol plugins, so that one module can extend both.                   *)
(***************************************************************************)
EXTENDS Integers, Sequences, FiniteSets, Streams

LOCAL INSTANCE FiniteSetsExt

CONSTANTS
  AUTH_BYTES,     \* bytes of the length and the hash together (12 in the code)
  ChunkSizes,     \* sizes of the client's buffers
  ReadSizes,      \* what a read may return
  BufferSize,     \* the most a read returns, and the least a buffer holds (2048 in the code)
  Top,            \* an index beyond any the code reaches, right or wrong
  MaxChunks       \* bound: chunks on a connection

CLEN_BYTES == 2
ASSUME OtaAssumption ==
  /\ AUTH_BYTES \in Nat /\ AUTH_BYTES > CLEN_BYTES
  /\ BufferSize \in Nat /\ BufferSize >= CLEN_BYTES /\ ReadSizes \subseteq 1..BufferSize
  /\ ChunkSizes \subseteq Nat /\ MaxChunks \in Nat
  /\ Top \in Nat /\ \A n \in ChunkSizes \cup {0} : n + AUTH_BYTES + BufferSize <= Top

VARIABLES
  chunks,     \* what the client has sent: sizes, and whether the hash is right
  arrived,    \* bytes of it the server has read
  chunk,      \* chunk_t: idx, len, counter, its buf and that buffer's capacity
  room,       \* capacity of the buffer reads go to
  written,    \* bytes handed on to the remote
  closed,     \* "hash error": the connection is closed
  overrun     \* history: something was written outside a buffer

ota_vars == <<chunks, arrived, chunk, room, written, closed, overrun>>

Junk == <<0, 0>>
Empty == [p \in 0..Top |-> Junk]

\* Where chunk c begins in the stream, and where the last one ends.
SizeOf(c) == AUTH_BYTES + chunks[c].size
Start(c) == Sum([i \in 1..(c - 1) |-> SizeOf(i)])
Sent == Start(Len(chunks) + 1)

\* The byte at position p of the stream.
ByteAt(p) ==
  LET c == Max({i \in DOMAIN chunks : Start(i) <= p})
  IN  <<c, p - Start(c)>>

\* What chunk c carries, and the first c chunks.
Carried(c) == [i \in 1..chunks[c].size |-> <<c, AUTH_BYTES + i - 1>>]
Payloads(c) == Joined([i \in 1..c |-> Carried(i)])

\* Mutant of brealloc: the buffer does not grow beyond BufferSize.
breallocFixed(capacity, len) == IF capacity < BufferSize THEN BufferSize ELSE capacity

\* A buffer's capacity after it is asked to hold len bytes.
brealloc(capacity, len) == Max({capacity, len, BufferSize})

\* new_server: a chunk_t of zeros.
OtaInit ==
  /\ chunks = <<>> /\ arrived = 0
  /\ chunk = [idx |-> 0, len |-> 0, counter |-> 0, buf |-> Empty, capacity |-> 0]
  /\ room = BufferSize /\ written = <<>> /\ closed = FALSE /\ overrun = FALSE

\* ss_gen_hash over a buffer of n bytes; the key may be another's.
ss_gen_hash(n) ==
  /\ Len(chunks) < MaxChunks
  /\ \E good \in BOOLEAN : chunks' = Append(chunks, [size |-> n, good |-> good])
  /\ UNCHANGED <<arrived, chunk, room, written, closed, overrun>>

\* The length that a chunk's first two bytes spell.
LengthIn(buf) ==
  LET c == buf[0][1]
  IN  IF c > 0 /\ buf[0] = <<c, 0>> /\ buf[1] = <<c, 1>> THEN chunks[c].size ELSE 0

\* Whether the hash in buf fits the n bytes behind it, as the chunk of this number.
HashFits(buf, n, counter) ==
  LET c == counter + 1
  IN  /\ c \in DOMAIN chunks /\ chunks[c].good /\ n = chunks[c].size
      /\ \A p \in CLEN_BYTES .. AUTH_BYTES + n - 1 : buf[p] = <<c, p>>

\* Mutant of Rebase: the loop reads on where it was.
RebaseNot(s) == s.k

\* "Reset the base offset": the unread bytes begin behind the chunk just written back.
Rebase(s) == s.j + s.chunk.len

\* The chunk in s is whole and its hash fits: its bytes go where the last chunk's end, and the
\* left bytes of the read that are still to come behind them.
Moved(s, left) ==
  LET behind == s.j + s.chunk.len
  IN  [p \in 0..Top |->
         IF p \in s.j .. behind - 1 THEN s.chunk.buf[AUTH_BYTES + p - s.j]
         ELSE IF p \in behind .. behind + left - 1 THEN s.buf[s.k + p - behind]
         ELSE s.buf[p]]

\* "Copy chunk back to buffer".
CopyBack(s, left) ==
  [buf |-> Moved(s, left), j |-> s.j + s.chunk.len, k |-> Rebase(s), room |-> s.room, refused |-> FALSE,
   overrun |-> s.overrun \/ s.j + s.chunk.len + left > s.room,
   chunk |-> [idx |-> 0, counter |-> s.chunk.counter + 1, len |-> s.chunk.len,
              buf |-> s.chunk.buf, capacity |-> s.chunk.capacity]]

\* The next byte goes to the chunk's buffer; the second one tells the length.
TakeByte(s) ==
  LET at == s.chunk.idx
      buf == [s.chunk.buf EXCEPT ![at] = s.buf[s.k]]
      named == at + 1 = CLEN_BYTES
      len == IF named THEN LengthIn(buf) ELSE s.chunk.len
  IN  [buf |-> s.buf, j |-> s.j, k |-> s.k + 1, room |-> s.room, refused |-> FALSE,
       overrun |-> s.overrun \/ at >= s.chunk.capacity,
       chunk |-> [idx |-> at + 1, counter |-> s.chunk.counter, len |-> len, buf |-> buf,
                  capacity |-> IF named THEN brealloc(s.chunk.capacity, len + AUTH_BYTES)
                               ELSE s.chunk.capacity]]

\* A byte, and the hash compared when it is the chunk's last.
Takes(s, left) ==
  LET t == TakeByte(s)
  IN  IF t.chunk.idx # t.chunk.len + AUTH_BYTES THEN t
      ELSE IF HashFits(t.chunk.buf, t.chunk.len, t.chunk.counter) THEN CopyBack(t, left)
      ELSE [t EXCEPT !.refused = TRUE]

\* One turn of the loop, which a hash that does not fit ends.
Turn(s, left) == IF s.refused THEN s ELSE Takes(s, left)

\* Where ss_check_hash begins: both buffers have room for the chunk awaited and the read.
Begin(n) ==
  [buf |-> [p \in 0..Top |-> IF p < n THEN ByteAt(arrived + p) ELSE Junk], j |-> 0, k |-> 0,
   room |-> brealloc(room, chunk.len + n), refused |-> FALSE, overrun |-> overrun,
   chunk |-> [idx |-> chunk.idx, counter |-> chunk.counter, len |-> chunk.len, buf |-> chunk.buf,
              capacity |-> brealloc(chunk.capacity, chunk.len + n)]]

\* ss_check_hash over the n bytes just read.
ss_check_hash(n) ==
  LET after[i \in 0..n] == IF i = 0 THEN Begin(n) ELSE Turn(after[i - 1], n - i)
  IN  after[n]

\* What is kept of the chunk; its idx is set at the end of ss_check_hash only.
Kept(s) ==
  [idx |-> IF s.refused THEN chunk.idx ELSE s.chunk.idx, counter |-> s.chunk.counter,
   len |-> s.chunk.len, buf |-> s.chunk.buf, capacity |-> s.chunk.capacity]

\* server_recv_cb: a read, the check, and what it leaves in the buffer goes to the remote.
StreamRead(n) ==
  LET s == ss_check_hash(n)
  IN  /\ ~closed /\ arrived + n <= Sent
      /\ arrived' = arrived + n
      /\ chunk' = Kept(s) /\ room' = s.room /\ closed' = s.refused /\ overrun' = s.overrun
      /\ written' = IF s.refused THEN written ELSE written \o [i \in 1..s.j |-> s.buf[i - 1]]
      /\ UNCHANGED chunks

OtaNext ==
  \/ \E n \in ChunkSizes : ss_gen_hash(n)
  \/ \E n \in ReadSizes : StreamRead(n)

OtaSpec == OtaInit /\ [][OtaNext]_ota_vars
-----------------------------------------------------------------------------
StreamByte == (0..MaxChunks) \X Nat

\* The variables have their types, and nothing was written past the end of a buffer: not by
\* chunks longer than a read, nor by several in one read.
OtaTypeOK ==
  /\ chunks \in Seq([size : ChunkSizes, good : BOOLEAN]) /\ Len(chunks) <= MaxChunks
  /\ arrived \in 0..Sent /\ room \in Nat /\ closed \in BOOLEAN
  /\ chunk.idx \in 0..Top /\ chunk.len \in ChunkSizes \cup {0} /\ chunk.counter \in 0..MaxChunks
  /\ \A p \in 0..Top : chunk.buf[p] \in StreamByte
  /\ written \in Seq(StreamByte)
  /\ ~overrun

\* However TCP cuts the stream, what has been handed on is the payload of the chunks that are
\* whole, in order and each once, all of them have a right hash, and the chunk's buffer holds
\* what is there of the next.  Only a chunk whose hash is wrong is refused, as soon as it is
\* whole, and nothing of it, or of that read, is handed on.
Reassembled ==
  LET done == chunk.counter
  IN  /\ \A c \in 1..done : chunks[c].good
      /\ ~closed =>
           /\ written = Payloads(done)
           /\ arrived = Start(done + 1) + chunk.idx
           /\ done < Len(chunks) => chunk.idx < SizeOf(done + 1)
           /\ \A p \in 0 .. chunk.idx - 1 : chunk.buf[p] = <<done + 1, p>>
      /\ closed =>
           /\ done < Len(chunks) /\ ~chunks[done + 1].good
           /\ arrived >= Start(done + 2)
           /\ \E c \in 0..done : written = Payloads(c)
=============================================================================
