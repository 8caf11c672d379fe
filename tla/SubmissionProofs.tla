-------------------------- MODULE SubmissionProofs --------------------------
(***************************************************************************)
(* Proofs about Submission, for every set of hosts, lengths, paths and     *)
(* repeaters: what the API accepts is built, fits, and reaches the other   *)
(* host whole.  The crux is what a packet on the air may be (Sound): how   *)
(* the length of each kind of payload depends on what the host gave, and   *)
(* that its two path-length fields are valid.                              *)
(***************************************************************************)
EXTENDS Submission, TLAPS

---------------------------------------------------------------------------
(* Arithmetic of the path-length field and of the cipher's padding.        *)

\* The field of a path of so many hashes of such a size is read as it was written.
LEMMA FieldIs ==
  ASSUME NEW size \in 1 .. 3, NEW count \in 0 .. 63
  PROVE  /\ Field(size, count) \in PathField
         /\ HashSize(Field(size, count)) = size /\ HashCount(Field(size, count)) = count
         /\ PathBytes(Field(size, count)) = size * count
         /\ size * count <= 64 => IsValidPathLen(Field(size, count))
<1>1. MaxPathLen = 64
  BY SubmissionAssumption
<1>2. Field(size, count) = (size - 1) * 64 + count
  BY <1>1 DEF Field
<1>3. CASE size = 1
  BY <1>1, <1>2, <1>3 DEF PathField, HashSize, HashCount, PathBytes, IsValidPathLen
<1>4. CASE size = 2
  BY <1>1, <1>2, <1>4 DEF PathField, HashSize, HashCount, PathBytes, IsValidPathLen
<1>5. CASE size = 3
  BY <1>1, <1>2, <1>5 DEF PathField, HashSize, HashCount, PathBytes, IsValidPathLen
<1> QED
  BY <1>3, <1>4, <1>5

\* What a valid field may say (meshcore_packet_is_valid_path_len).
ValidField == {f \in PathField : IsValidPathLen(f)}

LEMMA ValidFieldIs ==
  ASSUME NEW f \in ValidField
  PROVE  /\ f \in PathField /\ IsValidPathLen(f)
         /\ HashSize(f) \in 1 .. 3 /\ HashCount(f) \in 0 .. 63
         /\ PathBytes(f) \in 0 .. 64 /\ PathBytes(f) = HashSize(f) * HashCount(f)
<1>1. MaxPathLen = 64
  BY SubmissionAssumption
<1>2. f \in 0 .. 255 /\ IsValidPathLen(f) /\ f \in PathField
  BY <1>1 DEF ValidField, PathField
<1>3. HashSize(f) \in 1 .. 3 /\ HashCount(f) \in 0 .. 63
  BY <1>1, <1>2 DEF HashSize, HashCount, IsValidPathLen
<1>4. PathBytes(f) = HashSize(f) * HashCount(f) /\ PathBytes(f) <= 64
  BY <1>1, <1>2 DEF PathBytes, IsValidPathLen
<1>5. PathBytes(f) >= 0
  <2>1. \/ PathBytes(f) = HashCount(f) \/ PathBytes(f) = 2 * HashCount(f) 
        \/ PathBytes(f) = 3 * HashCount(f)
    BY <1>3, <1>4
  <2> QED
    BY <2>1, <1>3
<1>6. PathBytes(f) \in Int
  BY <1>3, <1>4
<1> QED
  BY <1>2, <1>3, <1>4, <1>5, <1>6

\* The empty path, and a path after a relay changed its count.
LEMMA CountSet ==
  ASSUME NEW f \in ValidField, NEW k \in 0 .. 63, k * HashSize(f) <= 64
  PROVE  SetHashCount(f, k) \in ValidField
<1>1. HashSize(f) \in 1 .. 3
  BY ValidFieldIs
<1>2. HashSize(f) * k <= 64
  BY <1>1
<1> HIDE DEF HashSize
<1> QED
  BY <1>1, <1>2, FieldIs DEF SetHashCount, ValidField

\* Fields of empty paths.
LEMMA EmptyField ==
  /\ 0 \in ValidField
  /\ \A size \in 1 .. 3 : Field(size, 0) \in ValidField
<1>1. ASSUME NEW size \in 1 .. 3 PROVE Field(size, 0) \in ValidField
  BY <1>1, FieldIs DEF ValidField
<1>2. Field(1, 0) = 0
  BY SubmissionAssumption DEF Field
<1> QED
  BY <1>1, <1>2

\* The route a host keeps for a peer is a valid path, or none (meshcore_runtime_peer_path_get).
LEMMA PeerPathIs ==
  ASSUME NEW h \in Hosts
  PROVE  PeerPathGet(h.route) = Unknown \/ PeerPathGet(h.route) \in ValidField
<1> DEFINE r == h.route
           size == NormalizeHashSize(r.hash_size)
           k == r.bytes \div size
<1>1. r.bytes \in 0 .. 64 /\ MaxPathLen = 64
  BY SubmissionAssumption DEF Route
<1>2. size \in 1 .. 3
  BY DEF NormalizeHashSize
<1>3. ASSUME CanEncode(size, r.bytes) PROVE EncodePathLen(size, r.bytes) \in ValidField
  <2> HIDE DEF size, r
  <2>1. k \in 0 .. 63 /\ size * k <= 64
    <3>1. CASE size = 1
      BY <1>1, <1>3, <3>1 DEF CanEncode
    <3>2. CASE size = 2
      BY <1>1, <1>3, <3>2 DEF CanEncode
    <3>3. CASE size = 3
      BY <1>1, <1>3, <3>3 DEF CanEncode
    <3> QED
      BY <3>1, <3>2, <3>3, <1>2
  <2> HIDE DEF k
  <2>2. Field(size, k) \in ValidField
    BY <2>1, <1>2, FieldIs DEF ValidField
  <2> QED
    BY <2>2 DEF EncodePathLen, k
<1> QED
  BY <1>3 DEF PeerPathGet

\* meshcore_utils_encrypt pads to whole blocks, by less than a block.
LEMMA PaddedIs ==
  ASSUME NEW n \in Nat
  PROVE  /\ Padded(n) \in Nat /\ n <= Padded(n) /\ Padded(n) <= n + 15
         /\ \E k \in Nat : Padded(n) = 16 * k
BY DEF Padded, CIPHER_BLOCK_SIZE

\* Bounds of a padded length, at the limits the builders test.
LEMMA PaddedBounds ==
  ASSUME NEW n \in Nat
  PROVE  /\ n <= 136 => Padded(n) <= 144
         /\ n <= 160 => Padded(n) <= 160
         /\ n <= 168 => Padded(n) <= 176
<1>1. PICK k \in Nat : Padded(n) = 16 * k
  BY PaddedIs
<1>2. 16 * k <= n + 15
  BY <1>1, PaddedIs
<1> QED
  BY <1>1, <1>2

---------------------------------------------------------------------------
(* Packets.                                                                *)

\* A packet and what it is about are records.
IsPacket(p) ==
  p = [type |-> p.type, flood |-> p.flood, path |-> p.path, snr |-> p.snr,
       size |-> p.size, plain |-> p.plain, body |-> p.body]
IsBody(b) ==
  b = [what |-> b.what, len |-> b.len, first |-> b.first, route |-> b.route, data |-> b.data]

AdvertSpace == PAYLOAD_MAX_LEN - (PUBLIC_KEY_SIZE + TAG + SIGNATURE_SIZE)
AdvertDataRecord ==
  [type : Roles, loc : BOOLEAN, feat1 : BOOLEAN, feat2 : BOOLEAN, named : BOOLEAN,
   len : 0 .. AdvertSpace]

\* An advert's data, and the length of the name it was made for: that of the
\* name in it, or of a longer one that was cut
AdvertSound(b) ==
  /\ b.data \in AdvertDataRecord /\ b.len \in Int
  /\ \/ b.len = NameLen(b.data)
     \/ /\ b.len > 0 /\ b.data.named /\ b.data.len = MAX_ADVERT_DATA_LEN
        /\ FixedLen(b.data) + b.len >= MAX_ADVERT_DATA_LEN

\* How the length of a payload, sealed or not, depends on what it is about
Carries(p) ==
  LET b == p.body
      t == p.type
  IN /\ t = "txt" =>
          /\ b.what = "text" /\ b.first \in {"other", "signed", "cli"} /\ b.len \in 1 .. 160
          /\ p.plain >= b.len + (IF b.first = "signed" THEN 9 ELSE 5)
     /\ t = "req" =>
          /\ b.what \in {"discovery", "telemetry", "snr_path", "binary"}
          /\ b.len \in 1 .. 163 /\ p.plain = TAG + b.len
          /\ b.first = "other" => b.what = "binary"
          /\ b.what = "snr_path" => p.flood /\ b.first = "discover"
          /\ p.snr => b.what = "snr_path"
     /\ t = "resp" =>
          /\ b.what \in {"response", "discovered"} /\ b.first = "other"
          /\ b.len \in Nat /\ p.plain = TAG + b.len
     /\ t = "path" =>
          /\ b.what \in {"ack", "response", "discovered", "snrs", "path"} /\ b.first \in {"other", "snr"}
          /\ b.len \in Nat
          /\ b.what = "response" => p.plain = 2 + PathBytes(b.route) + TAG + b.len
     /\ t \in {"ack", "multipart"} => b.what = "ack" /\ b.first = "other"
     /\ t = "anon" =>
          b.what = "anon" /\ b.first = "other" /\ b.len \in Nat \ {0} /\ p.plain = b.len
     /\ t = "grp_txt" => b.what = "channel_text" /\ b.first = "other" /\ b.len \in 1 .. 160
     /\ t = "grp_data" =>
          b.what = "channel_data" /\ b.first = "other" /\ b.len \in 0 .. 165 /\ p.plain = 3 + b.len
     /\ t = "raw" => b.what = "raw" /\ b.first = "other" /\ b.len = p.size /\ p.size > 0
     /\ t = "control" =>
          /\ b.what = "control" /\ b.first \in {"discover_req", "discover_resp", "other"}
          /\ b.len = p.size /\ p.size > 0
     /\ t = "advert" => b.what = "advert" /\ b.first = "other" /\ AdvertSound(b)

\* What a packet on the air is
Sound(p) ==
  /\ IsPacket(p) /\ IsBody(p.body)
  /\ p.flood \in BOOLEAN /\ p.snr \in BOOLEAN
  /\ p.size \in 0 .. PAYLOAD_MAX_LEN /\ p.plain \in Nat
  /\ p.path \in ValidField /\ p.body.route \in ValidField
  /\ Carries(p)

\* The length of a frame (meshcore_packet_get_raw_length).
LEMMA RawLengthIs ==
  ASSUME NEW p, Sound(p)
  PROVE  RawLength(p) \in 2 .. MAX_TRANS_UNIT_LEN
<1>1. PathBytes(p.path) \in 0 .. 64 /\ p.size \in 0 .. 184 /\ p.snr \in BOOLEAN
  BY ValidFieldIs DEF Sound, PAYLOAD_MAX_LEN
<1>2. Bytes(p.snr, 4) \in {0, 4}
  BY <1>1 DEF Bytes
<1> QED
  BY <1>1, <1>2 DEF RawLength, MAX_TRANS_UNIT_LEN

\* A packet that another one is made of by a change of its path alone.
LEMMA Routed ==
  ASSUME NEW p, Sound(p), NEW f \in ValidField, NEW q, q = [p EXCEPT !.path = f]
  PROVE  Sound(q) /\ q.type = p.type /\ q.body = p.body
<1>1. /\ q.type = p.type /\ q.flood = p.flood /\ q.path = f /\ q.snr = p.snr
      /\ q.size = p.size /\ q.plain = p.plain /\ q.body = p.body /\ IsPacket(q)
  BY DEF Sound, IsPacket
<1>2. Carries(q)
  BY <1>1 DEF Sound, Carries
<1> QED
  BY <1>1, <1>2 DEF Sound

\* A packet that is sent along a path.
LEMMA DirectSound ==
  ASSUME NEW p, Sound(p), p.body.what # "snr_path", NEW f \in ValidField
  PROVE  Sound(SendDirect(p, f)) /\ SendDirect(p, f).type = p.type /\ SendDirect(p, f).body = p.body
<1> DEFINE q == SendDirect(p, f)
<1>0. q = [p EXCEPT !.flood = FALSE, !.path = f]
  BY DEF SendDirect
<1> HIDE DEF q
<1>1. /\ q.type = p.type /\ q.flood = FALSE /\ q.path = f /\ q.snr = p.snr
      /\ q.size = p.size /\ q.plain = p.plain /\ q.body = p.body /\ IsPacket(q)
  BY <1>0 DEF Sound, IsPacket
<1>2. Carries(q)
  BY <1>1 DEF Sound, Carries
<1>3. Sound(q)
  BY <1>1, <1>2 DEF Sound
<1> QED
  BY <1>1, <1>3 DEF q

\* A packet that is flooded.
LEMMA FloodSound ==
  ASSUME NEW p, Sound(p), NEW h
  PROVE  Sound(SendFlood(h, p)) /\ SendFlood(h, p).type = p.type /\ SendFlood(h, p).body = p.body
<1> DEFINE q == SendFlood(h, p)
           f == Field(LocalHashSize(h), 0)
<1>0. LocalHashSize(h) \in 1 .. 3
  BY DEF LocalHashSize, NormalizeHashSize
<1>1. f \in ValidField
  BY <1>0, EmptyField
<1>2. q = [p EXCEPT !.flood = TRUE, !.path = f]
  BY DEF SendFlood
<1> HIDE DEF q, f
<1>3. /\ q.type = p.type /\ q.flood = TRUE /\ q.path = f /\ q.snr = p.snr
      /\ q.size = p.size /\ q.plain = p.plain /\ q.body = p.body /\ IsPacket(q)
  BY <1>2 DEF Sound, IsPacket
<1>4. Carries(q)
  BY <1>3 DEF Sound, Carries
<1>5. Sound(q)
  BY <1>1, <1>3, <1>4 DEF Sound
<1> QED
  BY <1>3, <1>5 DEF q

\* A PATH that is flooded with SNR transport codes.
LEMMA FloodSnrSound ==
  ASSUME NEW p, Sound(p), NEW h, p.type = "path"
  PROVE  Sound(SendFloodSnr(h, p))
<1> DEFINE q == SendFloodSnr(h, p)
           n == Min2(3, LocalHashSize(h) + 1)
           f == Field(n, 0)
<1>0. LocalHashSize(h) \in 1 .. 3
  BY DEF LocalHashSize, NormalizeHashSize
<1>1. n \in 1 .. 3
  BY <1>0 DEF Min2
<1>2. f \in ValidField
  BY <1>1, EmptyField
<1>3. q = [p EXCEPT !.flood = TRUE, !.snr = TRUE, !.path = f]
  BY DEF SendFloodSnr
<1> HIDE DEF q, f
<1>4. /\ q.type = p.type /\ q.flood = TRUE /\ q.path = f /\ q.snr = TRUE
      /\ q.size = p.size /\ q.plain = p.plain /\ q.body = p.body /\ IsPacket(q)
  BY <1>3 DEF Sound, IsPacket
<1>5. Carries(q)
  BY <1>4 DEF Sound, Carries
<1>6. Sound(q)
  BY <1>2, <1>4, <1>5 DEF Sound
<1> QED
  BY <1>6 DEF q

\* A packet that is sent to a peer by the route its host has, or flooded.
LEMMA ToPeerSound ==
  ASSUME NEW p, Sound(p), p.body.what # "snr_path", NEW h \in Hosts
  PROVE  Sound(SendToPeer(h, p))
BY FloodSound, DirectSound, PeerPathIs DEF SendToPeer

---------------------------------------------------------------------------
(* The builders of meshcore_mesh.c.                                        *)

\* The fields of what a payload is about.
LEMMA BodyIs ==
  ASSUME NEW kind, NEW len, NEW b, b = Body(kind, len)
  PROVE  /\ IsBody(b) /\ b.what = kind /\ b.len = len /\ b.first = "other"
         /\ b.route = 0 /\ b.route \in ValidField
<1>1. IsBody(b) /\ b.what = kind /\ b.len = len /\ b.first = "other" /\ b.route = 0
  BY DEF Body, IsBody
<1> QED
  BY <1>1, EmptyField

\* The same with another type byte in the payload.
TypedBody(kind, len, x) == [Body(kind, len) EXCEPT !.first = x]

LEMMA TypedBodyIs ==
  ASSUME NEW kind, NEW len, NEW x
  PROVE  /\ IsBody(TypedBody(kind, len, x))
         /\ TypedBody(kind, len, x).what = kind /\ TypedBody(kind, len, x).len = len
         /\ TypedBody(kind, len, x).first = x /\ TypedBody(kind, len, x).route \in ValidField
<1> DEFINE a == Body(kind, len)
           b == TypedBody(kind, len, x)
<1>1. IsBody(a) /\ a.what = kind /\ a.len = len /\ a.route = 0
  BY BodyIs
<1>2. b = [a EXCEPT !.first = x]
  BY DEF TypedBody
<1> HIDE DEF a, b
<1>3. IsBody(b) /\ b.what = kind /\ b.len = len /\ b.first = x /\ b.route = 0
  BY <1>1, <1>2 DEF IsBody
<1> QED
  BY <1>3, EmptyField DEF b

\* A new packet is sound if its payload fits and is as long as what it is about demands.
LEMMA PacketSound ==
  ASSUME NEW type, NEW size \in 0 .. 184, NEW plain \in Nat, NEW body,
         IsBody(body), body.route \in ValidField, Carries(Packet(type, size, plain, body))
  PROVE  Sound(Packet(type, size, plain, body))
<1> DEFINE q == Packet(type, size, plain, body)
<1>1. /\ IsPacket(q) /\ q.type = type /\ q.flood = TRUE /\ q.path = 0 /\ q.snr = FALSE
      /\ q.size = size /\ q.plain = plain /\ q.body = body
  BY DEF Packet, IsPacket
<1>2. Carries(q)
  OBVIOUS
<1> HIDE DEF q
<1>3. Sound(q)
  BY <1>1, <1>2, EmptyField DEF Sound, PAYLOAD_MAX_LEN
<1> QED
  BY <1>1, <1>3 DEF q

\* Nothing (NULL), or a sound packet about this
Built(p, type, body) == p = <<>> \/ (p # <<>> /\ Sound(p[1]) /\ p[1].type = type /\ p[1].body = body)

\* A list of one packet.
LEMMA OnePacket ==
  ASSUME NEW q, NEW p, p = <<q>>
  PROVE  p # <<>> /\ p[1] = q
OBVIOUS

\* meshcore_mesh_create_datagram: a plaintext of up to 167 bytes fits when it is sealed.
LEMMA DatagramBuilt ==
  ASSUME NEW h, NEW type, NEW n \in Nat, NEW body, IsBody(body), body.route \in ValidField,
         Carries(Packet(type, 2 + Sealed(n), n, body)),
         NEW p, p = CreateDatagram(h, type, n, body)
  PROVE  /\ Built(p, type, body)
         /\ n <= 167 /\ h.crypto => p # <<>>
<1> DEFINE q == Packet(type, 2 + Sealed(n), n, body)
<1>1. CASE DatagramFits(n) /\ h.crypto
  <2>1. p = <<q>>
    BY <1>1 DEF CreateDatagram
  <2>2. n <= 167
    BY <1>1 DEF DatagramFits, PAYLOAD_MAX_LEN, CIPHER_MAC_SIZE, CIPHER_BLOCK_SIZE
  <2>3. Padded(n) \in Nat /\ Padded(n) <= 176
    BY <2>2, PaddedIs, PaddedBounds
  <2> DEFINE size == 2 + Sealed(n)
  <2>4. size \in 0 .. 184
    BY <2>3 DEF Sealed, CIPHER_MAC_SIZE
  <2>5. q = Packet(type, size, n, body) /\ Carries(Packet(type, size, n, body))
    OBVIOUS
  <2> HIDE DEF q, size
  <2>6. Sound(q)
    BY <2>4, <2>5, PacketSound
  <2>7. q.type = type /\ q.body = body
    BY <2>5 DEF Packet
  <2> QED
    BY <2>1, <2>6, <2>7, OnePacket DEF Built
<1>2. CASE ~(DatagramFits(n) /\ h.crypto)
  <2>1. p = <<>>
    BY <1>2 DEF CreateDatagram
  <2>2. n <= 167 => DatagramFits(n)
    BY DEF DatagramFits, PAYLOAD_MAX_LEN, CIPHER_MAC_SIZE, CIPHER_BLOCK_SIZE
  <2> QED
    BY <1>2, <2>1, <2>2 DEF Built
<1> QED
  BY <1>1, <1>2

\* meshcore_mesh_create_anon_datagram: up to 136 bytes.
LEMMA AnonBuilt ==
  ASSUME NEW h, NEW n \in Nat, NEW body, IsBody(body), body.route \in ValidField,
         Carries(Packet("anon", 1 + PUBLIC_KEY_SIZE + Sealed(n), n, body)),
         NEW p, p = CreateAnon(h, n, body)
  PROVE  /\ Built(p, "anon", body)
         /\ n <= 136 /\ h.crypto => p # <<>>
<1> DEFINE q == Packet("anon", 1 + PUBLIC_KEY_SIZE + Sealed(n), n, body)
           fits == n <= PAYLOAD_MAX_LEN - 1 - PUBLIC_KEY_SIZE - CIPHER_BLOCK_SIZE + 1
<1>0. fits <=> n <= 136
  BY DEF PAYLOAD_MAX_LEN, PUBLIC_KEY_SIZE, CIPHER_BLOCK_SIZE
<1>1. CASE fits /\ h.crypto
  <2>1. p = <<q>>
    BY <1>1 DEF CreateAnon
  <2>3. Padded(n) \in Nat /\ Padded(n) <= 144
    BY <1>0, <1>1, PaddedIs, PaddedBounds
  <2> DEFINE size == 1 + PUBLIC_KEY_SIZE + Sealed(n)
  <2>4. size \in 0 .. 184
    BY <2>3 DEF Sealed, CIPHER_MAC_SIZE, PUBLIC_KEY_SIZE
  <2>5. q = Packet("anon", size, n, body) /\ Carries(Packet("anon", size, n, body))
    OBVIOUS
  <2> HIDE DEF q, size
  <2>6. Sound(q)
    BY <2>4, <2>5, PacketSound
  <2>7. q.type = "anon" /\ q.body = body
    BY <2>5 DEF Packet
  <2> QED
    BY <2>1, <2>6, <2>7, OnePacket DEF Built
<1>2. CASE ~(fits /\ h.crypto)
  <2>1. p = <<>>
    BY <1>2 DEF CreateAnon
  <2> QED
    BY <1>0, <1>2, <2>1 DEF Built
<1> QED
  BY <1>1, <1>2

\* meshcore_mesh_create_group_datagram: up to 168 bytes.
LEMMA GroupBuilt ==
  ASSUME NEW h, NEW type, NEW n \in Nat, NEW body, IsBody(body), body.route \in ValidField,
         Carries(Packet(type, 1 + Sealed(n), n, body)),
         NEW p, p = CreateGroup(h, type, n, body)
  PROVE  /\ Built(p, type, body)
         /\ n <= 168 /\ h.crypto => p # <<>>
<1> DEFINE q == Packet(type, 1 + Sealed(n), n, body)
           fits == n <= PAYLOAD_MAX_LEN - 1 - CIPHER_BLOCK_SIZE + 1
<1>0. fits <=> n <= 168
  BY DEF PAYLOAD_MAX_LEN, CIPHER_BLOCK_SIZE
<1>1. CASE fits /\ h.crypto
  <2>1. p = <<q>>
    BY <1>1 DEF CreateGroup
  <2>3. Padded(n) \in Nat /\ Padded(n) <= 176
    BY <1>0, <1>1, PaddedIs, PaddedBounds
  <2> DEFINE size == 1 + Sealed(n)
  <2>4. size \in 0 .. 184
    BY <2>3 DEF Sealed, CIPHER_MAC_SIZE
  <2>5. q = Packet(type, size, n, body) /\ Carries(Packet(type, size, n, body))
    OBVIOUS
  <2> HIDE DEF q, size
  <2>6. Sound(q)
    BY <2>4, <2>5, PacketSound
  <2>7. q.type = type /\ q.body = body
    BY <2>5 DEF Packet
  <2> QED
    BY <2>1, <2>6, <2>7, OnePacket DEF Built
<1>2. CASE ~(fits /\ h.crypto)
  <2>1. p = <<>>
    BY <1>2 DEF CreateGroup
  <2> QED
    BY <1>0, <1>2, <2>1 DEF Built
<1> QED
  BY <1>1, <1>2

\* What a PATH may carry beside the path
PathBody(b, extra) ==
  /\ IsBody(b) /\ b.what \in {"ack", "response", "discovered", "snrs", "path"}
  /\ b.first \in {"other", "snr"} /\ b.len \in Nat
  /\ b.what = "response" => extra = TAG + b.len

\* meshcore_mesh_create_path_return: path and extra data fit together when
\* path_return_extra_fits says so; up to 97 bytes fit beside the longest path.
LEMMA PathReturnBuilt ==
  ASSUME NEW h, NEW f \in ValidField, NEW extra \in Nat, NEW body, PathBody(body, extra),
         NEW p, p = CreatePathReturn(h, f, extra, body)
  PROVE  /\ p = <<>> \/ (p # <<>> /\ Sound(p[1]) /\ p[1].type = "path")
         /\ p # <<>> => p[1].body.what = body.what
         /\ PathReturnExtraFits(f, extra) /\ h.crypto => p # <<>>
         /\ extra <= 97 /\ h.crypto => p # <<>>
<1> DEFINE n == 1 + PathBytes(f) + (IF extra > 0 THEN 1 + extra ELSE 5)
           b == [body EXCEPT !.route = f]
           size == 2 + Sealed(n)
           q == Packet("path", size, n, b)
<1>0. PathBytes(f) \in 0 .. 64
  BY ValidFieldIs
<1>1. MAX_COMBINED_PATH = 166
  BY DEF MAX_COMBINED_PATH, PAYLOAD_MAX_LEN, CIPHER_MAC_SIZE, CIPHER_BLOCK_SIZE
<1>2. extra <= 97 => PathReturnExtraFits(f, extra)
  BY <1>0, <1>1 DEF PathReturnExtraFits
<1>3. CASE PathReturnExtraFits(f, extra) /\ h.crypto
  <2>1. p = <<q>>
    BY <1>3 DEF CreatePathReturn
  <2>2. n \in Nat /\ n <= 167
    <3>1. extra <= 161 - PathBytes(f)
      BY <1>0, <1>1, <1>3 DEF PathReturnExtraFits
    <3>2. CASE extra > 0
      BY <1>0, <3>1, <3>2
    <3>3. CASE ~(extra > 0)
      BY <1>0, <3>3
    <3> QED
      BY <3>2, <3>3
  <2>3. IsBody(b) /\ b.route = f /\ b.what = body.what /\ b.first = body.first /\ b.len = body.len
    BY DEF PathBody, IsBody
  <2>4. body.what = "response" => n = 2 + PathBytes(f) + TAG + body.len
    <3>1. body.what = "response" => extra = 4 + body.len /\ body.len \in Nat
      BY DEF PathBody, TAG
    <3>2. body.what = "response" => extra > 0
      BY <3>1
    <3>3. extra > 0 => n = 2 + PathBytes(f) + extra
      BY <1>0
    <3> HIDE DEF n
    <3> QED
      BY <3>1, <3>2, <3>3, <1>0 DEF TAG
  <2> HIDE DEF n, b
  <2>5. Padded(n) \in Nat /\ Padded(n) <= 176
    <3>1. Padded(n) \in Nat
      BY <2>2, PaddedIs
    <3>2. n <= 168 => Padded(n) <= 176
      BY <2>2, PaddedBounds
    <3> QED
      BY <2>2, <3>1, <3>2
  <2>6. size \in 0 .. 184
    BY <2>5 DEF Sealed, CIPHER_MAC_SIZE
  <2> HIDE DEF size
  <2>7. /\ q.type = "path" /\ q.body = b /\ q.plain = n
    BY DEF Packet
  <2> HIDE DEF q
  <2>8. Carries(q)
    BY <2>3, <2>4, <2>7 DEF Carries, PathBody
  <2>9. Carries(Packet("path", size, n, b)) /\ q = Packet("path", size, n, b)
    BY <2>8 DEF q
  <2>10. Sound(q)
    BY <2>2, <2>3, <2>6, <2>9, PacketSound
  <2> QED
    BY <2>1, <2>3, <2>7, <2>10, OnePacket
<1>4. CASE ~(PathReturnExtraFits(f, extra) /\ h.crypto)
  <2>1. p = <<>>
    BY <1>4 DEF CreatePathReturn
  <2> QED
    BY <1>2, <1>4, <2>1
<1> QED
  BY <1>3, <1>4

\* meshcore_mesh_create_raw_data and _create_control_data, for lengths the API accepts.
LEMMA PlainBuilt ==
  ASSUME NEW type, NEW n \in Nat, n <= 184, NEW body, IsBody(body), body.route \in ValidField,
         Carries(Packet(type, n, n, body)), NEW p, p = CreatePlain(type, n, body)
  PROVE  p # <<>> /\ Built(p, type, body)
<1>1. p = <<Packet(type, n, n, body)>>
  BY DEF CreatePlain, PAYLOAD_MAX_LEN
<1>2. Packet(type, n, n, body).type = type /\ Packet(type, n, n, body).body = body
  BY DEF Packet
<1>3. Sound(Packet(type, n, n, body))
  <2>1. n \in 0 .. 184
    OBVIOUS
  <2> QED
    BY <2>1, PacketSound
<1> QED
  BY <1>1, <1>2, <1>3, OnePacket DEF Built

\* meshcore_mesh_create_advert.
LEMMA AdvertBuilt ==
  ASSUME NEW d \in AdvertDataRecord, NEW name \in Int,
         \/ name = NameLen(d)
         \/ /\ name > 0 /\ d.named /\ d.len = MAX_ADVERT_DATA_LEN
            /\ FixedLen(d) + name >= MAX_ADVERT_DATA_LEN
  PROVE  Sound(Advert(d, name)) /\ Advert(d, name).body.what = "advert"
<1> DEFINE n == PUBLIC_KEY_SIZE + TAG + SIGNATURE_SIZE + d.len
           a == Body("advert", name)
           b == [a EXCEPT !.data = d]
           q == Packet("advert", n, n, b)
<1>1. IsBody(a) /\ a.what = "advert" /\ a.len = name /\ a.first = "other" /\ a.route = 0
  BY BodyIs
<1>2. n \in 0 .. 184
  BY DEF AdvertDataRecord, AdvertSpace, PAYLOAD_MAX_LEN, PUBLIC_KEY_SIZE, TAG, SIGNATURE_SIZE
<1>3. Advert(d, name) = q
  BY DEF Advert
<1> HIDE DEF a, n
<1>4. /\ IsBody(b) /\ b.what = "advert" /\ b.len = name /\ b.first = "other" /\ b.route = 0
      /\ b.data = d
  BY <1>1 DEF IsBody
<1> HIDE DEF b
<1>5. q.type = "advert" /\ q.body = b
  BY DEF Packet
<1>6. AdvertSound(b)
  BY <1>4 DEF AdvertSound
<1> HIDE DEF q
<1>7. Carries(q)
  BY <1>4, <1>5, <1>6 DEF Carries
<1>8. Carries(Packet("advert", n, n, b))
  BY <1>7 DEF q
<1>9. Sound(Packet("advert", n, n, b))
  <2>1. n \in Nat /\ b.route \in ValidField
    BY <1>2, <1>4, EmptyField
  <2> QED
    BY <1>2, <1>4, <1>8, <2>1, PacketSound
<1> QED
  BY <1>3, <1>4, <1>5, <1>9 DEF q

---------------------------------------------------------------------------
(* The executors of meshcore_runtime_request.c: what they send is sound,   *)
(* and a host that has what it takes gets its request sent.                *)

Served(R, h) == (\A q \in R.pkts : Sound(q)) /\ (Able(h) => R.end = "sent")

\* An executor that ends by sending q, or without a packet.
LEMMA FinishServed ==
  ASSUME NEW h, NEW p, NEW q, p # <<>> => Sound(q), Able(h) => p # <<>>
  PROVE  Served(Finish(p, q), h)
BY DEF Finish, Failed, Send, Served

\* An executor that gives up because the host lacks something.
LEMMA GivenUpServed ==
  ASSUME NEW h, ~Able(h), NEW err
  PROVE  Served(Failed(err), h) /\ Served(Drop, h)
BY DEF Failed, Drop, Served

\* The request for an advert: a longer name is cut where the data is full.
LEMMA NodeAdvertServed ==
  ASSUME NEW h \in Hosts, NEW flood
  PROVE  Served(ExecuteNodeAdvert(flood, h), h)
<1> DEFINE a == AdvertBuilder(h)
           d == EncodeTo(a)
           p == CreateAdvert(d, h.name)
           q == IF flood THEN SendFlood(h, p[1]) ELSE SendZeroHop(p[1])
<1>1. h.name \in 0 .. 31 /\ h.role \in Roles /\ h.position \in BOOLEAN
  BY SubmissionAssumption DEF NODE_NAME_MAX_LEN
<1>2. /\ a.type = h.role /\ a.loc = h.position /\ a.feat1 = FALSE /\ a.feat2 = FALSE
      /\ a.name = h.name
  BY DEF AdvertBuilder
<1> HIDE DEF a
<1>3. FixedLen(a) \in {1, 9}
  BY <1>1, <1>2 DEF FixedLen, Bytes
<1> DEFINE L == IF FixedLen(a) + h.name < 32 THEN FixedLen(a) + h.name ELSE 32
           named == h.name > 0
<1>4. d = [type |-> h.role, loc |-> h.position, feat1 |-> FALSE, feat2 |-> FALSE,
           named |-> named, len |-> L]
  BY <1>2 DEF EncodeTo, MAX_ADVERT_DATA_LEN
<1>a. L \in 0 .. 32 /\ named \in BOOLEAN
  BY <1>1, <1>3
<1>b. AdvertSpace = 84
  BY DEF AdvertSpace, PAYLOAD_MAX_LEN, PUBLIC_KEY_SIZE, TAG, SIGNATURE_SIZE
<1> HIDE DEF d, L, named
<1>5. d.loc = h.position /\ d.feat1 = FALSE /\ d.feat2 = FALSE /\ d.len = L /\ d.named = named
  BY <1>4
<1>6. FixedLen(d) = FixedLen(a)
  BY <1>2, <1>5 DEF FixedLen
<1>7. d \in AdvertDataRecord
  <2>1. L \in 0 .. 84
    BY <1>a
  <2> QED
    BY <1>1, <1>4, <1>a, <1>b, <2>1 DEF AdvertDataRecord
<1>8. \/ h.name = NameLen(d)
      \/ /\ h.name > 0 /\ d.named /\ d.len = MAX_ADVERT_DATA_LEN
         /\ FixedLen(d) + h.name >= MAX_ADVERT_DATA_LEN
  <2>1. CASE h.name = 0
    <3>1. ~d.named
      <4>1. named = FALSE
        BY <2>1 DEF named
      <4> QED
        BY <1>5, <4>1, Zenon
    <3> QED
      BY <2>1, <3>1 DEF NameLen
  <2>2. CASE h.name > 0
    <3>1. d.named
      <4>1. named = TRUE
        BY <2>2 DEF named
      <4> QED
        BY <1>5, <4>1, Zenon
    <3>2. NameLen(d) = L - FixedLen(a)
      BY <1>5, <1>6, <3>1 DEF NameLen
    <3>3. L = FixedLen(a) + h.name \/ (L = 32 /\ FixedLen(a) + h.name >= 32)
      BY <1>1, <1>3 DEF L
    <3> QED
      BY <1>1, <1>3, <1>5, <1>6, <2>2, <3>1, <3>2, <3>3 DEF MAX_ADVERT_DATA_LEN
  <2> QED
    BY <1>1, <2>1, <2>2
<1>9. Sound(Advert(d, h.name)) /\ Advert(d, h.name).body.what = "advert"
  BY <1>1, <1>7, <1>8, AdvertBuilt
<1>10. p = <<Advert(d, h.name)>>
  <2>1. d.len <= MAX_ADVERT_DATA_LEN
    BY <1>5, <1>a DEF MAX_ADVERT_DATA_LEN
  <2> QED
    BY <2>1 DEF CreateAdvert
<1>11. p # <<>> /\ Sound(p[1]) /\ p[1].body.what = "advert"
  BY <1>9, <1>10, OnePacket
<1> HIDE DEF p
<1>12. Sound(q)
  BY <1>11, FloodSound, DirectSound, EmptyField DEF SendZeroHop
<1>13. ExecuteNodeAdvert(flood, h) =
         IF ~h.identity \/ ~h.profile THEN Failed("EAGAIN")
         ELSE IF h.role = "none" THEN Drop ELSE Finish(p, q)
  BY DEF ExecuteNodeAdvert, p, d, a
<1> HIDE DEF q
<1>14. Served(Finish(p, q), h)
  BY <1>11, <1>12, FinishServed
<1> QED
  BY <1>13, <1>14, GivenUpServed DEF Able

\* A text to a peer, with an attempt number in the text past the third.
LEMMA MessageToNodeServed ==
  ASSUME NEW h \in Hosts, NEW len \in Nat, NEW flood, NEW attempt, ValidMessageToNode(len, attempt)
  PROVE  Served(ExecuteMessageToNode(len, flood, attempt, h), h)
<1> DEFINE n == TAG + 1 + len + (IF attempt > 3 THEN 2 ELSE 0)
           b == Body("text", len)
           p == CreateDatagram(h, "txt", n, b)
           q == IF flood THEN SendFlood(h, p[1]) ELSE SendToPeer(h, p[1])
<1>1. len \in 1 .. 160 /\ (attempt > 3 => len <= 158)
  BY DEF ValidMessageToNode, MAX_MESSAGE_TX_LEN
<1>2. n \in Nat /\ n <= 167 /\ n >= len + 5
  BY <1>1 DEF TAG
<1>3. IsBody(b) /\ b.what = "text" /\ b.len = len /\ b.first = "other" /\ b.route \in ValidField
  BY BodyIs
<1> HIDE DEF n, b
<1>4. Carries(Packet("txt", 2 + Sealed(n), n, b))
  BY <1>1, <1>2, <1>3 DEF Carries, Packet
<1>5. Built(p, "txt", b) /\ (h.crypto => p # <<>>)
  BY <1>2, <1>3, <1>4, DatagramBuilt
<1> HIDE DEF p
<1>6. p # <<>> => Sound(q)
  BY <1>3, <1>5, FloodSound, ToPeerSound DEF Built
<1>7. ExecuteMessageToNode(len, flood, attempt, h) =
        IF ~h.identity THEN Failed("EAGAIN") ELSE Finish(p, q)
  BY DEF ExecuteMessageToNode, p, n, b
<1> HIDE DEF q
<1>8. Served(Finish(p, q), h)
  BY <1>5, <1>6, FinishServed DEF Able
<1> QED
  BY <1>7, <1>8, GivenUpServed DEF Able

\* A text to a channel, unless "name: " in front makes it too long.
LEMMA MessageToChannelServed ==
  ASSUME NEW h \in Hosts, NEW len \in Nat, ValidMessageToChannel(len)
  PROVE  \/ Served(ExecuteMessageToChannel(len, h), h)
         \/ ExecuteMessageToChannel(len, h) = Drop /\ len + h.name + 2 > MAX_MESSAGE_TX_LEN
<1> DEFINE prefix == h.name + 2
           n == TAG + 1 + prefix + len
           b == Body("channel_text", len)
           p == CreateGroup(h, "grp_txt", n, b)
           q == SendFlood(h, p[1])
<1>1. len \in 1 .. 160 /\ h.name \in 0 .. 31
  BY SubmissionAssumption DEF ValidMessageToChannel, MAX_MESSAGE_TX_LEN, NODE_NAME_MAX_LEN
<1>2. n \in Nat /\ (len + prefix <= 160 => n <= 168)
  BY <1>1 DEF TAG
<1>3. /\ IsBody(b) /\ b.what = "channel_text" /\ b.len = len /\ b.first = "other"
      /\ b.route \in ValidField
  BY BodyIs
<1> HIDE DEF n, b
<1>4. Carries(Packet("grp_txt", 1 + Sealed(n), n, b))
  BY <1>1, <1>2, <1>3 DEF Carries, Packet
<1>5. Built(p, "grp_txt", b) /\ (len + prefix <= 160 /\ h.crypto => p # <<>>)
  BY <1>2, <1>3, <1>4, GroupBuilt
<1>6. ExecuteMessageToChannel(len, h) =
        IF ~h.identity THEN Failed("EAGAIN")
        ELSE IF ~h.channel \/ len + prefix > 160 THEN Drop ELSE Finish(p, q)
  BY DEF ExecuteMessageToChannel, n, b, MAX_MESSAGE_TX_LEN
<1> HIDE DEF p
<1>7. p # <<>> => Sound(q)
  BY <1>3, <1>5, FloodSound DEF Built
<1> HIDE DEF q
<1>8. CASE h.identity /\ h.channel /\ len + prefix <= 160
  <2>1. Served(Finish(p, q), h)
    BY <1>5, <1>7, <1>8, FinishServed DEF Able
  <2> QED
    BY <1>1, <1>6, <1>8, <2>1
<1>9. CASE ~h.identity \/ ~h.channel
  BY <1>6, <1>9, GivenUpServed DEF Able
<1>10. CASE h.identity /\ len + prefix > 160
  <2>1. ExecuteMessageToChannel(len, h) = Drop
    BY <1>6, <1>10
  <2> QED
    BY <2>1, <1>1, <1>10 DEF MAX_MESSAGE_TX_LEN
<1> QED
  BY <1>1, <1>8, <1>9, <1>10

\* A path the host passes is valid, or unknown where that is allowed.
LEMMA ValidPathIs ==
  ASSUME NEW f \in Paths, NEW allow, ValidPath(f, allow)
  PROVE  f \in ValidField \/ (f = Unknown /\ allow)
BY SubmissionAssumption DEF ValidPath, ValidField

\* Data for a channel: up to 165 bytes.
LEMMA ChannelDataServed ==
  ASSUME NEW h \in Hosts, NEW len \in Nat, NEW f \in Paths, ValidChannelData(len, f)
  PROVE  Served(ExecuteChannelData(len, f, h), h)
<1> DEFINE n == 3 + len
           b == Body("channel_data", len)
           p == CreateGroup(h, "grp_data", n, b)
           q == IF f = Unknown THEN SendFlood(h, p[1]) ELSE SendDirect(p[1], f)
<1>1. len \in 0 .. 165
  BY DEF ValidChannelData, MAX_CHANNEL_DATA_PAYLOAD_LEN
<1>2. n \in Nat /\ n <= 168 /\ n = 3 + len
  BY <1>1
<1>3. /\ IsBody(b) /\ b.what = "channel_data" /\ b.len = len /\ b.first = "other"
      /\ b.route \in ValidField
  BY BodyIs
<1>a. f \in ValidField \/ f = Unknown
  BY ValidPathIs DEF ValidChannelData
<1> HIDE DEF n, b
<1>4. Carries(Packet("grp_data", 1 + Sealed(n), n, b))
  BY <1>1, <1>2, <1>3 DEF Carries, Packet
<1>5. Built(p, "grp_data", b) /\ (h.crypto => p # <<>>)
  BY <1>2, <1>3, <1>4, GroupBuilt
<1>6. ExecuteChannelData(len, f, h) = IF ~h.channel THEN Drop ELSE Finish(p, q)
  BY DEF ExecuteChannelData, n, b
<1> HIDE DEF p
<1>7. p # <<>> => Sound(q)
  BY <1>3, <1>5, <1>a, FloodSound, DirectSound DEF Built
<1> HIDE DEF q
<1>8. Served(Finish(p, q), h)
  BY <1>5, <1>7, FinishServed DEF Able
<1> QED
  BY <1>6, <1>8, GivenUpServed DEF Able

\* A telemetry request, for its own sake or to discover a path.
LEMMA TelemetryServed ==
  ASSUME NEW h \in Hosts
  PROVE  Served(ExecuteDiscoverPath(h), h) /\ Served(ExecuteTelemetry(h), h)
<1> DEFINE p(kind) == CreateDatagram(h, "req", TAG + REQ_LEN, RequestData(kind))
           q1 == SendFlood(h, p("discovery")[1])
           q2 == SendToPeer(h, p("telemetry")[1])
<1>1. TAG + REQ_LEN = 13 /\ TAG + REQ_LEN \in Nat /\ TAG + REQ_LEN <= 167
  BY DEF TAG, REQ_LEN
<1>2. ASSUME NEW kind \in {"discovery", "telemetry"}
      PROVE  /\ Built(p(kind), "req", RequestData(kind)) /\ (h.crypto => p(kind) # <<>>)
             /\ RequestData(kind).what = kind
  <2> DEFINE b == RequestData(kind)
  <2>0. b = TypedBody(kind, 9, "telemetry")
    BY DEF RequestData, REQ_LEN, TypedBody
  <2> HIDE DEF b
  <2>1. /\ IsBody(b) /\ b.what = kind /\ b.len = 9 /\ b.first = "telemetry"
        /\ b.route \in ValidField
    BY <2>0, TypedBodyIs
  <2>2. Carries(Packet("req", 2 + Sealed(TAG + REQ_LEN), TAG + REQ_LEN, b))
    BY <1>1, <1>2, <2>1 DEF Carries, Packet, TAG, REQ_LEN
  <2>3. Built(p(kind), "req", b) /\ (h.crypto => p(kind) # <<>>)
    BY <1>1, <2>1, <2>2, DatagramBuilt DEF b
  <2> QED
    BY <2>1, <2>3 DEF b
<1>3. /\ ExecuteDiscoverPath(h) = IF ~h.identity THEN Failed("EAGAIN") ELSE Finish(p("discovery"), q1)
      /\ ExecuteTelemetry(h) = IF ~h.identity THEN Failed("EAGAIN") ELSE Finish(p("telemetry"), q2)
  BY DEF ExecuteDiscoverPath, ExecuteTelemetry
<1> HIDE DEF p
<1>4. p("discovery") # <<>> => Sound(q1)
  BY <1>2, FloodSound DEF Built
<1>5. p("telemetry") # <<>> => Sound(q2)
  BY <1>2, ToPeerSound DEF Built
<1> HIDE DEF q1, q2
<1>6. Served(Finish(p("discovery"), q1), h) /\ Served(Finish(p("telemetry"), q2), h)
  BY <1>2, <1>4, <1>5, FinishServed DEF Able
<1> QED
  BY <1>3, <1>6, GivenUpServed DEF Able

\* A trace: hashes of three bytes are cut to two.
LEMMA TraceServed ==
  ASSUME NEW h, NEW bytes \in Nat, NEW size, ValidTrace(bytes, size)
  PROVE  Served(ExecuteTrace(bytes, size), h)
<1> DEFINE k == bytes \div size
           n == 9 + Min2(size, 2) * k
           b == Body("trace", bytes)
           p == Packet("trace", n, n, b)
<1>1. bytes \in 1 .. 64 /\ size \in 1 .. 3
  BY SubmissionAssumption DEF ValidTrace
<1>2. n \in 0 .. 184
  <2>1. CASE size = 1
    BY <1>1, <2>1 DEF Min2
  <2>2. CASE size = 2
    BY <1>1, <2>2 DEF Min2
  <2>3. CASE size = 3
    BY <1>1, <2>3 DEF Min2
  <2> QED
    BY <1>1, <2>1, <2>2, <2>3
<1>3. IsBody(b) /\ b.what = "trace" /\ b.route \in ValidField
  BY BodyIs
<1>4. ExecuteTrace(bytes, size) = Send(SendZeroHop(p))
  BY DEF ExecuteTrace
<1> HIDE DEF n, b
<1>5. Carries(Packet("trace", n, n, b)) /\ p.body = b
  BY DEF Carries, Packet
<1>6. n \in Nat
  BY <1>2
<1>7. Sound(p)
  BY <1>2, <1>3, <1>5, <1>6, PacketSound
<1> HIDE DEF p
<1>8. Sound(SendZeroHop(p))
  BY <1>3, <1>5, <1>7, DirectSound, EmptyField DEF SendZeroHop
<1> QED
  BY <1>4, <1>8 DEF Send, Served

\* A binary request, whatever its first byte.
LEMMA BinaryServed ==
  ASSUME NEW h \in Hosts, NEW len \in Nat, NEW first \in {"telemetry", "discover", "other"},
         ValidBinary(len)
  PROVE  Served(ExecuteBinary(len, first, h), h)
<1> DEFINE n == TAG + len
           b == TypedBody("binary", len, first)
           p == CreateDatagram(h, "req", n, b)
           q == SendToPeer(h, p[1])
<1>1. len \in 1 .. 163
  BY DEF ValidBinary, MAX_SERVICE_REQUEST_PAYLOAD_LEN
<1>2. n \in Nat /\ n <= 167 /\ n = TAG + len
  BY <1>1 DEF TAG
<1>3. /\ IsBody(b) /\ b.what = "binary" /\ b.len = len /\ b.first = first /\ b.route \in ValidField
  BY TypedBodyIs
<1>4. ExecuteBinary(len, first, h) = IF ~h.identity THEN Failed("EAGAIN") ELSE Finish(p, q)
  BY DEF ExecuteBinary, TypedBody
<1> HIDE DEF n, b
<1>5. Carries(Packet("req", 2 + Sealed(n), n, b))
  BY <1>1, <1>2, <1>3 DEF Carries, Packet
<1>6. Built(p, "req", b) /\ (h.crypto => p # <<>>)
  BY <1>2, <1>3, <1>5, DatagramBuilt
<1> HIDE DEF p
<1>7. p # <<>> => Sound(q)
  BY <1>3, <1>6, ToPeerSound DEF Built
<1> HIDE DEF q
<1>8. Served(Finish(p, q), h)
  BY <1>6, <1>7, FinishServed DEF Able
<1> QED
  BY <1>4, <1>8, GivenUpServed DEF Able

\* Anonymous data: up to 136 bytes.
LEMMA AnonDataServed ==
  ASSUME NEW h \in Hosts, NEW len \in Nat, ValidAnonData(len)
  PROVE  Served(ExecuteAnonData(len, h), h)
<1> DEFINE b == Body("anon", len)
           p == CreateAnon(h, len, b)
           q == SendToPeer(h, p[1])
<1>1. len \in 1 .. 136
  BY DEF ValidAnonData, MAX_ANON_DATA_PAYLOAD_LEN
<1>3. /\ IsBody(b) /\ b.what = "anon" /\ b.len = len /\ b.first = "other" /\ b.route \in ValidField
  BY BodyIs
<1>4. ExecuteAnonData(len, h) = IF ~h.identity THEN Failed("EAGAIN") ELSE Finish(p, q)
  BY DEF ExecuteAnonData
<1> HIDE DEF b
<1>5. Carries(Packet("anon", 1 + PUBLIC_KEY_SIZE + Sealed(len), len, b))
  BY <1>1, <1>3 DEF Carries, Packet
<1>6. Built(p, "anon", b) /\ (h.crypto => p # <<>>)
  <2>1. len <= 136
    BY <1>1
  <2> QED
    BY <1>3, <1>5, <2>1, AnonBuilt
<1> HIDE DEF p
<1>7. p # <<>> => Sound(q)
  BY <1>3, <1>6, ToPeerSound DEF Built
<1> HIDE DEF q
<1>8. Served(Finish(p, q), h)
  BY <1>6, <1>7, FinishServed DEF Able
<1> QED
  BY <1>4, <1>8, GivenUpServed DEF Able

\* The answer to a binary request: beside a path if the request was flooded.
LEMMA BinaryResponseServed ==
  ASSUME NEW h \in Hosts, NEW len \in Nat, NEW req, req.flood \in BOOLEAN, req.path \in ValidField,
         ResponseValid(req, len)
  PROVE  Served(ExecuteBinaryResponse(req, len, h), h)
<1> DEFINE n == TAG + len
           b == Body("response", len)
           p == IF req.flood THEN CreatePathReturn(h, req.path, n, b) ELSE CreateDatagram(h, "resp", n, b)
           q == IF req.flood THEN SendFlood(h, p[1]) ELSE SendToPeer(h, p[1])
<1>1. len <= 163 /\ (req.flood => PathReturnExtraFits(req.path, n))
  BY DEF ResponseValid, MAX_SERVICE_RESPONSE_PAYLOAD_LEN
<1>2. n \in Nat /\ n <= 167 /\ n = TAG + len
  BY <1>1 DEF TAG
<1>3. IsBody(b) /\ b.what = "response" /\ b.len = len /\ b.first = "other" /\ b.route \in ValidField
  BY BodyIs
<1>4. ExecuteBinaryResponse(req, len, h) = IF ~h.identity THEN Failed("EAGAIN") ELSE Finish(p, q)
  BY DEF ExecuteBinaryResponse
<1> HIDE DEF n, b
<1>5. (p # <<>> => Sound(q)) /\ (h.crypto => p # <<>>)
  <2>1. CASE req.flood
    <3>1. p = CreatePathReturn(h, req.path, n, b) /\ q = SendFlood(h, p[1])
      BY <2>1
    <3> HIDE DEF p, q
    <3>2. PathBody(b, n)
      BY <1>2, <1>3 DEF PathBody
    <3>a. PICK f \in ValidField : f = req.path
      OBVIOUS
    <3>b. PathReturnExtraFits(f, n) /\ p = CreatePathReturn(h, f, n, b) /\ n \in Nat
      BY <1>1, <1>2, <2>1, <3>1, <3>a
    <3>3. (p # <<>> => Sound(p[1])) /\ (h.crypto => p # <<>>)
      BY <3>b, <3>2, PathReturnBuilt
    <3> QED
      BY <3>1, <3>3, FloodSound
  <2>2. CASE ~req.flood
    <3>1. p = CreateDatagram(h, "resp", n, b) /\ q = SendToPeer(h, p[1])
      BY <2>2
    <3> HIDE DEF p, q
    <3>2. Carries(Packet("resp", 2 + Sealed(n), n, b))
      BY <1>2, <1>3 DEF Carries, Packet
    <3>3. Built(p, "resp", b) /\ (h.crypto => p # <<>>)
      BY <1>2, <1>3, <3>1, <3>2, DatagramBuilt
    <3> QED
      BY <1>3, <3>1, <3>3, ToPeerSound DEF Built
  <2> QED
    BY <2>1, <2>2
<1> HIDE DEF p, q
<1>6. Served(Finish(p, q), h)
  BY <1>5, FinishServed DEF Able
<1> QED
  BY <1>4, <1>6, GivenUpServed DEF Able

\* A discovery request is a control packet of ten bytes.
LEMMA DiscoverServed ==
  ASSUME NEW h
  PROVE  Served(ExecuteDiscover, h)
<1> DEFINE b == TypedBody("control", 10, "discover_req")
           p == CreatePlain("control", 10, b)
           q == SendZeroHop(p[1])
<1>1. /\ IsBody(b) /\ b.what = "control" /\ b.len = 10 /\ b.first = "discover_req"
      /\ b.route \in ValidField
  BY TypedBodyIs
<1>2. ExecuteDiscover = Finish(p, q)
  BY DEF ExecuteDiscover, TypedBody
<1> HIDE DEF b
<1>a. Carries(Packet("control", 10, 10, b))
  BY <1>1 DEF Carries, Packet
<1>3. p # <<>> /\ Sound(p[1]) /\ p[1].body = b
  BY <1>1, <1>a, PlainBuilt DEF Built
<1> HIDE DEF p
<1>4. Sound(q)
  BY <1>1, <1>3, DirectSound, EmptyField DEF SendZeroHop
<1> HIDE DEF q
<1> QED
  BY <1>2, <1>3, <1>4, FinishServed

\* Raw data along a path the host gives.
LEMMA RawDataServed ==
  ASSUME NEW h, NEW len \in Nat, NEW f \in Paths, ValidRawData(len, f)
  PROVE  Served(ExecuteRawData(len, f), h)
<1> DEFINE b == Body("raw", len)
           p == CreatePlain("raw", len, b)
           q == SendDirect(p[1], f)
<1>0. len \in 1 .. 184 /\ f \in ValidField
  BY ValidPathIs DEF ValidRawData, MAX_RAW_DATA_PAYLOAD_LEN
<1>1. IsBody(b) /\ b.what = "raw" /\ b.len = len /\ b.first = "other" /\ b.route \in ValidField
  BY BodyIs
<1>2. ExecuteRawData(len, f) = Finish(p, q)
  BY DEF ExecuteRawData
<1> HIDE DEF b
<1>a. Carries(Packet("raw", len, len, b)) /\ len <= 184
  BY <1>0, <1>1 DEF Carries, Packet
<1>3. p # <<>> /\ Sound(p[1]) /\ p[1].body = b
  BY <1>1, <1>a, PlainBuilt DEF Built
<1> HIDE DEF p
<1>4. Sound(q)
  BY <1>0, <1>1, <1>3, DirectSound
<1> HIDE DEF q
<1> QED
  BY <1>2, <1>3, <1>4, FinishServed

\* Control data, to the neighbours.
LEMMA ControlDataServed ==
  ASSUME NEW h, NEW len \in Nat, NEW first \in {"unflagged", "discover_req", "discover_resp", "other"},
         ValidControlData(len, first)
  PROVE  Served(ExecuteControlData(len, first), h)
<1> DEFINE b == TypedBody("control", len, first)
           p == CreatePlain("control", len, b)
           q == SendZeroHop(p[1])
<1>0. len \in 1 .. 184 /\ first \in {"discover_req", "discover_resp", "other"}
  BY DEF ValidControlData, MAX_CONTROL_DATA_PAYLOAD_LEN
<1>1. IsBody(b) /\ b.what = "control" /\ b.len = len /\ b.first = first /\ b.route \in ValidField
  BY TypedBodyIs
<1>2. ExecuteControlData(len, first) = Finish(p, q)
  BY DEF ExecuteControlData, TypedBody
<1> HIDE DEF b
<1>a. Carries(Packet("control", len, len, b)) /\ len <= 184
  BY <1>0, <1>1 DEF Carries, Packet
<1>3. p # <<>> /\ Sound(p[1]) /\ p[1].body = b
  BY <1>1, <1>a, PlainBuilt DEF Built
<1> HIDE DEF p
<1>4. Sound(q)
  BY <1>1, <1>3, DirectSound, EmptyField DEF SendZeroHop
<1> HIDE DEF q
<1> QED
  BY <1>2, <1>3, <1>4, FinishServed

\* The host shares the raw advert of an event.
LEMMA PeerAdvertServed ==
  ASSUME NEW h, NEW raw, Sound(raw.pkt), raw.pkt.type = "advert"
  PROVE  Served(ExecutePeerAdvert(raw), h)
<1>1. raw.pkt.body.what = "advert"
  BY DEF Sound, Carries
<1>2. Sound(SendZeroHop(raw.pkt))
  BY <1>1, DirectSound, EmptyField DEF SendZeroHop
<1> QED
  BY <1>2 DEF ExecutePeerAdvert, Send, Served

---------------------------------------------------------------------------
(* The invariant.                                                          *)

\* What an event says of the payload b it is about
EventOK(e, b) ==
  /\ e.path \in ValidField
  /\ e.what \in {"message", "channel_data", "raw", "control"} => e.len = b.len
  /\ e.what \in {"binary_request", "response", "anon"} =>
       e.len \in b.len .. b.len + CIPHER_BLOCK_SIZE - 1
  /\ e.what = "binary_request" => e.flood \in BOOLEAN
  /\ e.what = "advert" =>
       /\ e.len = Min2(b.len, MAX_ADVERT_DATA_LEN - FixedLen(b.data))
       /\ e.position = b.data.loc
       /\ Sound(e.raw.pkt) /\ e.raw.pkt.type = "advert" /\ e.raw.len \in 1 .. MAX_RAW_ADVERT_LEN

\* ReachesHost and Answered, of a host that was told t
Reached(t) ==
  Able(t.host) /\ t.host.role = "chat" =>
    LET b == t.body
    IN \/ t.events # {}
       \/ b.first # "other" \/ (b.what = "binary" /\ b.len > 156)
       \/ b.what = "advert" /\ (b.len = 0 \/ ~IsValid(b.data) \/ b.data.type = "none")
Replied(t) ==
  Able(t.host) /\ t.host.role = "chat" /\ t.host.free > 0 =>
    LET b == t.body
    IN (\/ b.what = "text" /\ b.first # "cli"
        \/ b.first = "telemetry" /\ t.host.telemetry \in 0 .. 93
        \/ b.what = "snr_path")
         => t.replied

ToldOK(t) ==
  /\ t.path \in ValidField
  /\ \A e \in t.events : EventOK(e, t.body)
  /\ Reached(t) /\ Replied(t)

Inv ==
  /\ \A p \in air : Sound(p)
  /\ told # Nothing => ToldOK(told)
  /\ AcceptedIsSent

\* A call that returned rc, and whose executor, if it ran, had the result R
Ended(kind, len, h, R, rc) ==
  /\ call' = [what |-> kind, len |-> len, rc |-> rc, host |-> h,
              end |-> IF rc = "0" THEN R.end ELSE "refused"]
  /\ air' = IF rc = "0" THEN R.pkts ELSE {}
  /\ told' = Nothing

\* A call of the API keeps the invariant if its executor, which runs on valid arguments,
\* sends sound packets, and sends one unless the host lacks something.
LEMMA EndedInv ==
  ASSUME NEW kind, NEW len, NEW h, NEW R, NEW rc, Ended(kind, len, h, R, rc),
         rc = "0" => \/ Served(R, h)
                     \/ /\ R = Drop /\ kind = "message_to_channel"
                        /\ len + h.name + 2 > MAX_MESSAGE_TX_LEN,
         kind = "peer_advert" => rc # "EINVAL"
  PROVE  Inv'
<1>1. \A p \in air' : Sound(p)
  BY DEF Ended, Served, Drop
<1>2. told' = Nothing
  BY DEF Ended
<1> DEFINE c == call'
<1>3. /\ c.what = kind /\ c.len = len /\ c.rc = rc /\ c.host = h
      /\ rc = "0" => c.end = R.end
  BY DEF Ended
<1> HIDE DEF c
<1>4. c.rc = "0" /\ Able(c.host) =>
        \/ c.end = "sent"
        \/ c.what = "message_to_channel" /\ c.len + c.host.name + 2 > MAX_MESSAGE_TX_LEN
  BY <1>3 DEF Served
<1>5. c.what = "peer_advert" => c.rc # "EINVAL"
  BY <1>3
<1>6. AcceptedIsSent'
  BY <1>4, <1>5 DEF AcceptedIsSent, c
<1> QED
  BY <1>1, <1>2, <1>6 DEF Inv

\* Every request of the API keeps the invariant.
LEMMA RequestsInv ==
  ASSUME Inv, NEW h \in Hosts, Requests(h)
  PROVE  Inv'
<1>0. Lens \subseteq Nat
  BY SubmissionAssumption
<1>1. ASSUME NEW flood, NodeAdvert(flood, h) PROVE Inv'
  <2>1. PICK rc : Ended("node_advert", h.name, h, ExecuteNodeAdvert(flood, h), rc)
    BY <1>1 DEF NodeAdvert, NewCall, HostCall, Ended
  <2> QED
    BY <2>1, NodeAdvertServed, EndedInv
<1>2. ASSUME NEW len \in Lens, NEW flood, NEW attempt, MessageSendToNode(len, flood, attempt, h) PROVE Inv'
  <2> DEFINE rc == IF ~up THEN "ENODEV" ELSE IF ~ValidMessageToNode(len, attempt) THEN "EINVAL"
                   ELSE IF h.free = 0 THEN "ENOBUFS" ELSE "0"
  <2>a. Ended("message_to_node", len, h, ExecuteMessageToNode(len, flood, attempt, h), rc)
    BY <1>2 DEF MessageSendToNode, NewCall, HostCall, Ended
  <2>b. rc = "0" => ValidMessageToNode(len, attempt)
    OBVIOUS
  <2> HIDE DEF rc
  <2>1. /\ Ended("message_to_node", len, h, ExecuteMessageToNode(len, flood, attempt, h), rc)
        /\ rc = "0" => ValidMessageToNode(len, attempt)
    BY <2>a, <2>b
  <2>2. rc = "0" => Served(ExecuteMessageToNode(len, flood, attempt, h), h)
    BY <1>0, <2>1, MessageToNodeServed
  <2> QED
    BY <2>1, <2>2, EndedInv
<1>3. ASSUME NEW len \in Lens, MessageSendToChannel(len, h) PROVE Inv'
  <2>1. PICK rc : /\ Ended("message_to_channel", len, h, ExecuteMessageToChannel(len, h), rc)
                  /\ rc = "0" => ValidMessageToChannel(len)
    BY <1>3 DEF MessageSendToChannel, NewCall, HostCall, Ended
  <2>2. rc = "0" => \/ Served(ExecuteMessageToChannel(len, h), h)
                    \/ /\ ExecuteMessageToChannel(len, h) = Drop
                       /\ len + h.name + 2 > MAX_MESSAGE_TX_LEN
    BY <1>0, <2>1, MessageToChannelServed
  <2> QED
    BY <2>1, <2>2, EndedInv
<1>4. ASSUME NEW len \in Lens, NEW f \in Paths, ChannelDataSend(len, f, h) PROVE Inv'
  <2>1. PICK rc : /\ Ended("channel_data", len, h, ExecuteChannelData(len, f, h), rc)
                  /\ rc = "0" => ValidChannelData(len, f)
    BY <1>4 DEF ChannelDataSend, NewCall, HostCall, Ended
  <2>2. rc = "0" => Served(ExecuteChannelData(len, f, h), h)
    BY <1>0, <2>1, ChannelDataServed
  <2> QED
    BY <2>1, <2>2, EndedInv
<1>5. ASSUME DiscoverPath(h) PROVE Inv'
  <2>1. PICK rc : Ended("discover_path", REQ_LEN, h, ExecuteDiscoverPath(h), rc)
    BY <1>5 DEF DiscoverPath, NewCall, HostCall, Ended
  <2> QED
    BY <2>1, TelemetryServed, EndedInv
<1>6. ASSUME NEW supported, NodeTelemetry(supported, h) PROVE Inv'
  <2>1. PICK rc : Ended("telemetry", REQ_LEN, h, ExecuteTelemetry(h), rc)
    BY <1>6 DEF NodeTelemetry, NewCall, HostCall, Ended
  <2> QED
    BY <2>1, TelemetryServed, EndedInv
<1>7. ASSUME NEW bytes \in Lens, NEW size, Trace(bytes, size, h) PROVE Inv'
  <2> DEFINE rc == IF ~up THEN "ENODEV" ELSE IF ~ValidTrace(bytes, size) THEN "EINVAL"
                   ELSE IF h.free = 0 THEN "ENOBUFS" ELSE "0"
  <2>a. Ended("trace", bytes, h, ExecuteTrace(bytes, size), rc)
    BY <1>7 DEF Trace, NewCall, HostCall, Ended
  <2>b. rc = "0" => ValidTrace(bytes, size)
    OBVIOUS
  <2> HIDE DEF rc
  <2>1. /\ Ended("trace", bytes, h, ExecuteTrace(bytes, size), rc)
        /\ rc = "0" => ValidTrace(bytes, size)
    BY <2>a, <2>b
  <2>2. rc = "0" => Served(ExecuteTrace(bytes, size), h)
    BY <1>0, <2>1, TraceServed
  <2> QED
    BY <2>1, <2>2, EndedInv
<1>8. ASSUME NEW len \in Lens, NEW first \in {"telemetry", "discover", "other"}, NodeBinary(len, first, h)
      PROVE  Inv'
  <2>1. PICK rc : /\ Ended("binary", len, h, ExecuteBinary(len, first, h), rc)
                  /\ rc = "0" => ValidBinary(len)
    BY <1>8 DEF NodeBinary, NewCall, HostCall, Ended
  <2>2. rc = "0" => Served(ExecuteBinary(len, first, h), h)
    BY <1>0, <2>1, BinaryServed
  <2> QED
    BY <2>1, <2>2, EndedInv
<1>9. ASSUME NEW len \in Lens, NodeAnonData(len, h) PROVE Inv'
  <2>1. PICK rc : /\ Ended("anon", len, h, ExecuteAnonData(len, h), rc)
                  /\ rc = "0" => ValidAnonData(len)
    BY <1>9 DEF NodeAnonData, NewCall, HostCall, Ended
  <2>2. rc = "0" => Served(ExecuteAnonData(len, h), h)
    BY <1>0, <2>1, AnonDataServed
  <2> QED
    BY <2>1, <2>2, EndedInv
<1>10. ASSUME NEW filter, NodeDiscover(filter, h) PROVE Inv'
  <2>1. PICK rc : Ended("discover", 10, h, ExecuteDiscover, rc)
    BY <1>10 DEF NodeDiscover, NewCall, HostCall, Ended
  <2> QED
    BY <2>1, DiscoverServed, EndedInv
<1>11. ASSUME NEW len \in Lens, NEW f \in Paths, RawDataSend(len, f, h) PROVE Inv'
  <2>1. PICK rc : /\ Ended("raw", len, h, ExecuteRawData(len, f), rc)
                  /\ rc = "0" => ValidRawData(len, f)
    BY <1>11 DEF RawDataSend, NewCall, HostCall, Ended
  <2>2. rc = "0" => Served(ExecuteRawData(len, f), h)
    BY <1>0, <2>1, RawDataServed
  <2> QED
    BY <2>1, <2>2, EndedInv
<1>12. ASSUME NEW len \in Lens, NEW first \in {"unflagged", "discover_req", "discover_resp", "other"},
              ControlDataSend(len, first, h)
       PROVE  Inv'
  <2>1. PICK rc : /\ Ended("control", len, h, ExecuteControlData(len, first), rc)
                  /\ rc = "0" => ValidControlData(len, first)
    BY <1>12 DEF ControlDataSend, NewCall, HostCall, Ended
  <2>2. rc = "0" => Served(ExecuteControlData(len, first), h)
    BY <1>0, <2>1, ControlDataServed
  <2> QED
    BY <2>1, <2>2, EndedInv
<1> QED
  BY <1>1, <1>2, <1>3, <1>4, <1>5, <1>6, <1>7, <1>8, <1>9, <1>10, <1>11, <1>12 DEF Requests

\* And so do the calls that use what the host was told: a raw advert of an event is one
\* that the API takes back.
LEMMA FollowUpsInv ==
  ASSUME Inv, NEW h \in Hosts, FollowUps(h)
  PROVE  Inv'
<1>0. Lens \subseteq Nat
  BY SubmissionAssumption
<1>1. ASSUME NEW what, NEW e \in Heard(what) PROVE e.what = what /\ \E b : EventOK(e, b)
  <2>1. told # Nothing /\ e \in told.events /\ e.what = what
    BY <1>1 DEF Heard
  <2>2. EventOK(e, told.body)
    BY <2>1 DEF Inv, ToldOK
  <2> QED
    BY <2>1, <2>2
<1>2. ASSUME NodePeerAdvert(h) PROVE Inv'
  <2>1. PICK e \in Heard("advert") :
          FollowUp /\ HostCall("peer_advert", e.raw.len, ValidPeerAdvert(e.raw), h, ExecutePeerAdvert(e.raw))
    BY <1>2 DEF NodePeerAdvert
  <2>2. Sound(e.raw.pkt) /\ e.raw.pkt.type = "advert" /\ e.raw.len \in 1 .. MAX_RAW_ADVERT_LEN
    BY <1>1 DEF EventOK
  <2>3. ValidPeerAdvert(e.raw)
    BY <2>2 DEF ValidPeerAdvert
  <2>4. PICK rc : Ended("peer_advert", e.raw.len, h, ExecutePeerAdvert(e.raw), rc) /\ rc # "EINVAL"
    BY <2>1, <2>3 DEF FollowUp, HostCall, Ended
  <2>5. Served(ExecutePeerAdvert(e.raw), h)
    BY <2>2, PeerAdvertServed
  <2> QED
    BY <2>4, <2>5, EndedInv
<1>3. ASSUME NEW len \in Lens, NodeBinaryResponse(len, h) PROVE Inv'
  <2>1. PICK req \in Heard("binary_request") :
          FollowUp /\ HostCall("binary_response", len, ResponseValid(req, len), h,
                               ExecuteBinaryResponse(req, len, h))
    BY <1>3 DEF NodeBinaryResponse
  <2>2. req.path \in ValidField /\ req.flood \in BOOLEAN
    BY <1>1 DEF EventOK
  <2> DEFINE rc == IF ~up THEN "ENODEV" ELSE IF ~ResponseValid(req, len) THEN "EINVAL"
                   ELSE IF h.free = 0 THEN "ENOBUFS" ELSE "0"
  <2>a. Ended("binary_response", len, h, ExecuteBinaryResponse(req, len, h), rc)
    BY <2>1 DEF FollowUp, HostCall, Ended
  <2>b. rc = "0" => ResponseValid(req, len)
    OBVIOUS
  <2> HIDE DEF rc
  <2>3. /\ Ended("binary_response", len, h, ExecuteBinaryResponse(req, len, h), rc)
        /\ rc = "0" => ResponseValid(req, len)
    BY <2>a, <2>b
  <2>4. rc = "0" => Served(ExecuteBinaryResponse(req, len, h), h)
    BY <1>0, <2>2, <2>3, BinaryResponseServed
  <2> QED
    BY <2>3, <2>4, EndedInv
<1> QED
  BY <1>2, <1>3 DEF FollowUps

---------------------------------------------------------------------------
(* Reception.                                                              *)

\* A list of sound packets
Members(r) == {r[i] : i \in 1 .. Len(r)}
SoundSeq(r) == r \in Seq(Members(r)) /\ \A q \in Members(r) : Sound(q)

\* Lists of no, one and two packets.
LEMMA SoundLists ==
  /\ SoundSeq(<<>>)
  /\ \A q : Sound(q) => SoundSeq(<<q>>)
  /\ \A q, r : Sound(q) /\ Sound(r) => SoundSeq(<<q>> \o <<r>>) /\ <<q>> \o <<r>> # <<>>
<1>1. SoundSeq(<<>>)
  <2>1. Members(<<>>) = {}
    BY DEF Members
  <2> QED
    BY <2>1 DEF SoundSeq
<1>2. ASSUME NEW q, Sound(q) PROVE SoundSeq(<<q>>)
  <2>1. Members(<<q>>) = {q}
    BY DEF Members
  <2> QED
    BY <1>2, <2>1 DEF SoundSeq
<1>3. ASSUME NEW q, NEW r, Sound(q), Sound(r)
      PROVE  SoundSeq(<<q>> \o <<r>>) /\ <<q>> \o <<r>> # <<>>
  <2> DEFINE c == <<q>> \o <<r>>
  <2>1. <<q>> \in Seq({q, r}) /\ <<r>> \in Seq({q, r})
    OBVIOUS
  <2>2. c \in Seq({q, r}) /\ Len(c) = 2 /\ c[1] = q /\ c[2] = r
    BY <2>1
  <2> HIDE DEF c
  <2>3. Members(c) = {q, r}
    BY <2>2 DEF Members
  <2>4. SoundSeq(c) /\ c # <<>>
    BY <1>3, <2>2, <2>3 DEF SoundSeq
  <2> QED
    BY <2>4 DEF c
<1> QED
  BY <1>1, <1>2, <1>3

\* What must be told to the host of a chat node that has what it takes, and what such a
\* node answers itself
MustTell(b) ==
  /\ b.first = "other" /\ ~(b.what = "binary" /\ b.len > 156)
  /\ ~(b.what = "advert" /\ (b.len = 0 \/ ~IsValid(b.data) \/ b.data.type = "none"))
MustReply(b, h) ==
  \/ b.what = "text" /\ b.first # "cli"
  \/ b.first = "telemetry" /\ h.telemetry \in 0 .. 93
  \/ b.what = "snr_path"

\* A reception keeps the invariant if its events say what the packet carries, its replies
\* are sound, and there are events and replies where there must be.
LEMMA ReceivedInv ==
  ASSUME Inv, NEW p \in air, NEW h \in Hosts, NEW events, NEW replies,
         Received(p, h, events, replies), SoundSeq(replies),
         \A e \in events : EventOK(e, p.body),
         Able(h) /\ h.role = "chat" => events # {} \/ ~MustTell(p.body),
         Able(h) /\ h.role = "chat" => replies # <<>> \/ ~MustReply(p.body, h)
  PROVE  Inv'
<1> DEFINE S == Members(replies)
<1>1. replies \in Seq(S) /\ \A q \in S : Sound(q)
  BY DEF SoundSeq
<1> HIDE DEF S
<1> DEFINE k == Min2(h.free, Len(replies))
           sent == SubSeq(replies, 1, k)
<1>2. h.free \in Nat /\ Len(replies) \in Nat /\ k \in 0 .. Len(replies)
  BY <1>1, SubmissionAssumption DEF Min2
<1>3. /\ sent \in Seq(S) /\ Len(sent) = k
      /\ \A i \in DOMAIN sent : sent[i] \in S
  BY <1>1, <1>2
<1>4. /\ air' = (air \ {p}) \cup {sent[i] : i \in DOMAIN sent}
      /\ told' = [body |-> p.body, events |-> events, path |-> p.path, flood |-> p.flood,
                  host |-> h, replied |-> sent # <<>>]
      /\ UNCHANGED call
  BY DEF Received
<1>5. \A q \in air' : Sound(q)
  BY <1>1, <1>3, <1>4 DEF Inv
<1>6. h.free > 0 /\ replies # <<>> => sent # <<>>
  <2>1. replies # <<>> => Len(replies) > 0
    BY <1>1, <1>2
  <2>2. h.free > 0 /\ replies # <<>> => k > 0
    BY <1>2, <2>1 DEF Min2
  <2>3. k > 0 => sent # <<>>
    <3> HIDE DEF sent, k
    <3> QED
      BY <1>2, <1>3
  <2> QED
    BY <2>2, <2>3
<1> DEFINE replied == sent # <<>>
           t == told'
<1>7. /\ t.body = p.body /\ t.events = events /\ t.path = p.path /\ t.host = h
      /\ t.replied = replied
  BY <1>4
<1>8. h.free > 0 /\ replies # <<>> => replied
  BY <1>6
<1> HIDE DEF t, replied
<1>9. t.path \in ValidField
  BY <1>7 DEF Inv, Sound
<1>10. \A e \in t.events : EventOK(e, t.body)
  BY <1>7
<1>11. Reached(t)
  BY <1>7 DEF Reached, MustTell
<1>12. Replied(t)
  <2>1. SUFFICES ASSUME Able(h), h.role = "chat", h.free > 0, MustReply(p.body, h) PROVE replied
    BY <1>7 DEF Replied, MustReply
  <2> QED
    BY <1>8, <2>1
<1>13. ToldOK(t)
  BY <1>9, <1>10, <1>11, <1>12 DEF ToldOK
<1>14. AcceptedIsSent'
  BY <1>4 DEF Inv, AcceptedIsSent
<1> QED
  BY <1>5, <1>13, <1>14 DEF Inv, t

\* The fields of an event.
LEMMA EventIs ==
  ASSUME NEW what, NEW len
  PROVE  /\ Event(what, len).what = what /\ Event(what, len).len = len
         /\ Event(what, len).path \in ValidField
BY EmptyField DEF Event

\* Events whose length is not compared with the payload's, and those where it is.
LEMMA PlainEventOK ==
  ASSUME NEW what, NEW len, NEW b, what # "advert",
         what \in {"message", "channel_data", "raw", "control"} => len = b.len,
         what \in {"binary_request", "response", "anon"} => len \in b.len .. b.len + 15
  PROVE  EventOK(Event(what, len), b)
<1> DEFINE e == Event(what, len)
<1>1. e.what = what /\ e.len = len /\ e.flood = FALSE /\ e.path \in ValidField
  <2>1. e.what = what /\ e.len = len /\ e.path = 0
    BY DEF Event
  <2>2. e.flood = FALSE
    BY DEF Event
  <2> QED
    BY <2>1, <2>2, EmptyField
<1> HIDE DEF e
<1>2. EventOK(e, b)
  <2>1. b.len + CIPHER_BLOCK_SIZE - 1 = b.len + 16 - 1
    BY DEF CIPHER_BLOCK_SIZE
  <2>2. what \in {"binary_request", "response", "anon"} => len \in b.len .. b.len + CIPHER_BLOCK_SIZE - 1
    BY DEF CIPHER_BLOCK_SIZE
  <2> QED
    BY <1>1, <2>2 DEF EventOK
<1> QED
  BY <1>2 DEF e

\* An acknowledgement, or its extra copy.
LEMMA AckSound ==
  ASSUME NEW type \in {"ack", "multipart"}, NEW n \in 0 .. 184, NEW len
  PROVE  /\ Sound(Packet(type, n, n, Body("ack", len)))
         /\ Packet(type, n, n, Body("ack", len)).body.what = "ack"
<1> DEFINE b == Body("ack", len)
           q == Packet(type, n, n, b)
<1>1. IsBody(b) /\ b.what = "ack" /\ b.first = "other" /\ b.route \in ValidField
  BY BodyIs
<1> HIDE DEF b
<1>2. q.type = type /\ q.body = b
  BY DEF Packet
<1>3. Carries(Packet(type, n, n, b))
  <2> HIDE DEF q
  <2>1. Carries(q)
    BY <1>1, <1>2 DEF Carries
  <2> QED
    BY <2>1 DEF q
<1>4. n \in Nat
  OBVIOUS
<1>5. Sound(Packet(type, n, n, b))
  BY <1>1, <1>3, <1>4, PacketSound
<1> QED
  BY <1>1, <1>2, <1>5 DEF b

\* The answer to a text: beside the longest path, along the host's route, or flooded.
LEMMA AckReplyIs ==
  ASSUME NEW p, Sound(p), NEW h \in Hosts
  PROVE  SoundSeq(AckReply(p, h)) /\ (h.crypto => AckReply(p, h) # <<>>)
<1> DEFINE n == IF p.body.first = "signed" THEN 4 ELSE 6
           b == Body("ack", n)
           back == CreatePathReturn(h, p.path, n, b)
           ack == Packet("ack", n, n, b)
           multi == Packet("multipart", 1 + n, 1 + n, b)
           f == PeerPathGet(h.route)
<1>0. p.path \in ValidField /\ p.flood \in BOOLEAN
  BY DEF Sound
<1>1. n \in {4, 6} /\ n \in Nat /\ n <= 97 /\ n \in 0 .. 184 /\ 1 + n \in 0 .. 184
  OBVIOUS
<1>2. AckReply(p, h) =
        IF p.flood THEN IF back = <<>> THEN <<>> ELSE <<SendFlood(h, back[1])>>
        ELSE IF f = Unknown THEN <<SendFlood(h, ack)>>
        ELSE (IF h.extra_acks > 0 THEN <<SendDirect(multi, f)>> ELSE <<>>) \o <<SendDirect(ack, f)>>
  BY DEF AckReply
<1> HIDE DEF n
<1>3. Sound(ack) /\ Sound(multi) /\ ack.body.what = "ack" /\ multi.body.what = "ack"
  BY <1>1, AckSound
<1>4. IsBody(b) /\ b.what = "ack" /\ b.len = n /\ b.first = "other"
  BY BodyIs
<1> HIDE DEF b, ack, multi
<1>5. PathBody(b, n)
  BY <1>1, <1>4 DEF PathBody
<1>6. (back # <<>> => Sound(back[1])) /\ (h.crypto => back # <<>>)
  BY <1>0, <1>1, <1>5, PathReturnBuilt
<1> HIDE DEF back
<1>7. CASE p.flood
  <2>1. CASE back = <<>>
    <3>1. AckReply(p, h) = <<>>
      BY <1>2, <1>7, <2>1
    <3> QED
      BY <1>6, <2>1, <3>1, SoundLists
  <2>2. CASE back # <<>>
    <3>1. AckReply(p, h) = <<SendFlood(h, back[1])>>
      BY <1>2, <1>7, <2>2
    <3>2. Sound(SendFlood(h, back[1]))
      BY <1>6, <2>2, FloodSound
    <3> QED
      BY <3>1, <3>2, SoundLists
  <2> QED
    BY <2>1, <2>2
<1>8. CASE ~p.flood /\ f = Unknown
  <2>1. AckReply(p, h) = <<SendFlood(h, ack)>>
    BY <1>2, <1>8
  <2>2. Sound(SendFlood(h, ack))
    BY <1>3, FloodSound
  <2> QED
    BY <2>1, <2>2, SoundLists
<1>9. CASE ~p.flood /\ f # Unknown
  <2>1. f \in ValidField
    BY <1>9, PeerPathIs
  <2>2. Sound(SendDirect(ack, f)) /\ Sound(SendDirect(multi, f))
    BY <1>3, <2>1, DirectSound
  <2> DEFINE x == SendDirect(ack, f)
             y == SendDirect(multi, f)
  <2>3. AckReply(p, h) = (IF h.extra_acks > 0 THEN <<y>> ELSE <<>>) \o <<x>>
    BY <1>2, <1>9
  <2> HIDE DEF x, y
  <2>4. CASE h.extra_acks > 0
    <3>1. AckReply(p, h) = <<y>> \o <<x>>
      BY <2>3, <2>4
    <3> QED
      BY <2>2, <3>1, SoundLists DEF x, y
  <2>5. CASE ~(h.extra_acks > 0)
    <3>1. AckReply(p, h) = <<x>>
      <4>1. <<>> \o <<x>> = <<x>>
        OBVIOUS
      <4> QED
        BY <2>3, <2>5, <4>1
    <3> QED
      BY <2>2, <3>1, SoundLists DEF x
  <2> QED
    BY <2>4, <2>5
<1> QED
  BY <1>0, <1>7, <1>8, <1>9

\* The answer to a telemetry request: at most 163 bytes; up to 93 fit beside any path.
LEMMA TelemetryReplyIs ==
  ASSUME NEW p, Sound(p), NEW h \in Hosts
  PROVE  /\ SoundSeq(TelemetryReply(p, h))
         /\ h.crypto /\ h.telemetry \in 0 .. 93 => TelemetryReply(p, h) # <<>>
<1> DEFINE len == TAG + h.telemetry
           kind == IF p.body.what = "discovery" THEN "discovered" ELSE "response"
           b == Body(kind, h.telemetry)
           r == IF h.telemetry \notin 0 .. 163 THEN <<>>
                ELSE IF p.flood THEN CreatePathReturn(h, p.path, len, b)
                ELSE CreateDatagram(h, "resp", len, b)
           q == IF p.flood THEN SendFlood(h, r[1]) ELSE SendToPeer(h, r[1])
<1>0. p.path \in ValidField /\ p.flood \in BOOLEAN
  BY DEF Sound
<1>1. TelemetryReply(p, h) = IF r = <<>> THEN <<>> ELSE <<q>>
  BY DEF TelemetryReply, MAX_TELEMETRY_PAYLOAD_LEN
<1>2. kind \in {"response", "discovered"}
  OBVIOUS
<1> HIDE DEF kind
<1>3. IsBody(b) /\ b.what = kind /\ b.len = h.telemetry /\ b.first = "other" /\ b.route \in ValidField
  BY BodyIs
<1> HIDE DEF b
<1>4. (r # <<>> => Sound(q)) /\ (h.crypto /\ h.telemetry \in 0 .. 93 => r # <<>>)
  <2>1. CASE h.telemetry \notin 0 .. 163
    <3>1. r = <<>>
      BY <2>1
    <3>2. h.telemetry \notin 0 .. 93
      BY <2>1
    <3> QED
      BY <3>1, <3>2
  <2>2. CASE h.telemetry \in 0 .. 163 /\ p.flood
    <3>1. r = CreatePathReturn(h, p.path, len, b) /\ q = SendFlood(h, r[1])
      BY <2>2
    <3>2. len \in Nat /\ len = TAG + h.telemetry /\ (h.telemetry \in 0 .. 93 => len <= 97)
      BY <2>2 DEF TAG
    <3> HIDE DEF r, q, len
    <3>3. PathBody(b, len)
      BY <1>2, <1>3, <2>2, <3>2 DEF PathBody
    <3>4. (r # <<>> => Sound(r[1])) /\ (len <= 97 /\ h.crypto => r # <<>>)
      BY <1>0, <3>1, <3>2, <3>3, PathReturnBuilt
    <3> QED
      BY <3>1, <3>2, <3>4, FloodSound
  <2>3. CASE h.telemetry \in 0 .. 163 /\ ~p.flood
    <3>1. r = CreateDatagram(h, "resp", len, b) /\ q = SendToPeer(h, r[1])
      BY <2>3
    <3>2. len \in Nat /\ len = TAG + h.telemetry /\ len <= 167
      BY <2>3 DEF TAG
    <3> HIDE DEF r, q, len
    <3>3. Carries(Packet("resp", 2 + Sealed(len), len, b))
      BY <1>2, <1>3, <2>3, <3>2 DEF Carries, Packet
    <3>4. Built(r, "resp", b) /\ (h.crypto => r # <<>>)
      BY <1>3, <3>1, <3>2, <3>3, DatagramBuilt
    <3> QED
      BY <1>2, <1>3, <3>1, <3>4, ToPeerSound DEF Built
  <2> QED
    BY <1>0, <2>1, <2>2, <2>3
<1> HIDE DEF r, q
<1>5. CASE r = <<>>
  BY <1>1, <1>4, <1>5, SoundLists
<1>6. CASE r # <<>>
  <2>1. TelemetryReply(p, h) = <<q>> /\ Sound(q)
    BY <1>1, <1>4, <1>6
  <2> QED
    BY <2>1, SoundLists
<1> QED
  BY <1>5, <1>6

\* A PATH without extra data fits whatever the path.
LEMMA EmptyPathReturn ==
  ASSUME NEW h, NEW f \in ValidField, NEW p, p = CreatePathReturn(h, f, 0, Body("path", 0))
  PROVE  /\ p # <<>> => Sound(p[1]) /\ p[1].body.what = "path"
         /\ h.crypto => p # <<>>
<1> DEFINE b == Body("path", 0)
<1>1. IsBody(b) /\ b.what = "path" /\ b.len = 0 /\ b.first = "other"
  BY BodyIs
<1>2. p = CreatePathReturn(h, f, 0, b)
  OBVIOUS
<1> HIDE DEF b
<1>3. PathBody(b, 0)
  BY <1>1 DEF PathBody
<1>4. 0 \in Nat /\ 0 <= 97
  OBVIOUS
<1>5. /\ p = <<>> \/ (p # <<>> /\ Sound(p[1]) /\ p[1].type = "path")
      /\ p # <<>> => p[1].body.what = b.what
      /\ 0 <= 97 /\ h.crypto => p # <<>>
  BY <1>2, <1>3, <1>4, PathReturnBuilt
<1> QED
  BY <1>1, <1>4, <1>5

\* Nor does the longest list of SNRs need more room than there is.
LEMMA SnrPathReturn ==
  ASSUME NEW h, NEW f \in ValidField, NEW snrs \in Nat, snrs <= 64,
         NEW p, p = CreatePathReturn(h, f, 1 + snrs, TypedBody("snrs", snrs, "snr"))
  PROVE  /\ p # <<>> => Sound(p[1]) /\ p[1].type = "path"
         /\ h.crypto => p # <<>>
<1> DEFINE b == TypedBody("snrs", snrs, "snr")
           extra == 1 + snrs
<1>1. IsBody(b) /\ b.what = "snrs" /\ b.len = snrs /\ b.first = "snr"
  BY TypedBodyIs
<1>2. extra \in Nat /\ extra <= 97
  OBVIOUS
<1>3. p = CreatePathReturn(h, f, extra, b)
  OBVIOUS
<1> HIDE DEF b, extra
<1>4. PathBody(b, extra)
  BY <1>1 DEF PathBody
<1>5. /\ p = <<>> \/ (p # <<>> /\ Sound(p[1]) /\ p[1].type = "path")
      /\ extra <= 97 /\ h.crypto => p # <<>>
  BY <1>2, <1>3, <1>4, PathReturnBuilt
<1> QED
  BY <1>2, <1>5

\* The answer to a flooded request for a path, with the SNRs if the path has them.
LEMMA SnrPathReplyIs ==
  ASSUME NEW p, Sound(p), NEW h \in Hosts
  PROVE  /\ SoundSeq(SnrPathReply(p, h))
         /\ h.crypto /\ p.flood => SnrPathReply(p, h) # <<>>
<1> DEFINE size == HashSize(p.path) - 1
           k == HashCount(p.path)
           snrs == Min2(ForwardHops(p) + 1, MaxPathLen)
           extra == 1 + snrs
           f == EncodePathLen(size, ForwardHops(p) * size)
           b1 == TypedBody("snrs", snrs, "snr")
           b2 == Body("path", 0)
           r == IF HasSnrPath(p) THEN CreatePathReturn(h, f, extra, b1)
                ELSE CreatePathReturn(h, p.path, 0, b2)
           q == IF HasSnrPath(p) THEN SendFloodSnr(h, r[1]) ELSE SendFlood(h, r[1])
<1>0. p.path \in ValidField /\ p.flood \in BOOLEAN /\ MaxPathLen = 64
  BY SubmissionAssumption DEF Sound
<1>1. /\ HashSize(p.path) \in 1 .. 3 /\ k \in 0 .. 63
      /\ HashSize(p.path) * k <= 64
  BY <1>0, ValidFieldIs
<1>2. SnrPathReply(p, h) = IF ~p.flood \/ r = <<>> THEN <<>> ELSE <<q>>
  BY DEF SnrPathReply, TypedBody
<1>3. (r # <<>> => Sound(q)) /\ (h.crypto => r # <<>>)
  <2>1. CASE HasSnrPath(p)
    <3>1. r = CreatePathReturn(h, f, extra, b1) /\ q = SendFloodSnr(h, r[1])
      BY <2>1
    <3>2. size \in 1 .. 2 /\ size * k <= 64
      <4>1. HashSize(p.path) \in {2, 3}
        BY <1>1, <2>1 DEF HasSnrPath
      <4> QED
        BY <1>1, <4>1
    <3>3. f = Field(size, k)
      <4>1. (k * size) \div size = k
        <5>1. CASE size = 1
          BY <1>1, <5>1
        <5>2. CASE size = 2
          BY <1>1, <5>2
        <5> QED
          BY <3>2, <5>1, <5>2
      <4> QED
        BY <4>1 DEF EncodePathLen, ForwardHops
    <3> HIDE DEF size, k, f
    <3>4. f \in ValidField
      <4>1. size \in 1 .. 3
        BY <3>2
      <4> QED
        BY <1>1, <3>2, <3>3, <4>1, FieldIs DEF ValidField
    <3>5. snrs \in Nat /\ extra = 1 + snrs /\ snrs <= 64
      BY <1>0, <1>1 DEF Min2, ForwardHops, k
    <3> HIDE DEF snrs, extra
    <3>6. r = CreatePathReturn(h, f, 1 + snrs, TypedBody("snrs", snrs, "snr"))
      BY <3>1, <3>5
    <3> HIDE DEF b1, r, q
    <3>8. /\ r # <<>> => Sound(r[1]) /\ r[1].type = "path"
          /\ h.crypto => r # <<>>
      BY <3>4, <3>5, <3>6, SnrPathReturn
    <3> QED
      BY <3>1, <3>5, <3>8, FloodSnrSound
  <2>2. CASE ~HasSnrPath(p)
    <3>1. r = CreatePathReturn(h, p.path, 0, b2) /\ q = SendFlood(h, r[1])
      BY <2>2
    <3> HIDE DEF r, q
    <3>2. (r # <<>> => Sound(r[1])) /\ (h.crypto => r # <<>>)
      BY <1>0, <3>1, EmptyPathReturn
    <3> QED
      BY <3>1, <3>2, FloodSound
  <2> QED
    BY <2>1, <2>2
<1> HIDE DEF r, q
<1>5. CASE ~p.flood \/ r = <<>>
  <2>1. SnrPathReply(p, h) = <<>>
    BY <1>2, <1>5
  <2> QED
    BY <1>3, <1>5, <2>1, SoundLists
<1>6. CASE p.flood /\ r # <<>>
  <2>1. SnrPathReply(p, h) = <<q>> /\ Sound(q)
    BY <1>2, <1>3, <1>6
  <2> QED
    BY <2>1, SoundLists
<1> QED
  BY <1>0, <1>5, <1>6

\* A chat node tells the text it decrypted, and acknowledges it.
LEMMA TextInv ==
  ASSUME Inv, NEW p \in air, NEW h \in Hosts, ReceiveText(p, h)
  PROVE  Inv'
<1> DEFINE b == p.body
           chat == h.identity /\ h.role = "chat" /\ b.first # "cli"
           text == Min2(b.len, SealedLen(p) - (IF b.first = "signed" THEN 9 ELSE 5))
           E == IF chat THEN TextMessage(text) ELSE {}
           R == IF chat THEN AckReply(p, h) ELSE <<>>
<1>0. Sound(p) /\ p.type = "txt"
  BY DEF Inv, ReceiveText, Arrived
<1>1. Received(p, h, E, R)
  BY DEF ReceiveText
<1>2. /\ b.what = "text" /\ b.first \in {"other", "signed", "cli"} /\ b.len \in 1 .. 160
      /\ p.plain >= b.len + (IF b.first = "signed" THEN 9 ELSE 5) /\ p.plain \in Nat
  BY <1>0 DEF Sound, Carries
<1>3. text = b.len
  <2> DEFINE c == IF b.first = "signed" THEN 9 ELSE 5
  <2>1. c \in Nat /\ p.plain >= b.len + c
    BY <1>2
  <2>2. SealedLen(p) \in Nat /\ SealedLen(p) >= p.plain
    BY <1>2, PaddedIs DEF SealedLen
  <2>3. text = Min2(b.len, SealedLen(p) - c)
    OBVIOUS
  <2> HIDE DEF c, text
  <2> QED
    BY <1>2, <2>1, <2>2, <2>3 DEF Min2
<1>4. TextMessage(text) = {Event("message", b.len)}
  <2>1. Min2(b.len, MAX_MESSAGE_TX_LEN) = b.len
    BY <1>2 DEF Min2, MAX_MESSAGE_TX_LEN
  <2> HIDE DEF text
  <2> QED
    BY <1>2, <1>3, <2>1 DEF TextMessage
<1>5. EventOK(Event("message", b.len), b)
  BY PlainEventOK
<1>6. SoundSeq(AckReply(p, h)) /\ (h.crypto => AckReply(p, h) # <<>>)
  BY <1>0, AckReplyIs
<1>7. Able(h) /\ h.role = "chat" /\ b.first # "cli" => chat /\ h.crypto
  BY DEF Able
<1> HIDE DEF chat, text
<1>8. SoundSeq(R) /\ \A e \in E : EventOK(e, b)
  BY <1>4, <1>5, <1>6, SoundLists
<1>9. Able(h) /\ h.role = "chat" => E # {} \/ ~MustTell(b)
  BY <1>4, <1>7 DEF MustTell
<1>10. Able(h) /\ h.role = "chat" => R # <<>> \/ ~MustReply(b, h)
  BY <1>2, <1>6, <1>7 DEF MustReply
<1> HIDE DEF E, R, b
<1> QED
  BY <1>1, <1>8, <1>9, <1>10, ReceivedInv DEF b

\* A payload with its padding is as long as what it is about, and less than a block more.
LEMMA WholePadded ==
  ASSUME NEW len \in Nat, NEW n \in Nat
  PROVE  Padded(n + len) - n \in len .. len + 15
<1> DEFINE m == n + len
<1>1. m \in Nat
  OBVIOUS
<1>2. Padded(m) \in Nat /\ m <= Padded(m) /\ Padded(m) <= m + 15
  BY <1>1, PaddedIs
<1> QED
  BY <1>2

\* A binary request as the event has it.
LEMMA BinaryEvent ==
  ASSUME NEW p, Sound(p), p.type = "req"
  PROVE  /\ \A e \in BinaryRequest(p, SealedLen(p) - TAG) : EventOK(e, p.body)
         /\ p.body.len <= 156 => BinaryRequest(p, SealedLen(p) - TAG) # {}
<1> DEFINE n == SealedLen(p) - TAG
           b == p.body
           e == [Event("binary_request", n) EXCEPT !.flood = p.flood, !.path = p.path]
<1>1. b.len \in 1 .. 163 /\ p.plain = TAG + b.len /\ p.flood \in BOOLEAN /\ p.path \in ValidField
  BY DEF Sound, Carries
<1>2. n \in b.len .. b.len + 15
  <2>1. b.len \in Nat /\ TAG \in Nat
    BY <1>1 DEF TAG
  <2> QED
    BY <1>1, <2>1, WholePadded DEF SealedLen
<1>3. b.len <= 156 => n \in 1 .. 163
  <2>1. TAG + b.len \in Nat /\ (b.len <= 156 => TAG + b.len <= 160)
    BY <1>1 DEF TAG
  <2>2. b.len <= 156 => Padded(TAG + b.len) <= 160
    BY <2>1, PaddedBounds
  <2>3. SealedLen(p) = Padded(TAG + b.len)
    BY <1>1 DEF SealedLen
  <2>4. SealedLen(p) \in Nat
    BY <2>1, <2>3, PaddedIs
  <2>5. n = SealedLen(p) - 4
    BY DEF TAG
  <2>6. b.len <= 156 => SealedLen(p) <= 160
    BY <2>2, <2>3
  <2> HIDE DEF n
  <2> QED
    BY <1>1, <1>2, <2>4, <2>5, <2>6
<1>4. /\ e.what = "binary_request" /\ e.len = n /\ e.flood = p.flood /\ e.path = p.path
  BY DEF Event
<1>5. BinaryRequest(p, n) = IF n \in 1 .. 163 THEN {e} ELSE {}
  BY DEF BinaryRequest, MAX_SERVICE_REQUEST_PAYLOAD_LEN
<1> HIDE DEF e
<1>6. EventOK(e, b)
  <2>1. n \in b.len .. b.len + CIPHER_BLOCK_SIZE - 1
    BY <1>1, <1>2 DEF CIPHER_BLOCK_SIZE
  <2> HIDE DEF n
  <2> QED
    BY <1>1, <1>4, <2>1 DEF EventOK
<1> HIDE DEF n
<1>7. /\ \A x \in BinaryRequest(p, n) : EventOK(x, b)
      /\ b.len <= 156 => BinaryRequest(p, n) # {}
  BY <1>3, <1>5, <1>6
<1> QED
  BY <1>7 DEF n

\* A request is answered by the runtime or told to the host.
LEMMA RequestInv ==
  ASSUME Inv, NEW p \in air, NEW h \in Hosts, ReceiveRequest(p, h)
  PROVE  Inv'
<1> DEFINE b == p.body
           answers == h.identity /\ h.role # "none" /\ b.first = "telemetry"
           snrs == h.identity /\ h.role = "chat"
                   /\ (b.first = "discover" \/ (b.first = "telemetry" /\ p.snr))
<1>0. Sound(p) /\ p.type = "req"
  BY DEF Inv, ReceiveRequest, Arrived
<1>1. IF snrs THEN Received(p, h, {}, SnrPathReply(p, h))
      ELSE IF answers THEN Received(p, h, {}, TelemetryReply(p, h))
      ELSE Received(p, h, BinaryRequest(p, SealedLen(p) - TAG), <<>>)
  BY DEF ReceiveRequest
<1>2. /\ b.what \in {"discovery", "telemetry", "snr_path", "binary"}
      /\ b.first = "other" => b.what = "binary"
      /\ b.what = "snr_path" => p.flood /\ b.first = "discover"
      /\ p.snr => b.what = "snr_path"
      /\ b.len \in 1 .. 163
  BY <1>0 DEF Sound, Carries
<1>3. Able(h) => h.identity /\ h.crypto
  BY DEF Able
<1>4. CASE snrs
  <2>1. Received(p, h, {}, SnrPathReply(p, h))
    BY <1>1, <1>4
  <2>2. SoundSeq(SnrPathReply(p, h)) /\ (h.crypto /\ p.flood => SnrPathReply(p, h) # <<>>)
    BY <1>0, SnrPathReplyIs
  <2>3. ~MustTell(b)
    BY <1>4 DEF MustTell
  <2>4. Able(h) => SnrPathReply(p, h) # <<>> \/ ~MustReply(b, h)
    BY <1>2, <1>3, <1>4, <2>2 DEF MustReply
  <2> HIDE DEF b
  <2> QED
    BY <2>1, <2>2, <2>3, <2>4, ReceivedInv DEF b
<1>5. CASE ~snrs /\ answers
  <2>1. Received(p, h, {}, TelemetryReply(p, h))
    BY <1>1, <1>5
  <2>2. SoundSeq(TelemetryReply(p, h)) /\ (h.crypto /\ h.telemetry \in 0 .. 93 => TelemetryReply(p, h) # <<>>)
    BY <1>0, TelemetryReplyIs
  <2>3. ~MustTell(b)
    BY <1>5 DEF MustTell
  <2>4. Able(h) => TelemetryReply(p, h) # <<>> \/ ~MustReply(b, h)
    BY <1>2, <1>3, <1>5, <2>2 DEF MustReply
  <2> HIDE DEF b
  <2> QED
    BY <2>1, <2>2, <2>3, <2>4, ReceivedInv DEF b
<1>6. CASE ~snrs /\ ~answers
  <2> DEFINE E == BinaryRequest(p, SealedLen(p) - TAG)
  <2>1. Received(p, h, E, <<>>)
    BY <1>1, <1>6
  <2>2. (\A e \in E : EventOK(e, b)) /\ (b.len <= 156 => E # {})
    BY <1>0, BinaryEvent
  <2> HIDE DEF E
  <2>3. Able(h) /\ h.role = "chat" => b.first \notin {"telemetry", "discover"}
    BY <1>3, <1>6
  <2>4. Able(h) /\ h.role = "chat" => E # {} \/ ~MustTell(b)
    BY <1>2, <2>2 DEF MustTell
  <2>5. Able(h) /\ h.role = "chat" => ~MustReply(b, h)
    BY <1>2, <2>3 DEF MustReply
  <2> HIDE DEF b
  <2> QED
    BY <2>1, <2>2, <2>4, <2>5, ReceivedInv, SoundLists DEF b
<1> QED
  BY <1>4, <1>5, <1>6

\* A packet that is not answered, and of which the host is told one thing.
LEMMA OneEventInv ==
  ASSUME Inv, NEW p \in air, NEW h \in Hosts, NEW e, NEW E,
         E = {e} \/ (E = {} /\ ~Able(h)) \/ (E = {} /\ h.role # "chat"),
         Received(p, h, E, <<>>), EventOK(e, p.body),
         p.body.what \notin {"text", "snr_path"}, p.body.first # "telemetry"
  PROVE  Inv'
<1>1. ~MustReply(p.body, h)
  BY DEF MustReply
<1>2. \A x \in E : EventOK(x, p.body)
  OBVIOUS
<1>3. Able(h) /\ h.role = "chat" => E # {}
  OBVIOUS
<1> QED
  BY <1>1, <1>2, <1>3, ReceivedInv, SoundLists

\* A response with its padding.
LEMMA ResponseInv ==
  ASSUME Inv, NEW p \in air, NEW h \in Hosts, ReceiveResponse(p, h)
  PROVE  Inv'
<1> DEFINE b == p.body
           n == SealedLen(p) - TAG
<1>0. Sound(p) /\ p.type = "resp" /\ Received(p, h, {Event("response", n)}, <<>>)
  BY DEF Inv, ReceiveResponse, Arrived
<1>1. /\ b.what \in {"response", "discovered"} /\ b.first = "other"
      /\ b.len \in Nat /\ p.plain = TAG + b.len
  BY <1>0 DEF Sound, Carries
<1>2. n \in b.len .. b.len + 15
  <2>1. TAG \in Nat
    BY DEF TAG
  <2> QED
    BY <1>1, <2>1, WholePadded DEF SealedLen
<1> HIDE DEF n
<1>3. EventOK(Event("response", n), b)
  BY <1>2, PlainEventOK
<1> QED
  BY <1>0, <1>1, <1>3, OneEventInv

\* An acknowledgement.
LEMMA AckInv ==
  ASSUME Inv, NEW p \in air, NEW h \in Hosts, ReceiveAck(p, h)
  PROVE  Inv'
<1>0. Sound(p) /\ p.type \in {"ack", "multipart"} /\ Received(p, h, {Event("ack", 6)}, <<>>)
  BY DEF Inv, ReceiveAck, Arrived
<1>1. p.body.what = "ack" /\ p.body.first = "other"
  BY <1>0 DEF Sound, Carries
<1>2. EventOK(Event("ack", 6), p.body)
  BY PlainEventOK
<1> QED
  BY <1>0, <1>1, <1>2, OneEventInv

\* Anonymous data with its padding.
LEMMA AnonInv ==
  ASSUME Inv, NEW p \in air, NEW h \in Hosts, ReceiveAnon(p, h)
  PROVE  Inv'
<1> DEFINE b == p.body
           n == SealedLen(p)
<1>0. Sound(p) /\ p.type = "anon" /\ Received(p, h, IF n > 0 THEN {Event("anon", n)} ELSE {}, <<>>)
  BY DEF Inv, ReceiveAnon, Arrived
<1>1. b.what = "anon" /\ b.first = "other" /\ b.len \in Nat \ {0} /\ p.plain = b.len
  BY <1>0 DEF Sound, Carries
<1>2. n \in b.len .. b.len + 15 /\ n > 0
  <2>1. p.plain \in Nat /\ n = Padded(p.plain)
    BY <1>1 DEF SealedLen
  <2>2. n \in Nat /\ p.plain <= n /\ n <= p.plain + 15
    BY <2>1, PaddedIs
  <2> HIDE DEF n
  <2> QED
    BY <1>1, <2>2
<1> HIDE DEF n
<1>3. EventOK(Event("anon", n), b)
  BY <1>2, PlainEventOK
<1>4. Received(p, h, {Event("anon", n)}, <<>>)
  BY <1>0, <1>2
<1> QED
  BY <1>0, <1>1, <1>3, <1>4, OneEventInv

\* A channel's text, without the name in front of it.
LEMMA GroupTextInv ==
  ASSUME Inv, NEW p \in air, NEW h \in Hosts, ReceiveGroupText(p, h)
  PROVE  Inv'
<1> DEFINE b == p.body
           e == Event("message", b.len)
           E == IF h.identity /\ h.role = "chat" /\ h.channel THEN ChannelText(p) ELSE {}
<1>0. Sound(p) /\ p.type = "grp_txt" /\ Received(p, h, E, <<>>)
  BY DEF Inv, ReceiveGroupText, Arrived
<1>1. b.what = "channel_text" /\ b.first = "other" /\ b.len \in 1 .. 160
  BY <1>0 DEF Sound, Carries
<1>2. EventOK(e, b)
  BY PlainEventOK
<1>3. ChannelText(p) = {e}
  <2>1. Min2(b.len, MAX_MESSAGE_TX_LEN) = b.len /\ b.len > 0
    BY <1>1 DEF Min2, MAX_MESSAGE_TX_LEN
  <2> QED
    BY <2>1 DEF ChannelText
<1> HIDE DEF e
<1>4. E = {e} \/ (E = {} /\ ~Able(h)) \/ (E = {} /\ h.role # "chat")
  BY <1>3 DEF Able
<1> HIDE DEF E
<1> QED
  BY <1>0, <1>1, <1>2, <1>4, OneEventInv

\* A channel's data, of the length that is in it.
LEMMA GroupDataInv ==
  ASSUME Inv, NEW p \in air, NEW h \in Hosts, ReceiveGroupData(p, h)
  PROVE  Inv'
<1> DEFINE b == p.body
           e == Event("channel_data", b.len)
           E == IF h.identity /\ h.role = "chat" /\ h.channel THEN ChannelData(p) ELSE {}
<1>0. Sound(p) /\ p.type = "grp_data" /\ Received(p, h, E, <<>>)
  BY DEF Inv, ReceiveGroupData, Arrived
<1>1. /\ b.what = "channel_data" /\ b.first = "other" /\ b.len \in 0 .. 165 /\ p.plain = 3 + b.len
      /\ p.plain \in Nat
  BY <1>0 DEF Sound, Carries
<1>2. EventOK(e, b)
  BY PlainEventOK
<1>3. ChannelData(p) = {e}
  <2> DEFINE s == SealedLen(p)
  <2>1. s \in Nat /\ s >= p.plain
    BY <1>1, PaddedIs DEF SealedLen
  <2> HIDE DEF s
  <2>2. b.len <= Min2(s - 3, MAX_CHANNEL_DATA_PAYLOAD_LEN)
    BY <1>1, <2>1 DEF Min2, MAX_CHANNEL_DATA_PAYLOAD_LEN
  <2> QED
    BY <2>2 DEF ChannelData, ChannelDataLen, s
<1> HIDE DEF e
<1>4. E = {e} \/ (E = {} /\ ~Able(h)) \/ (E = {} /\ h.role # "chat")
  BY <1>3 DEF Able
<1> HIDE DEF E
<1> QED
  BY <1>0, <1>1, <1>2, <1>4, OneEventInv

\* Raw data.
LEMMA RawInv ==
  ASSUME Inv, NEW p \in air, NEW h \in Hosts, ReceiveRaw(p, h)
  PROVE  Inv'
<1> DEFINE b == p.body
           e == Event("raw", p.size)
<1>0. Sound(p) /\ p.type = "raw" /\ Received(p, h, RawData(p), <<>>)
  BY DEF Inv, ReceiveRaw, Arrived
<1>1. b.what = "raw" /\ b.first = "other" /\ b.len = p.size /\ p.size \in 1 .. 184
  BY <1>0 DEF Sound, Carries, PAYLOAD_MAX_LEN
<1>2. EventOK(e, b)
  BY <1>1, PlainEventOK
<1>3. RawData(p) = {e}
  BY <1>1 DEF RawData, MAX_RAW_DATA_PAYLOAD_LEN
<1> HIDE DEF e
<1> QED
  BY <1>0, <1>1, <1>2, <1>3, OneEventInv

\* The answer to a discovery request is a control packet that fits.
LEMMA DiscoverReplyIs ==
  ASSUME NEW p, NEW h, NEW matches, NEW prefix
  PROVE  SoundSeq(DiscoverReply(p, h, matches, prefix))
<1> DEFINE n == 6 + (IF prefix THEN 8 ELSE PUBLIC_KEY_SIZE)
           b == TypedBody("control", n, "discover_resp")
           q == Packet("control", n, n, b)
           r == DiscoverReply(p, h, matches, prefix)
<1>1. n \in 0 .. 184 /\ n \in Nat /\ n > 0
  BY DEF PUBLIC_KEY_SIZE
<1>2. r = <<>> \/ r = <<SendZeroHop(q)>>
  BY DEF DiscoverReply, TypedBody
<1> HIDE DEF n, r
<1>3. IsBody(b) /\ b.what = "control" /\ b.len = n /\ b.first = "discover_resp" /\ b.route \in ValidField
  BY TypedBodyIs
<1> HIDE DEF b
<1>4. Carries(Packet("control", n, n, b)) /\ q.body = b
  BY <1>1, <1>3 DEF Carries, Packet
<1>5. Sound(q)
  BY <1>1, <1>3, <1>4, PacketSound
<1> HIDE DEF q
<1>6. Sound(SendZeroHop(q))
  BY <1>3, <1>4, <1>5, DirectSound, EmptyField DEF SendZeroHop
<1> QED
  BY <1>2, <1>6, SoundLists DEF r

\* Control data, which may also be the answer to a discovery or a request for one.
LEMMA ControlInv ==
  ASSUME Inv, NEW p \in air, NEW h \in Hosts, NEW matches, NEW prefix,
         ReceiveControl(p, h, matches, prefix)
  PROVE  Inv'
<1> DEFINE b == p.body
           e == Event("control", p.size)
           d == Event("node_discover", Min2(p.size - 6, PUBLIC_KEY_SIZE))
           E == NodeDiscovered(p) \cup ControlData(p)
           R == DiscoverReply(p, h, matches, prefix)
<1>0. Sound(p) /\ p.type = "control" /\ Received(p, h, E, R)
  BY DEF Inv, ReceiveControl, Arrived
<1>1. /\ b.what = "control" /\ b.len = p.size /\ p.size \in 1 .. 184
      /\ b.first \in {"discover_req", "discover_resp", "other"}
  BY <1>0 DEF Sound, Carries, PAYLOAD_MAX_LEN
<1>2. EventOK(e, b) /\ EventOK(d, b)
  BY <1>1, PlainEventOK
<1>3. ControlData(p) = {e} /\ (NodeDiscovered(p) = {} \/ NodeDiscovered(p) = {d})
  BY <1>1 DEF ControlData, NodeDiscovered, MAX_CONTROL_DATA_PAYLOAD_LEN
<1> HIDE DEF e, d
<1>4. E # {} /\ \A x \in E : EventOK(x, b)
  BY <1>2, <1>3
<1>5. ~MustReply(b, h)
  BY <1>1 DEF MustReply
<1>6. SoundSeq(R)
  BY DiscoverReplyIs
<1> HIDE DEF E, R, b
<1> QED
  BY <1>0, <1>4, <1>5, <1>6, ReceivedInv DEF b

\* A PATH: its route is told to the host, what its extra data says too, and a flooded one
\* is answered along it.
LEMMA PathInv ==
  ASSUME Inv, NEW p \in air, NEW h \in Hosts, ReceivePath(p, h)
  PROVE  Inv'
<1> DEFINE b == p.body
           chat == h.identity /\ h.role = "chat"
           found == b.what = "discovered" /\ IsValidPathLen(b.route)
           back == CreatePathReturn(h, p.path, 0, Body("path", 0))
           x == Event(b.what, ExtraLen(p) - TAG)
           E1 == IF chat /\ b.what \in {"ack", "response"} THEN {x} ELSE {}
           E2 == PeerPath(p, chat)
           E == E1 \cup E2
           R == IF (found \/ chat) /\ p.flood /\ back # <<>> THEN <<SendDirect(back[1], b.route)>> ELSE <<>>
<1>0. Sound(p) /\ p.type = "path" /\ Received(p, h, E, R)
  BY DEF Inv, ReceivePath, Arrived
<1>1. /\ b.what \in {"ack", "response", "discovered", "snrs", "path"} /\ b.first \in {"other", "snr"}
      /\ b.len \in Nat
      /\ b.what = "response" => p.plain = 2 + PathBytes(b.route) + TAG + b.len
      /\ p.path \in ValidField /\ b.route \in ValidField
  BY <1>0 DEF Sound, Carries
<1>2. SoundSeq(R)
  <2>1. back # <<>> => Sound(back[1]) /\ back[1].body.what = "path"
    BY <1>1, EmptyPathReturn
  <2> HIDE DEF back, found, chat
  <2>2. back # <<>> => Sound(SendDirect(back[1], b.route))
    BY <1>1, <2>1, DirectSound
  <2> DEFINE q == SendDirect(back[1], b.route)
  <2>3. R = <<>> \/ (R = <<q>> /\ back # <<>>)
    OBVIOUS
  <2> HIDE DEF R
  <2> QED
    BY <2>2, <2>3, SoundLists
<1>3. b.what = "response" => ExtraLen(p) - TAG \in b.len .. b.len + 15
  <2> DEFINE m == 2 + PathBytes(b.route) + TAG
  <2>1. PathBytes(b.route) \in Nat
    BY <1>1, ValidFieldIs
  <2>2. m \in Nat /\ TAG = 4
    BY <2>1 DEF TAG
  <2>3. Padded(m + b.len) - m \in b.len .. b.len + 15
    BY <1>1, <2>2, WholePadded
  <2>4. b.what = "response" => ExtraLen(p) = Padded(m + b.len) - 2 - PathBytes(b.route)
    BY <1>1 DEF ExtraLen, SealedLen
  <2>5. m + b.len \in Nat /\ Padded(m + b.len) \in Nat
    <3> DEFINE g == m + b.len
    <3>1. g \in Nat
      BY <1>1, <2>2
    <3> HIDE DEF g
    <3>2. Padded(g) \in Nat
      BY <3>1, PaddedIs
    <3> QED
      BY <3>1, <3>2 DEF g
  <2> DEFINE z == Padded(m + b.len)
  <2>6. z - 2 - PathBytes(b.route) - TAG = z - m
    BY <2>1, <2>2, <2>5
  <2> QED
    BY <2>3, <2>4, <2>6
<1>4. b.what \in {"ack", "response"} => EventOK(x, b)
  <2> DEFINE y == ExtraLen(p) - TAG
             w == b.what
  <2>1. w = "response" => y \in b.len .. b.len + 15
    BY <1>3
  <2> HIDE DEF y
  <2>2. w \in {"ack", "response"} => EventOK(Event(w, y), b)
    BY <2>1, PlainEventOK
  <2> QED
    BY <2>2 DEF y
<1>5. E2 # {} /\ \A e \in E2 : EventOK(e, b)
  <2> DEFINE snr == chat /\ b.first = "snr"
             outs == IF snr THEN Min2(b.len, Min2(ExtraLen(p) - 1, MaxPathLen)) ELSE 0
             rets == IF snr THEN ReturnSnrs(p) ELSE 0
             v == Event("peer_path", PathBytes(b.route))
             e == [v EXCEPT !.path = b.route, !.outs = outs, !.rets = rets]
  <2>1. IsValidPathLen(b.route)
    BY <1>1 DEF ValidField
  <2>2. E2 = {e}
    BY <2>1 DEF PeerPath
  <2> HIDE DEF outs, rets
  <2>3. e.what = "peer_path" /\ e.path = b.route
    BY DEF Event
  <2> HIDE DEF e
  <2>4. EventOK(e, b)
    BY <1>1, <2>3 DEF EventOK
  <2> QED
    BY <2>2, <2>4
<1>6. ~MustReply(b, h)
  BY <1>1 DEF MustReply
<1> HIDE DEF x, E2
<1>7. E # {} /\ \A e \in E : EventOK(e, b)
  BY <1>4, <1>5
<1> HIDE DEF E, R, b
<1> QED
  BY <1>0, <1>2, <1>6, <1>7, ReceivedInv DEF b

\* The raw advert of an event is sound, with a flood header.
LEMMA RawAdvertIs ==
  ASSUME NEW p, Sound(p), p.type = "advert"
  PROVE  /\ Sound(RawAdvert(p).pkt) /\ RawAdvert(p).pkt.type = "advert"
         /\ RawAdvert(p).len \in 1 .. MAX_RAW_ADVERT_LEN
<1> DEFINE q == [p EXCEPT !.flood = TRUE, !.snr = FALSE]
<1>1. RawAdvert(p).len = RawLength(q) /\ RawAdvert(p).pkt = q
  BY DEF RawAdvert
<1>a. q = [p EXCEPT !.flood = TRUE, !.snr = FALSE]
  OBVIOUS
<1> HIDE DEF q
<1>2. /\ q.type = "advert" /\ q.flood = TRUE /\ q.path = p.path /\ q.snr = FALSE
      /\ q.size = p.size /\ q.plain = p.plain /\ q.body = p.body /\ IsPacket(q)
  BY <1>a DEF Sound, IsPacket
<1>3. Carries(q)
  BY <1>2 DEF Sound, Carries
<1>4. Sound(q)
  BY <1>2, <1>3 DEF Sound
<1>5. RawLength(q) \in 1 .. MAX_RAW_ADVERT_LEN
  BY <1>4, RawLengthIs DEF MAX_RAW_ADVERT_LEN, MAX_TRANS_UNIT_LEN
<1> QED
  BY <1>1, <1>2, <1>4, <1>5

\* The bytes before the name, which are the same when the data is cut.
LEMMA FixedLenIs ==
  ASSUME NEW a \in AdvertDataRecord
  PROVE  FixedLen(a) \in 1 .. 13
<1>1. a.loc \in BOOLEAN /\ a.feat1 \in BOOLEAN /\ a.feat2 \in BOOLEAN
  BY DEF AdvertDataRecord
<1>2. Bytes(a.loc, 8) \in {0, 8} /\ Bytes(a.feat1, 2) \in {0, 2} /\ Bytes(a.feat2, 2) \in {0, 2}
  BY <1>1 DEF Bytes
<1> QED
  BY <1>2 DEF FixedLen

\* The name that is left when the data of an advert is cut to 32 bytes.
LEMMA CutName ==
  ASSUME NEW b, AdvertSound(b), NEW d, d = [b.data EXCEPT !.len = Min2(@, MAX_ADVERT_DATA_LEN)]
  PROVE  /\ d.type = b.data.type /\ d.loc = b.data.loc
         /\ IsValid(d) => NameLen(d) = Min2(b.len, MAX_ADVERT_DATA_LEN - FixedLen(b.data))
         /\ IsValid(b.data) /\ b.len # 0 => d.len > 0 /\ IsValid(d) /\ NameLen(d) > 0
<1> DEFINE a == b.data
           c == FixedLen(a)
<1>1. a \in AdvertDataRecord /\ a.len \in Nat /\ c \in 1 .. 13 /\ a.named \in BOOLEAN /\ b.len \in Int
  BY FixedLenIs DEF AdvertSound, AdvertDataRecord, AdvertSpace
<1>2. /\ d.type = a.type /\ d.loc = a.loc /\ d.feat1 = a.feat1 /\ d.feat2 = a.feat2
      /\ d.named = a.named /\ d.len = IF a.len < 32 THEN a.len ELSE 32
  BY <1>1 DEF AdvertDataRecord, Min2, MAX_ADVERT_DATA_LEN
<1>3. FixedLen(d) = c
  BY <1>2 DEF FixedLen
<1>4. /\ NameLen(d) = IF a.named THEN d.len - c ELSE 0
      /\ NameLen(a) = IF a.named THEN a.len - c ELSE 0
  BY <1>2, <1>3 DEF NameLen
<1>5. /\ IsValid(d) <=> (d.len >= c /\ NameLen(d) < 32)
      /\ IsValid(a) <=> (a.len >= c /\ NameLen(a) < 32)
  BY <1>3 DEF IsValid, MAX_ADVERT_DATA_LEN
<1>6. \/ b.len = NameLen(a)
      \/ b.len > 0 /\ a.named /\ a.len = 32 /\ c + b.len >= 32
  BY DEF AdvertSound, MAX_ADVERT_DATA_LEN
<1> HIDE DEF c
<1>7. CASE a.named
  <2>1. NameLen(d) = d.len - c /\ NameLen(a) = a.len - c
    BY <1>4, <1>7
  <2>2. IsValid(d) => NameLen(d) = Min2(b.len, 32 - c)
    BY <1>1, <1>2, <1>5, <1>6, <2>1 DEF Min2
  <2>3. IsValid(a) /\ b.len # 0 => d.len > 0 /\ IsValid(d) /\ NameLen(d) > 0
    BY <1>1, <1>2, <1>5, <1>6, <2>1
  <2> QED
    BY <1>2, <2>2, <2>3 DEF MAX_ADVERT_DATA_LEN, c
<1>8. CASE ~a.named
  <2>1. NameLen(d) = 0 /\ NameLen(a) = 0 /\ b.len = 0
    BY <1>4, <1>6, <1>8
  <2>2. 0 = Min2(b.len, 32 - c)
    BY <1>1, <2>1 DEF Min2
  <2> QED
    BY <1>2, <2>1, <2>2 DEF MAX_ADVERT_DATA_LEN, c
<1> QED
  BY <1>1, <1>7, <1>8

\* An advert, of a named node or of a neighbouring repeater.
LEMMA AdvertInv ==
  ASSUME Inv, NEW p \in air, NEW h \in Hosts, ReceiveAdvert(p, h)
  PROVE  Inv'
<1> DEFINE b == p.body
           d == [b.data EXCEPT !.len = Min2(@, MAX_ADVERT_DATA_LEN)]
           heard == /\ h.identity /\ d.len > 0 /\ IsValid(d)
                    /\ \/ h.role = "chat" /\ NameLen(d) > 0
                       \/ h.role = "repeater" /\ p.path = 0 /\ d.type = "repeater"
           v == Event("advert", NameLen(d))
           e == [v EXCEPT !.position = d.loc, !.path = p.path, !.raw = RawAdvert(p)]
           E == IF heard THEN AdvertEvent(p, d) ELSE {}
<1>0. Sound(p) /\ p.type = "advert" /\ Received(p, h, E, <<>>)
  BY DEF Inv, ReceiveAdvert, Arrived
<1>1. b.what = "advert" /\ b.first = "other" /\ AdvertSound(b) /\ p.path \in ValidField
  BY <1>0 DEF Sound, Carries
<1>2. /\ d.type = b.data.type /\ d.loc = b.data.loc
      /\ IsValid(d) => NameLen(d) = Min2(b.len, MAX_ADVERT_DATA_LEN - FixedLen(b.data))
      /\ IsValid(b.data) /\ b.len # 0 => d.len > 0 /\ IsValid(d) /\ NameLen(d) > 0
  BY <1>1, CutName
<1>3. AdvertEvent(p, d) = IF d.type = "none" THEN {} ELSE {e}
  BY DEF AdvertEvent
<1> HIDE DEF d
<1>4. e.what = "advert" /\ e.len = NameLen(d) /\ e.position = d.loc /\ e.path = p.path /\ e.raw = RawAdvert(p)
  BY DEF Event
<1> HIDE DEF e
<1>5. IsValid(d) => EventOK(e, b)
  <2>1. Sound(e.raw.pkt) /\ e.raw.pkt.type = "advert" /\ e.raw.len \in 1 .. MAX_RAW_ADVERT_LEN
    BY <1>0, <1>4, RawAdvertIs
  <2> QED
    BY <1>1, <1>2, <1>4, <2>1 DEF EventOK
<1>6. \A x \in E : EventOK(x, b)
  BY <1>3, <1>5
<1>7. ~MustReply(b, h)
  BY <1>1 DEF MustReply
<1>8. Able(h) /\ h.role = "chat" => E # {} \/ ~MustTell(b)
  <2>1. SUFFICES ASSUME Able(h), h.role = "chat", MustTell(b) PROVE E # {}
    OBVIOUS
  <2>2. b.len # 0 /\ IsValid(b.data) /\ b.data.type # "none" /\ h.identity
    BY <1>1, <2>1 DEF MustTell, Able
  <2>3. heard /\ d.type # "none"
    BY <1>2, <2>1, <2>2
  <2> QED
    BY <1>3, <2>3
<1> HIDE DEF E, b
<1> QED
  BY <1>0, <1>6, <1>7, <1>8, ReceivedInv, SoundLists DEF b

\* Whatever packet arrives.
LEMMA ReceptionsInv ==
  ASSUME Inv, NEW p \in air, NEW h \in Hosts, Receptions(p, h)
  PROVE  Inv'
BY TextInv, RequestInv, ResponseInv, PathInv, AckInv, AnonInv, GroupTextInv, GroupDataInv, RawInv,
   ControlInv, AdvertInv DEF Receptions

---------------------------------------------------------------------------
(* On the way, and the rest.                                               *)

\* A step that leaves the host alone, and puts only sound packets on the air.
LEMMA OnTheWayInv ==
  ASSUME Inv, \A p \in air' : Sound(p), told' = told \/ told' = Nothing, call' = call \/ call' = Nothing
  PROVE  Inv'
<1>1. told' # Nothing => ToldOK(told')
  BY DEF Inv
<1>2. AcceptedIsSent'
  BY DEF Inv, AcceptedIsSent
<1> QED
  BY <1>1, <1>2 DEF Inv

\* The repeaters on the way change the path alone.
LEMMA ReplacedInv ==
  ASSUME Inv, NEW p \in air, NEW f \in ValidField, Replaced(p, [p EXCEPT !.path = f])
  PROVE  Inv'
<1> DEFINE q == [p EXCEPT !.path = f]
<1>0. Sound(p)
  BY DEF Inv
<1>1. Sound(q)
  BY <1>0, Routed
<1> HIDE DEF q
<1>2. air' = (air \ {p}) \cup {q} /\ UNCHANGED <<call, told>>
  BY DEF Replaced, q
<1>3. \A x \in air' : Sound(x)
  BY <1>1, <1>2 DEF Inv
<1> QED
  BY <1>2, <1>3, OnTheWayInv

\* A flood collects a path that is not too long for its field.
LEMMA RelaysInv ==
  ASSUME Inv, NEW p \in air, NEW k \in Hops, RelayFlood(p, k)
  PROVE  Inv'
<1>1. k \in Nat /\ FloodMax \in 1 .. 63 /\ MaxPathLen = 64 /\ p.path \in ValidField
  BY SubmissionAssumption DEF Inv, Sound
<1>2. /\ k <= FloodMax /\ k * HashSize(p.path) <= MaxPathLen
      /\ Replaced(p, [p EXCEPT !.path = SetHashCount(p.path, k)])
  BY DEF RelayFlood
<1>3. k \in 0 .. 63 /\ k * HashSize(p.path) <= 64
  BY <1>1, <1>2
<1>4. SetHashCount(p.path, k) \in ValidField
  BY <1>1, <1>3, CountSet
<1> QED
  BY <1>2, <1>4, ReplacedInv

\* A source-routed packet uses its path up.
LEMMA RelaysDirectInv ==
  ASSUME Inv, NEW p \in air, RelayDirect(p)
  PROVE  Inv'
<1>1. p.path \in ValidField
  BY DEF Inv, Sound
<1>2. Replaced(p, [p EXCEPT !.path = SetHashCount(p.path, 0)])
  BY DEF RelayDirect
<1>3. 0 \in 0 .. 63 /\ 0 * HashSize(p.path) <= 64
  BY <1>1, ValidFieldIs
<1>4. SetHashCount(p.path, 0) \in ValidField
  BY <1>1, <1>3, CountSet
<1> QED
  BY <1>2, <1>4, ReplacedInv

\* What other implementations send.
LEMMA ForeignInv ==
  ASSUME Inv, NEW p, Sound(p), Foreign(p)
  PROVE  Inv'
<1>1. air' = {p} /\ told' = Nothing /\ call' = call
  BY DEF Foreign, NewCall
<1>2. \A x \in air' : Sound(x)
  BY <1>1
<1> QED
  BY <1>1, <1>2, OnTheWayInv

\* Their adverts.
LEMMA ForeignAdvertInv ==
  ASSUME Inv, NEW d \in ForeignData, ForeignAdvert(d)
  PROVE  Inv'
<1>1. d \in AdvertDataRecord
  BY SubmissionAssumption DEF AdvertDataRecord, AdvertSpace
<1>2. NameLen(d) \in Int
  <2>1. FixedLen(d) \in Int /\ d.len \in Int
    BY <1>1, FixedLenIs DEF AdvertDataRecord, AdvertSpace
  <2> QED
    BY <2>1 DEF NameLen
<1>3. Sound(Advert(d, NameLen(d)))
  BY <1>1, <1>2, AdvertBuilt
<1> QED
  BY <1>3, ForeignInv DEF ForeignAdvert

\* Their texts, signed or for the command line.
LEMMA ForeignTextInv ==
  ASSUME Inv, NEW len \in {1, 151}, NEW type \in {"signed", "cli"}, ForeignText(len, type)
  PROVE  Inv'
<1> DEFINE n == TAG + 1 + (IF type = "signed" THEN 4 ELSE 0) + len
           b == TypedBody("text", len, type)
           h == [crypto |-> TRUE]
           p == CreateDatagram(h, "txt", n, b)
<1>0. Foreign(p[1])
  BY DEF ForeignText, TypedBody
<1>1. /\ IsBody(b) /\ b.what = "text" /\ b.len = len /\ b.first = type /\ b.route \in ValidField
  BY TypedBodyIs
<1>2. n \in Nat /\ n <= 167 /\ n >= len + (IF type = "signed" THEN 9 ELSE 5) /\ h.crypto
  BY DEF TAG
<1> HIDE DEF n, b, h
<1>3. Carries(Packet("txt", 2 + Sealed(n), n, b))
  <2> DEFINE q == Packet("txt", 2 + Sealed(n), n, b)
  <2>1. q.type = "txt" /\ q.plain = n /\ q.body = b
    BY DEF Packet
  <2> HIDE DEF q
  <2>2. Carries(q)
    BY <1>1, <1>2, <2>1 DEF Carries
  <2> QED
    BY <2>2 DEF q
<1>4. p # <<>> /\ Sound(p[1])
  BY <1>1, <1>2, <1>3, DatagramBuilt DEF Built
<1> HIDE DEF p
<1> QED
  BY <1>0, <1>4, ForeignInv

\* Their requests for a path with SNRs, flooded with a transport code.
LEMMA ForeignSnrRequestInv ==
  ASSUME Inv, NEW size \in 1 .. 3, ForeignSnrRequest(size)
  PROVE  Inv'
<1> DEFINE n == TAG + REQ_LEN
           b == TypedBody("snr_path", REQ_LEN, "discover")
           h == [crypto |-> TRUE]
           c == CreateDatagram(h, "req", n, b)
           p == c[1]
           f == Field(size, 0)
           q == [p EXCEPT !.snr = TRUE, !.path = f]
<1>0. Foreign(q)
  BY DEF ForeignSnrRequest, TypedBody
<1>1. /\ IsBody(b) /\ b.what = "snr_path" /\ b.len = REQ_LEN /\ b.first = "discover"
      /\ b.route \in ValidField
  BY TypedBodyIs
<1>2. n = 13 /\ n \in Nat /\ n <= 167 /\ h.crypto
  BY DEF TAG, REQ_LEN
<1>3. f \in ValidField
  BY EmptyField
<1> HIDE DEF n, b, h, f
<1>4. Carries(Packet("req", 2 + Sealed(n), n, b))
  <2> DEFINE x == Packet("req", 2 + Sealed(n), n, b)
  <2>1. x.type = "req" /\ x.plain = n /\ x.body = b /\ x.flood = TRUE
    BY DEF Packet
  <2>2. x.snr = FALSE
    BY DEF Packet
  <2> HIDE DEF x
  <2>3. n = TAG + b.len /\ b.len \in 1 .. 163
    BY <1>1, <1>2 DEF TAG, REQ_LEN
  <2>4. Carries(x)
    BY <1>1, <2>1, <2>2, <2>3 DEF Carries
  <2> QED
    BY <2>4 DEF x
<1>5. c # <<>> /\ Sound(c[1]) /\ c[1].type = "req" /\ c[1].body = b
  BY <1>1, <1>2, <1>4, DatagramBuilt DEF Built
<1>6. Sound(p) /\ p.type = "req" /\ p.body = b /\ q = [p EXCEPT !.snr = TRUE, !.path = f]
  BY <1>5
<1> HIDE DEF c, p, q
<1>7. /\ q.type = p.type /\ q.flood = p.flood /\ q.path = f /\ q.snr = TRUE
      /\ q.size = p.size /\ q.plain = p.plain /\ q.body = p.body /\ IsPacket(q)
  BY <1>6 DEF Sound, IsPacket
<1>8. Carries(q)
  BY <1>1, <1>6, <1>7 DEF Sound, Carries
<1>9. Sound(q)
  BY <1>3, <1>6, <1>7, <1>8 DEF Sound
<1> QED
  BY <1>0, <1>9, ForeignInv

---------------------------------------------------------------------------
(* The theorems.                                                           *)

\* Every step keeps the invariant.
LEMMA NextInv ==
  ASSUME Inv, [Next]_vars
  PROVE  Inv'
<1>1. CASE InitRuntime \/ Deinit \/ Return \/ UNCHANGED vars
  <2>1. /\ air' = air /\ (told' = told \/ told' = Nothing) /\ (call' = call \/ call' = Nothing)
    BY <1>1 DEF InitRuntime, Deinit, Return, NewCall, vars
  <2>2. \A p \in air' : Sound(p)
    BY <2>1 DEF Inv
  <2> QED
    BY <2>1, <2>2, OnTheWayInv
<1>2. CASE Settle
  <2>1. air' = {} /\ told' = Nothing /\ call' = call
    BY <1>2 DEF Settle
  <2>2. \A p \in air' : Sound(p)
    BY <2>1
  <2> QED
    BY <2>1, <2>2, OnTheWayInv
<1>3. CASE \E h \in Hosts : Requests(h)
  BY <1>3, RequestsInv
<1>4. CASE \E h \in Hosts : FollowUps(h)
  BY <1>4, FollowUpsInv
<1>5. CASE \E d \in ForeignData : ForeignAdvert(d)
  BY <1>5, ForeignAdvertInv
<1>6. CASE \E size \in 1 .. 3 : ForeignSnrRequest(size)
  BY <1>6, ForeignSnrRequestInv
<1>7. CASE \E len \in {1, 151}, type \in {"signed", "cli"} : ForeignText(len, type)
  BY <1>7, ForeignTextInv
<1>8. CASE \E p \in air : \E k \in Hops : RelayFlood(p, k)
  BY <1>8, RelaysInv
<1>9. CASE \E p \in air : RelayDirect(p)
  BY <1>9, RelaysDirectInv
<1>10. CASE \E p \in air, h \in Hosts : Receptions(p, h)
  BY <1>10, ReceptionsInv
<1> QED
  BY <1>1, <1>2, <1>3, <1>4, <1>5, <1>6, <1>7, <1>8, <1>9, <1>10 DEF Next

\* The invariant holds for ever.
LEMMA AlwaysInv == Spec => []Inv
<1>1. Init => Inv
  BY DEF Init, Inv, AcceptedIsSent
<1> QED
  BY <1>1, NextInv, PTL DEF Spec

\* meshcore_packet_is_valid_path_len and the 255 bytes of a transport unit: whatever is
\* requested, answered or collected on the way, every frame fits, and every path-length
\* field on the air or told to a host is valid.
THEOREM FramesAlwaysFit == Spec => []FramesFit
<1>1. ASSUME Inv PROVE FramesFit
  <2>1. ASSUME NEW p \in air
        PROVE  /\ p.size <= PAYLOAD_MAX_LEN /\ RawLength(p) <= MAX_TRANS_UNIT_LEN
               /\ IsValidPathLen(p.path) /\ IsValidPathLen(p.body.route)
    <3>1. Sound(p)
      BY <1>1 DEF Inv
    <3>2. RawLength(p) \in 2 .. 255
      BY <3>1, RawLengthIs DEF MAX_TRANS_UNIT_LEN
    <3>3. p.size \in 0 .. 184 /\ p.path \in ValidField /\ p.body.route \in ValidField
      BY <3>1 DEF Sound, PAYLOAD_MAX_LEN
    <3> QED
      BY <3>2, <3>3, ValidFieldIs DEF MAX_TRANS_UNIT_LEN, PAYLOAD_MAX_LEN
  <2>2. told # Nothing => IsValidPathLen(told.path) /\ \A e \in told.events : IsValidPathLen(e.path)
    BY <1>1, ValidFieldIs DEF Inv, ToldOK, EventOK
  <2> QED
    BY <2>1, <2>2 DEF FramesFit
<1> QED
  BY <1>1, AlwaysInv, PTL

\* meshcore_runtime_request_execute_now: a request that the validators accept is one that
\* the builders build, so a host that has what it takes gets its packet sent.
THEOREM AcceptedMeansSent == Spec => []AcceptedIsSent
<1>1. Inv => AcceptedIsSent
  BY DEF Inv
<1> QED
  BY <1>1, AlwaysInv, PTL

\* The meshcore_runtime_*_publish functions tell the host the length that the other host
\* gave, through every builder, padding, path and clipping on the way.
THEOREM DeliversWhole == Spec => []DeliveredWhole
<1>1. Inv => DeliveredWhole
  BY DEF Inv, ToldOK, EventOK, DeliveredWhole
<1> QED
  BY <1>1, AlwaysInv, PTL

\* The receive paths (meshcore_runtime_on_..._recv) of a chat node tell its host of every
\* payload that the API of another node accepted.
THEOREM HostIsReached == Spec => []ReachesHost
<1>1. Inv => ReachesHost
  BY DEF Inv, ToldOK, Reached, ReachesHost
<1> QED
  BY <1>1, AlwaysInv, PTL

\* A text, a telemetry request and a path request are answered: the answer fits beside
\* the longest path the question can have come by (meshcore_mesh_path_return_extra_fits).
THEOREM RequestsAreAnswered == Spec => []Answered
<1>1. Inv => Answered
  BY DEF Inv, ToldOK, Replied, Answered
<1> QED
  BY <1>1, AlwaysInv, PTL

=============================================================================
