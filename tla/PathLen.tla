------------------------------ MODULE PathLen ------------------------------
(***************************************************************************)
(* The path-length byte of a packet (core/meshcore_packet.c and its        *)
(* helpers in runtime/meshcore.c): two bits hold the width of a node hash, *)
(* minus one, and six bits the number of hashes.  The largest number of    *)
(* path bytes and the modulus of the count are both MESHCORE_MAX_PATH_LEN, *)
(* 64; a smaller value scales the byte down.                               *)
(***************************************************************************)
EXTENDS Integers

CONSTANT MaxPathLen     \* MESHCORE_MAX_PATH_LEN

ASSUME PathLenAssumption == MaxPathLen \in Nat \ {0}

PathField == 0 .. 4 * MaxPathLen - 1
Unknown == 4 * MaxPathLen - 1           \* MESHCORE_OUT_PATH_UNKNOWN

HashSize(f) == f \div MaxPathLen + 1
HashCount(f) == f % MaxPathLen
PathBytes(f) == HashSize(f) * HashCount(f)

\* meshcore_packet_is_valid_path_len, meshcore_runtime_path_len_decode
IsValidPathLen(f) == HashSize(f) # 4 /\ PathBytes(f) <= MaxPathLen

\* meshcore_packet_set_path_hash_size_and_count and _set_path_hash_count: the
\* count is cut to its six bits
Field(size, count) == (size - 1) * MaxPathLen + (count % MaxPathLen)
SetHashCount(f, count) == Field(HashSize(f), count)

\* meshcore_runtime_normalize_path_hash_size
NormalizeHashSize(size) == IF size \in 1 .. 3 THEN size ELSE 1

\* meshcore_runtime_path_len_encode: the field of a path of so many bytes
CanEncode(size, bytes) == bytes % size = 0 /\ bytes \div size < MaxPathLen
EncodePathLen(size, bytes) == Field(size, bytes \div size)

\* meshcore_runtime_peer_path_get: an empty path is a route to a neighbour only
PeerPathGet(r) ==
  LET size == NormalizeHashSize(r.hash_size)
  IN IF r.known /\ (r.bytes > 0 \/ r.neighbor) /\ CanEncode(size, r.bytes)
     THEN EncodePathLen(size, r.bytes) ELSE Unknown

=============================================================================
