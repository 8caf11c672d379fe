----------------------------- MODULE Submission -----------------------------
(***************************************************************************)
(* The public request API (runtime/meshcore_runtime_request.c), the packet *)
(* builders of core/meshcore_mesh.c and what the receiving node makes of a *)
(* packet (runtime/meshcore_runtime_receive.c, _control.c and              *)
(* _event_publish.c), with their real sizes.  Payload bytes are abstracted *)
(* to their number: the module is about what is accepted, what is built,   *)
(* what fits, and how much of it the other host is told.                   *)
(*                                                                         *)
(* The host is asked for its identity, policy, routes and so on at every   *)
(* step and may answer differently each time: h, a member of Hosts, is     *)
(* what it answers.  `told' and a packet's `body' are kept by the model.   *)
(* One exchange at a time: duplicates, tags and time-outs are the business *)
(* of Routing, SourceRoute and Correlation.  Texts have no zero byte.      *)
(***************************************************************************)
EXTENDS PathLen, AdvertData, Sequences

CONSTANTS
  Hosts,        \* what the platform hooks may answer
  Lens,         \* payload lengths the host tries
  Paths,        \* path-length fields it passes
  Hops,         \* numbers of repeaters in a row on the way
  ForeignData,  \* application data of other implementations' adverts
  FloodMax      \* policy.flood_max of the repeaters

\* include/meshcore/types.h, core/meshcore_packet.h, core/meshcore_mesh.c
MAX_MESSAGE_TX_LEN == 160
MAX_SERVICE_REQUEST_PAYLOAD_LEN == 163
MAX_SERVICE_RESPONSE_PAYLOAD_LEN == 163
MAX_TELEMETRY_PAYLOAD_LEN == 163
MAX_ANON_DATA_PAYLOAD_LEN == 136
MAX_CHANNEL_DATA_PAYLOAD_LEN == 165
MAX_RAW_DATA_PAYLOAD_LEN == 184
MAX_CONTROL_DATA_PAYLOAD_LEN == 184
MAX_TRANS_UNIT_LEN == 255
MAX_RAW_ADVERT_LEN == 255
NODE_NAME_MAX_LEN == 32
PUBLIC_KEY_SIZE == 32
SIGNATURE_SIZE == 64
PAYLOAD_MAX_LEN == 184
CIPHER_MAC_SIZE == 2
CIPHER_BLOCK_SIZE == 16
MAX_COMBINED_PATH == PAYLOAD_MAX_LEN - CIPHER_MAC_SIZE - CIPHER_BLOCK_SIZE
TAG == 4                \* a tag, a time stamp or a CRC
REQ_LEN == 9            \* type, permissions, reserved, nonce

NoTelemetry == -1       \* the host has no telemetry for the requester
Roles == {"none", "chat", "repeater", "room", "sensor"}
Route == [known : BOOLEAN, neighbor : BOOLEAN, bytes : 0 .. MaxPathLen, hash_size : 0 .. 255]

ASSUME SubmissionAssumption ==
  /\ MaxPathLen = 64
  /\ \A h \in Hosts :
       /\ {h.identity, h.profile, h.position, h.crypto, h.channel, h.config} \subseteq BOOLEAN
       /\ h.role \in Roles /\ h.name \in 0 .. NODE_NAME_MAX_LEN - 1
       /\ h.hash_size \in 0 .. 255 /\ h.route \in Route
       /\ h.free \in Nat /\ h.extra_acks \in 0 .. 255 /\ h.telemetry \in Nat \cup {NoTelemetry}
  /\ Lens \subseteq Nat /\ Paths \subseteq PathField /\ Hops \subseteq Nat \ {0}
  /\ ForeignData \subseteq
       [type : Roles, loc : BOOLEAN, feat1 : BOOLEAN, feat2 : BOOLEAN, named : BOOLEAN,
        len : 0 .. PAYLOAD_MAX_LEN - (PUBLIC_KEY_SIZE + TAG + SIGNATURE_SIZE)]
  /\ FloodMax \in 1 .. MaxPathLen - 1

VARIABLES
  up,     \* context->initialized
  call,   \* the host's last call and what became of it
  air,    \* packets on their way
  told    \* what the host was told of the last packet received

vars == <<up, call, air, told>>

Nothing == [what |-> "nothing"]
Min2(x, y) == IF x < y THEN x ELSE y

---------------------------------------------------------------------------
(* Packets.                                                                *)

\* meshcore_utils_encrypt: whole blocks, the last one padded with zeros
Padded(n) == ((n + CIPHER_BLOCK_SIZE - 1) \div CIPHER_BLOCK_SIZE) * CIPHER_BLOCK_SIZE
\* meshcore_utils_encrypt_then_mac
Sealed(n) == CIPHER_MAC_SIZE + Padded(n)

\* A packet: type, route, path-length field, SNR transport codes, payload
\* length, plaintext length, and what it is about
Packet(type, size, plain, body) ==
  [type |-> type, flood |-> TRUE, path |-> 0, snr |-> FALSE,
   size |-> size, plain |-> plain, body |-> body]

\* What a payload is about: the kind of request, the length the host gave, the
\* type byte in it, the route in a PATH, an advert's data
NoData == [type |-> "none", loc |-> FALSE, feat1 |-> FALSE, feat2 |-> FALSE,
           named |-> FALSE, len |-> 0]
Body(kind, len) ==
  [what |-> kind, len |-> len, first |-> "other", route |-> 0, data |-> NoData]

\* meshcore_mesh_datagram_plaintext_fits
DatagramFits(n) == n <= PAYLOAD_MAX_LEN - CIPHER_MAC_SIZE - CIPHER_BLOCK_SIZE + 1

\* meshcore_mesh_create_datagram, _anon_datagram, _group_datagram: <<>> is NULL
CreateDatagram(h, type, n, body) ==
  IF DatagramFits(n) /\ h.crypto THEN <<Packet(type, 2 + Sealed(n), n, body)>> ELSE <<>>
CreateAnon(h, n, body) ==
  IF n <= PAYLOAD_MAX_LEN - 1 - PUBLIC_KEY_SIZE - CIPHER_BLOCK_SIZE + 1 /\ h.crypto
  THEN <<Packet("anon", 1 + PUBLIC_KEY_SIZE + Sealed(n), n, body)>> ELSE <<>>
CreateGroup(h, type, n, body) ==
  IF n <= PAYLOAD_MAX_LEN - 1 - CIPHER_BLOCK_SIZE + 1 /\ h.crypto
  THEN <<Packet(type, 1 + Sealed(n), n, body)>> ELSE <<>>

\* A bug: the room the path takes is forgotten.
PathReturnExtraFitsAlone(f, extra) == extra <= MAX_COMBINED_PATH - 5

\* A bug: path and extra data must fit into a path field together.
PathReturnExtraFitsInPath(f, extra) == PathBytes(f) + extra <= MaxPathLen

\* meshcore_mesh_path_return_extra_fits
PathReturnExtraFits(f, extra) ==
  PathBytes(f) <= MAX_COMBINED_PATH - 5 /\ extra <= MAX_COMBINED_PATH - 5 - PathBytes(f)

\* meshcore_mesh_create_path_return_by_dest_hash: path, then the extra data or
\* five bytes of filling
CreatePathReturn(h, f, extra, body) ==
  LET n == 1 + PathBytes(f) + (IF extra > 0 THEN 1 + extra ELSE 5)
  IN IF PathReturnExtraFits(f, extra) /\ h.crypto
     THEN <<Packet("path", 2 + Sealed(n), n, [body EXCEPT !.route = f])>>
     ELSE <<>>

\* meshcore_mesh_create_advert, _ack_data, _multi_ack_data, _raw_data,
\* _control_data, _trace
Advert(d, name) ==
  LET n == PUBLIC_KEY_SIZE + TAG + SIGNATURE_SIZE + d.len
  IN Packet("advert", n, n, [Body("advert", name) EXCEPT !.data = d])
CreateAdvert(d, name) == IF d.len <= MAX_ADVERT_DATA_LEN THEN <<Advert(d, name)>> ELSE <<>>
CreatePlain(type, n, body) ==
  IF n <= PAYLOAD_MAX_LEN THEN <<Packet(type, n, n, body)>> ELSE <<>>

\* meshcore_mesh_send_flood, _send_flood_by_transport_codes, _send_direct,
\* _send_zero_hop
LocalHashSize(h) == NormalizeHashSize(h.hash_size)
SendFlood(h, p) == [p EXCEPT !.flood = TRUE, !.path = Field(LocalHashSize(h), 0)]
SendFloodSnr(h, p) ==
  [p EXCEPT !.flood = TRUE, !.snr = TRUE, !.path = Field(Min2(3, LocalHashSize(h) + 1), 0)]
SendDirect(p, f) == [p EXCEPT !.flood = FALSE, !.path = f]
SendZeroHop(p) == SendDirect(p, 0)
SendToPeer(h, p) ==
  IF PeerPathGet(h.route) = Unknown THEN SendFlood(h, p) ELSE SendDirect(p, PeerPathGet(h.route))

RawLength(p) == 2 + PathBytes(p.path) + p.size + Bytes(p.snr, 4)

---------------------------------------------------------------------------
(* The request API.  A call is refused with an error code, or executed; an *)
(* executor sends a packet, reports a request error, or drops the request. *)

Drop == [end |-> "dropped", pkts |-> {}]
Failed(err) == [end |-> err, pkts |-> {}]
Send(p) == [end |-> "sent", pkts |-> {p}]

\* meshcore_runtime_require_initialized, the validator's verdict, and
\* meshcore_runtime_request_execute_now
HostCall(kind, len, valid, h, R) ==
  LET rc == IF ~up THEN "ENODEV" ELSE IF ~valid THEN "EINVAL"
            ELSE IF h.free = 0 THEN "ENOBUFS" ELSE "0"
  IN /\ call' = [what |-> kind, len |-> len, rc |-> rc, host |-> h,
                 end |-> IF rc = "0" THEN R.end ELSE "refused"]
     /\ air' = IF rc = "0" THEN R.pkts ELSE {}
     /\ UNCHANGED up

Heard(what) == IF told = Nothing THEN {} ELSE {e \in told.events : e.what = what}

\* A call of the host's own accord, and one that uses what it was just told
Idle == call = Nothing /\ air = {}
NewCall == Idle /\ told = Nothing /\ told' = Nothing
FollowUp == Idle /\ told # Nothing /\ told' = Nothing

\* The end of an executor: q is p as it is sent, unless p is NULL
Finish(p, q) == IF p = <<>> THEN Failed("ENOBUFS") ELSE Send(q)

\* Every request has its validator (Valid...), its executor (Execute...), both
\* static in meshcore_runtime_request.c, and the public call that joins them.

AdvertBuilder(h) ==
  [type |-> h.role, loc |-> h.position, feat1 |-> FALSE, feat2 |-> FALSE, name |-> h.name]
ExecuteNodeAdvert(flood, h) ==
  LET p == CreateAdvert(EncodeTo(AdvertBuilder(h)), h.name)
  IN IF ~h.identity \/ ~h.profile THEN Failed("EAGAIN")
     ELSE IF h.role = "none" THEN Drop
     ELSE Finish(p, IF flood THEN SendFlood(h, p[1]) ELSE SendZeroHop(p[1]))
NodeAdvert(flood, h) ==
  NewCall /\ HostCall("node_advert", h.name, TRUE, h, ExecuteNodeAdvert(flood, h))

\* The raw advert of an event is parsed again (packet_read_from) and sent on.
ValidPeerAdvert(raw) == raw.len \in 1 .. MAX_RAW_ADVERT_LEN /\ raw.pkt.type = "advert"
ExecutePeerAdvert(raw) == Send(SendZeroHop(raw.pkt))
NodePeerAdvert(h) ==
  \E e \in Heard("advert") :
    FollowUp /\ HostCall("peer_advert", e.raw.len, ValidPeerAdvert(e.raw), h, ExecutePeerAdvert(e.raw))

ValidMessageToNode(len, attempt) ==
  len \in 1 .. MAX_MESSAGE_TX_LEN /\ (attempt > 3 => len <= MAX_MESSAGE_TX_LEN - 2)
ExecuteMessageToNode(len, flood, attempt, h) ==
  LET n == TAG + 1 + len + (IF attempt > 3 THEN 2 ELSE 0)
      p == CreateDatagram(h, "txt", n, Body("text", len))
  IN IF ~h.identity THEN Failed("EAGAIN")
     ELSE Finish(p, IF flood THEN SendFlood(h, p[1]) ELSE SendToPeer(h, p[1]))
MessageSendToNode(len, flood, attempt, h) ==
  NewCall /\ HostCall("message_to_node", len, ValidMessageToNode(len, attempt), h,
                      ExecuteMessageToNode(len, flood, attempt, h))

\* "name: " precedes the text; an unknown channel or a text that is now too
\* long is dropped without a word
ValidMessageToChannel(len) == len \in 1 .. MAX_MESSAGE_TX_LEN
ExecuteMessageToChannel(len, h) ==
  LET prefix == h.name + 2
      p == CreateGroup(h, "grp_txt", TAG + 1 + prefix + len, Body("channel_text", len))
  IN IF ~h.identity THEN Failed("EAGAIN")
     ELSE IF ~h.channel \/ len + prefix > MAX_MESSAGE_TX_LEN THEN Drop
     ELSE Finish(p, SendFlood(h, p[1]))
MessageSendToChannel(len, h) ==
  NewCall /\ HostCall("message_to_channel", len, ValidMessageToChannel(len), h, ExecuteMessageToChannel(len, h))

ValidPath(f, allow_unknown) == IF f = Unknown THEN allow_unknown ELSE IsValidPathLen(f)

ValidChannelData(len, f) == len <= MAX_CHANNEL_DATA_PAYLOAD_LEN /\ ValidPath(f, TRUE)
ExecuteChannelData(len, f, h) ==
  LET p == CreateGroup(h, "grp_data", 3 + len, Body("channel_data", len))
  IN IF ~h.channel THEN Drop
     ELSE Finish(p, IF f = Unknown THEN SendFlood(h, p[1]) ELSE SendDirect(p[1], f))
ChannelDataSend(len, f, h) ==
  NewCall /\ HostCall("channel_data", len, ValidChannelData(len, f), h, ExecuteChannelData(len, f, h))

\* A telemetry request, which for a discovery is always flooded
RequestData(kind) == [Body(kind, REQ_LEN) EXCEPT !.first = "telemetry"]
ExecuteDiscoverPath(h) ==
  LET p == CreateDatagram(h, "req", TAG + REQ_LEN, RequestData("discovery"))
  IN IF ~h.identity THEN Failed("EAGAIN") ELSE Finish(p, SendFlood(h, p[1]))
DiscoverPath(h) == NewCall /\ HostCall("discover_path", REQ_LEN, TRUE, h, ExecuteDiscoverPath(h))

\* supported: the mask has no other permissions than those there are
ExecuteTelemetry(h) ==
  LET p == CreateDatagram(h, "req", TAG + REQ_LEN, RequestData("telemetry"))
  IN IF ~h.identity THEN Failed("EAGAIN") ELSE Finish(p, SendToPeer(h, p[1]))
NodeTelemetry(supported, h) == NewCall /\ HostCall("telemetry", REQ_LEN, supported, h, ExecuteTelemetry(h))

\* Hashes of three bytes are cut to two; the packet's own path collects SNRs.
ValidTrace(bytes, size) ==
  /\ bytes \in 1 .. MaxPathLen /\ size \in 1 .. 3
  /\ bytes % size = 0 /\ (bytes \div size) % 2 = 1
ExecuteTrace(bytes, size) ==
  LET n == 9 + Min2(size, 2) * (bytes \div size)
  IN Send(SendZeroHop(Packet("trace", n, n, Body("trace", bytes))))
Trace(bytes, size, h) ==
  NewCall /\ HostCall("trace", bytes, ValidTrace(bytes, size), h, ExecuteTrace(bytes, size))

\* The host's payload follows the tag; its first byte may happen to be one of
\* the request types the runtime answers itself.
ValidBinary(len) == len \in 1 .. MAX_SERVICE_REQUEST_PAYLOAD_LEN /\ DatagramFits(TAG + len)
ExecuteBinary(len, first, h) ==
  LET p == CreateDatagram(h, "req", TAG + len, [Body("binary", len) EXCEPT !.first = first])
  IN IF ~h.identity THEN Failed("EAGAIN") ELSE Finish(p, SendToPeer(h, p[1]))
NodeBinary(len, first, h) ==
  NewCall /\ HostCall("binary", len, ValidBinary(len), h, ExecuteBinary(len, first, h))

ValidAnonData(len) == len \in 1 .. MAX_ANON_DATA_PAYLOAD_LEN
ExecuteAnonData(len, h) ==
  LET p == CreateAnon(h, len, Body("anon", len))
  IN IF ~h.identity THEN Failed("EAGAIN") ELSE Finish(p, SendToPeer(h, p[1]))
NodeAnonData(len, h) == NewCall /\ HostCall("anon", len, ValidAnonData(len), h, ExecuteAnonData(len, h))

\* A bug: the validator forgets that the answer to a flood carries a path.
ResponseValidDirect(req, len) ==
  len <= MAX_SERVICE_RESPONSE_PAYLOAD_LEN /\ DatagramFits(TAG + len)

\* req: the binary-request event the host answers
ResponseValid(req, len) ==
  /\ len <= MAX_SERVICE_RESPONSE_PAYLOAD_LEN /\ DatagramFits(TAG + len)
  /\ req.len <= MAX_SERVICE_REQUEST_PAYLOAD_LEN
  /\ req.flood => IsValidPathLen(req.path) /\ PathReturnExtraFits(req.path, TAG + len)
ExecuteBinaryResponse(req, len, h) ==
  LET body == Body("response", len)
      p == IF req.flood THEN CreatePathReturn(h, req.path, TAG + len, body)
           ELSE CreateDatagram(h, "resp", TAG + len, body)
  IN IF ~h.identity THEN Failed("EAGAIN")
     ELSE Finish(p, IF req.flood THEN SendFlood(h, p[1]) ELSE SendToPeer(h, p[1]))
NodeBinaryResponse(len, h) ==
  \E req \in Heard("binary_request") :
    FollowUp /\ HostCall("binary_response", len, ResponseValid(req, len), h, ExecuteBinaryResponse(req, len, h))

\* Type and flags, filter, tag, since
ExecuteDiscover ==
  LET p == CreatePlain("control", 10, [Body("control", 10) EXCEPT !.first = "discover_req"])
  IN Finish(p, SendZeroHop(p[1]))
NodeDiscover(filter, h) == NewCall /\ HostCall("discover", 10, filter # {}, h, ExecuteDiscover)

ValidRawData(len, f) == len \in 1 .. MAX_RAW_DATA_PAYLOAD_LEN /\ ValidPath(f, FALSE)
ExecuteRawData(len, f) ==
  LET p == CreatePlain("raw", len, Body("raw", len)) IN Finish(p, SendDirect(p[1], f))
RawDataSend(len, f, h) == NewCall /\ HostCall("raw", len, ValidRawData(len, f), h, ExecuteRawData(len, f))

\* first: what the first byte says; its highest bit must be set
ValidControlData(len, first) == len \in 1 .. MAX_CONTROL_DATA_PAYLOAD_LEN /\ first # "unflagged"
ExecuteControlData(len, first) ==
  LET p == CreatePlain("control", len, [Body("control", len) EXCEPT !.first = first])
  IN Finish(p, SendZeroHop(p[1]))
ControlDataSend(len, first, h) ==
  NewCall /\ HostCall("control", len, ValidControlData(len, first), h, ExecuteControlData(len, first))

---------------------------------------------------------------------------
(* On the way.                                                             *)

Replaced(p, q) == call = Nothing /\ air' = (air \ {p}) \cup {q} /\ UNCHANGED <<up, call, told>>

\* meshcore_mesh_route_recv_packet, by k repeaters in a row
RelayFlood(p, k) ==
  LET n == HashCount(p.path)
  IN /\ p \in air /\ p.flood /\ n = 0 /\ k <= FloodMax
     /\ k * HashSize(p.path) <= MaxPathLen
     /\ Replaced(p, [p EXCEPT !.path = SetHashCount(@, k)])

\* The source-routed branch of meshcore_mesh_on_recv_packet, by all its repeaters
RelayDirect(p) ==
  /\ p \in air /\ ~p.flood /\ HashCount(p.path) > 0
  /\ Replaced(p, [p EXCEPT !.path = SetHashCount(@, 0)])

\* Other implementations of the protocol are on the air too: their adverts, and
\* requests for a path with SNRs, flooded with a transport code, and texts of a
\* kind this runtime never sends.
Foreign(p) ==
  /\ NewCall
  /\ air' = {p}
  /\ UNCHANGED <<up, call>>

ForeignAdvert(d) == Foreign(Advert(d, NameLen(d)))

\* A signed text has a prefix of the signer's key; a CLI text is not for the host.
ForeignText(len, type) ==
  LET n == TAG + 1 + (IF type = "signed" THEN 4 ELSE 0) + len
  IN Foreign(CreateDatagram([crypto |-> TRUE], "txt", n, [Body("text", len) EXCEPT !.first = type])[1])

ForeignSnrRequest(size) ==
  LET p == CreateDatagram([crypto |-> TRUE], "req", TAG + REQ_LEN,
                          [Body("snr_path", REQ_LEN) EXCEPT !.first = "discover"])[1]
  IN Foreign([p EXCEPT !.snr = TRUE, !.path = Field(size, 0)])

---------------------------------------------------------------------------
(* Reception, by the node a packet is for.  n is the decrypted length.     *)

Arrived(p, type) == call = Nothing /\ p \in air /\ p.type = type /\ (p.flood \/ HashCount(p.path) = 0)
Event(what, len) ==
  [what |-> what, len |-> len, flood |-> FALSE, path |-> 0, position |-> FALSE,
   outs |-> 0, rets |-> 0, raw |-> [len |-> 0, pkt |-> Nothing]]

\* The host is told `events'; of the replies, those find a buffer that come first.
Received(p, h, events, replies) ==
  LET sent == SubSeq(replies, 1, Min2(h.free, Len(replies)))
  IN /\ air' = (air \ {p}) \cup {sent[i] : i \in DOMAIN sent}
     /\ told' = [body |-> p.body, events |-> events, path |-> p.path, flood |-> p.flood,
                 host |-> h, replied |-> sent # <<>>]
     /\ UNCHANGED <<up, call>>

\* meshcore_utils_mac_then_decrypt: the plaintext comes with its padding
SealedLen(p) == Padded(p.plain)

\* meshcore_runtime_text_message_publish
TextMessage(n) == IF n > 0 THEN {Event("message", Min2(n, MAX_MESSAGE_TX_LEN))} ELSE {}

\* meshcore_runtime_handle_text_follow_up, _send_ack_or_path_return, _send_ack_direct
AckReply(p, h) ==
  LET n == IF p.body.first = "signed" THEN 4 ELSE 6
      body == Body("ack", n)
      back == CreatePathReturn(h, p.path, n, body)
      ack == Packet("ack", n, n, body)
      multi == Packet("multipart", 1 + n, 1 + n, body)
  IN IF p.flood THEN IF back = <<>> THEN <<>> ELSE <<SendFlood(h, back[1])>>
     ELSE IF PeerPathGet(h.route) = Unknown THEN <<SendFlood(h, ack)>>
     ELSE LET f == PeerPathGet(h.route)
          IN (IF h.extra_acks > 0 THEN <<SendDirect(multi, f)>> ELSE <<>>)
             \o <<SendDirect(ack, f)>>

\* meshcore_runtime_on_peer_data_recv, TXT_MSG: the text ends at the first zero
ReceiveText(p, h) ==
  LET chat == h.identity /\ h.role = "chat" /\ p.body.first # "cli"
      text == Min2(p.body.len, SealedLen(p) - (IF p.body.first = "signed" THEN 9 ELSE 5))
  IN /\ Arrived(p, "txt")
     /\ Received(p, h,
                 IF chat THEN TextMessage(text) ELSE {},
                 IF chat THEN AckReply(p, h) ELSE <<>>)

\* meshcore_runtime_handle_telemetry_request
TelemetryReply(p, h) ==
  LET len == TAG + h.telemetry
      body == Body(IF p.body.what = "discovery" THEN "discovered" ELSE "response", h.telemetry)
      r == IF h.telemetry \notin 0 .. MAX_TELEMETRY_PAYLOAD_LEN THEN <<>>
           ELSE IF p.flood THEN CreatePathReturn(h, p.path, len, body)
           ELSE CreateDatagram(h, "resp", len, body)
  IN IF r = <<>> THEN <<>> ELSE <<IF p.flood THEN SendFlood(h, r[1]) ELSE SendToPeer(h, r[1])>>

\* meshcore_runtime_build_forward_path_snrs, with its own SNR appended, and
\* meshcore_runtime_handle_discover_path_request
ForwardHops(p) == HashCount(p.path)
HasSnrPath(p) == p.snr /\ HashSize(p.path) \in 2 .. 3
SnrPathReply(p, h) ==
  LET size == HashSize(p.path) - 1
      snrs == Min2(ForwardHops(p) + 1, MaxPathLen)
      r == IF HasSnrPath(p)
           THEN CreatePathReturn(h, EncodePathLen(size, ForwardHops(p) * size), 1 + snrs,
                                 [Body("snrs", snrs) EXCEPT !.first = "snr"])
           ELSE CreatePathReturn(h, p.path, 0, Body("path", 0))
  IN IF ~p.flood \/ r = <<>> THEN <<>>
     ELSE <<IF HasSnrPath(p) THEN SendFloodSnr(h, r[1]) ELSE SendFlood(h, r[1])>>

\* meshcore_runtime_binary_request_publish: if it fits into the event
BinaryRequest(p, n) ==
  IF n \in 1 .. MAX_SERVICE_REQUEST_PAYLOAD_LEN
  THEN {[Event("binary_request", n) EXCEPT !.flood = p.flood, !.path = p.path]} ELSE {}

\* REQ: answered by the runtime, or published
ReceiveRequest(p, h) ==
  LET answers == h.identity /\ h.role # "none" /\ p.body.first = "telemetry"
      snrs == h.identity /\ h.role = "chat"
              /\ (p.body.first = "discover" \/ (p.body.first = "telemetry" /\ p.snr))
  IN /\ Arrived(p, "req")
     /\ IF snrs THEN Received(p, h, {}, SnrPathReply(p, h))
        ELSE IF answers THEN Received(p, h, {}, TelemetryReply(p, h))
        ELSE Received(p, h, BinaryRequest(p, SealedLen(p) - TAG), <<>>)

\* RESPONSE, for a request that is pending (see Correlation)
ReceiveResponse(p, h) ==
  /\ Arrived(p, "resp")
  /\ Received(p, h, {Event("response", SealedLen(p) - TAG)}, <<>>)

\* The extra data of a PATH with its padding, as the receiver measures it
ExtraLen(p) == SealedLen(p) - 2 - PathBytes(p.body.route)

\* meshcore_runtime_peer_path_publish: the route, and the SNRs on the way out and
\* on the way back
ReturnSnrs(p) == IF HasSnrPath(p) THEN Min2(ForwardHops(p) + 1, MaxPathLen) ELSE 0
PeerPath(p, chat) ==
  LET snr == chat /\ p.body.first = "snr"
  IN IF ~IsValidPathLen(p.body.route) THEN {}
     ELSE {[Event("peer_path", PathBytes(p.body.route)) EXCEPT
              !.path = p.body.route,
              !.outs = IF snr THEN Min2(p.body.len, Min2(ExtraLen(p) - 1, MaxPathLen)) ELSE 0,
              !.rets = IF snr THEN ReturnSnrs(p) ELSE 0]}

\* meshcore_runtime_on_peer_path_recv: the answer to a discovery, or an
\* acknowledgement or a response in the extra data; the route; and the
\* reciprocal PATH for a flooded one
ReceivePath(p, h) ==
  LET chat == h.identity /\ h.role = "chat"
      found == p.body.what = "discovered" /\ IsValidPathLen(p.body.route)
      back == CreatePathReturn(h, p.path, 0, Body("path", 0))
  IN /\ Arrived(p, "path")
     /\ Received(p, h,
          (IF chat /\ p.body.what \in {"ack", "response"}
           THEN {Event(p.body.what, ExtraLen(p) - TAG)} ELSE {})
            \cup PeerPath(p, chat),
          IF (found \/ chat) /\ p.flood /\ back # <<>> THEN <<SendDirect(back[1], p.body.route)>> ELSE <<>>)

\* An ACK, alone or as the part of a MULTIPART
ReceiveAck(p, h) ==
  /\ Arrived(p, "ack") \/ Arrived(p, "multipart")
  /\ Received(p, h, {Event("ack", 6)}, <<>>)

\* meshcore_platform_mesh_on_anon_data_recv
ReceiveAnon(p, h) ==
  /\ Arrived(p, "anon")
  /\ Received(p, h, IF SealedLen(p) > 0 THEN {Event("anon", SealedLen(p))} ELSE {}, <<>>)

\* meshcore_runtime_channel_text_publish: "name: " is split off
ChannelText(p) ==
  IF p.body.len > 0 THEN {Event("message", Min2(p.body.len, MAX_MESSAGE_TX_LEN))} ELSE {}

\* meshcore_runtime_on_group_data_recv: a text, or data that carries its length
ReceiveGroupText(p, h) ==
  /\ Arrived(p, "grp_txt")
  /\ Received(p, h, IF h.identity /\ h.role = "chat" /\ h.channel THEN ChannelText(p) ELSE {}, <<>>)

\* A bug: the data is taken to fill its blocks.
ChannelDataLenPadded(p) == SealedLen(p) - 3

\* meshcore_runtime_channel_data_publish: the length is in the third byte
ChannelDataLen(p) == p.body.len

ChannelData(p) ==
  IF ChannelDataLen(p) <= Min2(SealedLen(p) - 3, MAX_CHANNEL_DATA_PAYLOAD_LEN)
  THEN {Event("channel_data", ChannelDataLen(p))} ELSE {}

ReceiveGroupData(p, h) ==
  /\ Arrived(p, "grp_data")
  /\ Received(p, h, IF h.identity /\ h.role = "chat" /\ h.channel THEN ChannelData(p) ELSE {}, <<>>)

\* A bug: the longest payload is taken for too long.
RawDataShorter(p) ==
  IF p.size \in 1 .. MAX_RAW_DATA_PAYLOAD_LEN - 1 THEN {Event("raw", p.size)} ELSE {}

\* meshcore_runtime_raw_data_publish, meshcore_runtime_on_raw_data_recv
RawData(p) ==
  IF p.size \in 1 .. MAX_RAW_DATA_PAYLOAD_LEN THEN {Event("raw", p.size)} ELSE {}
ReceiveRaw(p, h) == Arrived(p, "raw") /\ Received(p, h, RawData(p), <<>>)

\* meshcore_runtime_handle_control_discover_request, for a filter and a time
\* that match or not; prefix_only shortens the key
DiscoverReply(p, h, matches, prefix) ==
  LET n == 6 + (IF prefix THEN 8 ELSE PUBLIC_KEY_SIZE)
  IN IF p.body.first = "discover_req" /\ p.size >= 6 /\ h.config /\ h.identity
        /\ h.role # "none" /\ matches
     THEN <<SendZeroHop(Packet("control", n, n, [Body("control", n) EXCEPT !.first = "discover_resp"]))>>
     ELSE <<>>

\* meshcore_runtime_node_discover_publish, for an answer that names a role, and
\* meshcore_runtime_control_data_publish
NodeDiscovered(p) ==
  IF p.body.first = "discover_resp" /\ p.size >= 6 + 8
  THEN {Event("node_discover", Min2(p.size - 6, PUBLIC_KEY_SIZE))} ELSE {}
ControlData(p) ==
  IF p.size \in 1 .. MAX_CONTROL_DATA_PAYLOAD_LEN THEN {Event("control", p.size)} ELSE {}

\* meshcore_runtime_on_control_data_recv
ReceiveControl(p, h, matches, prefix) ==
  /\ Arrived(p, "control")
  /\ Received(p, h, NodeDiscovered(p) \cup ControlData(p), DiscoverReply(p, h, matches, prefix))

\* meshcore_runtime_raw_advert_copy: the raw advert is kept with a flood header
RawAdvert(p) ==
  LET q == [p EXCEPT !.flood = TRUE, !.snr = FALSE] IN [len |-> RawLength(q), pkt |-> q]

\* meshcore_runtime_advert_publish
AdvertEvent(p, d) ==
  IF d.type = "none" THEN {}
  ELSE {[Event("advert", NameLen(d)) EXCEPT !.position = d.loc, !.path = p.path, !.raw = RawAdvert(p)]}

\* meshcore_runtime_on_advert_recv: a chat node is told of named adverts, a
\* repeater of its neighbours
ReceiveAdvert(p, h) ==
  LET d == [p.body.data EXCEPT !.len = Min2(@, MAX_ADVERT_DATA_LEN)]
      heard == /\ h.identity /\ d.len > 0 /\ IsValid(d)
               /\ \/ h.role = "chat" /\ NameLen(d) > 0
                  \/ h.role = "repeater" /\ p.path = 0 /\ d.type = "repeater"
  IN /\ Arrived(p, "advert")
     /\ Received(p, h, IF heard THEN AdvertEvent(p, d) ELSE {}, <<>>)

---------------------------------------------------------------------------

InitRuntime == ~up /\ up' = TRUE /\ UNCHANGED <<call, air, told>>
Deinit == up /\ NewCall /\ up' = FALSE /\ UNCHANGED <<call, air>>

\* The call returns; its packet is transmitted from the loop.
Return == call # Nothing /\ call' = Nothing /\ UNCHANGED <<up, air, told>>

\* The host is done with this exchange, or the packets are lost.
Settle ==
  /\ call = Nothing /\ ~(air = {} /\ told = Nothing)
  /\ air' = {} /\ told' = Nothing
  /\ UNCHANGED <<up, call>>

Init == up = FALSE /\ call = Nothing /\ air = {} /\ told = Nothing

Requests(h) ==
  \/ \E flood \in BOOLEAN : NodeAdvert(flood, h)
  \/ \E len \in Lens, flood \in BOOLEAN, attempt \in {3, 4} : MessageSendToNode(len, flood, attempt, h)
  \/ \E len \in Lens : MessageSendToChannel(len, h)
  \/ \E len \in Lens, f \in Paths : ChannelDataSend(len, f, h)
  \/ DiscoverPath(h)
  \/ \E supported \in BOOLEAN : NodeTelemetry(supported, h)
  \/ \E bytes \in Lens, size \in 0 .. 4 : Trace(bytes, size, h)
  \/ \E len \in Lens, first \in {"telemetry", "discover", "other"} : NodeBinary(len, first, h)
  \/ \E len \in Lens : NodeAnonData(len, h)
  \/ \E filter \in {{}, {"chat"}} : NodeDiscover(filter, h)
  \/ \E len \in Lens, f \in Paths : RawDataSend(len, f, h)
  \/ \E len \in Lens, first \in {"unflagged", "discover_req", "discover_resp", "other"} :
       ControlDataSend(len, first, h)

FollowUps(h) ==
  \/ NodePeerAdvert(h)
  \/ \E len \in Lens : NodeBinaryResponse(len, h)

Receptions(p, h) ==
  \/ ReceiveText(p, h)
  \/ ReceiveRequest(p, h)
  \/ ReceiveResponse(p, h)
  \/ ReceivePath(p, h)
  \/ ReceiveAck(p, h)
  \/ ReceiveAnon(p, h)
  \/ ReceiveGroupText(p, h)
  \/ ReceiveGroupData(p, h)
  \/ ReceiveRaw(p, h)
  \/ \E matches, prefix \in BOOLEAN : ReceiveControl(p, h, matches, prefix)
  \/ ReceiveAdvert(p, h)

Next ==
  \/ InitRuntime \/ Deinit \/ Return \/ Settle
  \/ Idle /\ told = Nothing /\ \E h \in Hosts : Requests(h)
  \/ Idle /\ told # Nothing /\ \E h \in Hosts : FollowUps(h)
  \/ \E d \in ForeignData : ForeignAdvert(d)
  \/ \E size \in 1 .. 3 : ForeignSnrRequest(size)
  \/ \E len \in {1, 151}, type \in {"signed", "cli"} : ForeignText(len, type)
  \/ \E p \in air : \E k \in Hops : RelayFlood(p, k)
  \/ \E p \in air : RelayDirect(p)
  \/ \E p \in air, h \in Hosts : Receptions(p, h)

Spec == Init /\ [][Next]_vars

---------------------------------------------------------------------------
(* Correctness.                                                            *)

\* Whatever is requested or answered, and however long the path it collected, a
\* payload fits into the packet and the frame into a transport unit; and every
\* path-length field on the air or reported to a host is one that
\* meshcore_packet_is_valid_path_len accepts.
FramesFit ==
  /\ \A p \in air :
       /\ p.size <= PAYLOAD_MAX_LEN /\ RawLength(p) <= MAX_TRANS_UNIT_LEN
       /\ IsValidPathLen(p.path) /\ IsValidPathLen(p.body.route)
  /\ told # Nothing => IsValidPathLen(told.path) /\ \A e \in told.events : IsValidPathLen(e.path)

Able(h) == h.identity /\ h.profile /\ h.crypto /\ h.channel /\ h.role # "none"

\* A request that was accepted with 0 leaves the node when the host has what it
\* takes: the validators leave nothing for the builders to refuse.  (A channel
\* text too long for "name: " in front of it is the known exception.)  The raw
\* advert the runtime hands out is one that it takes back.
AcceptedIsSent ==
  call # Nothing =>
    /\ call.rc = "0" /\ Able(call.host) =>
         \/ call.end = "sent"
         \/ call.what = "message_to_channel" /\ call.len + call.host.name + 2 > MAX_MESSAGE_TX_LEN
    /\ call.what = "peer_advert" => call.rc # "EINVAL"

\* A host is told the whole of what the other host sent, by whichever route and
\* in whichever packet it came: the text, data or control payload exactly, an
\* opaque payload with less than a cipher block of padding, a name cut to the
\* advert's space.
DeliveredWhole ==
  told # Nothing =>
    \A e \in told.events :
      LET b == told.body
      IN /\ e.what \in {"message", "channel_data", "raw", "control"} => e.len = b.len
         /\ e.what \in {"binary_request", "response", "anon"} =>
              e.len \in b.len .. b.len + CIPHER_BLOCK_SIZE - 1
         /\ e.what = "advert" =>
              /\ e.len = Min2(b.len, MAX_ADVERT_DATA_LEN - FixedLen(b.data))
              /\ e.position = b.data.loc

\* A chat node's host is told of everything a host elsewhere got accepted and
\* sent, up to the largest size the API takes.  (Not of a binary request that
\* starts like one the runtime answers itself, nor of one of more than 156
\* bytes: see BinaryReachesHost.)
ReachesHost ==
  told # Nothing /\ Able(told.host) /\ told.host.role = "chat" =>
    LET b == told.body
    IN \/ told.events # {}
       \/ b.first # "other" \/ (b.what = "binary" /\ b.len > 156)
       \/ b.what = "advert" /\ (b.len = 0 \/ ~IsValid(b.data) \/ b.data.type = "none")

\* A text, a telemetry request with up to 93 bytes to report and a flooded path
\* request are answered whatever path they came by: the answer fits beside the
\* longest path.
Answered ==
  told # Nothing /\ Able(told.host) /\ told.host.role = "chat" /\ told.host.free > 0 =>
    LET b == told.body
    IN (\/ b.what = "text" /\ b.first # "cli"
        \/ b.first = "telemetry" /\ told.host.telemetry \in 0 .. 93
        \/ b.what = "snr_path")
         => told.replied

\* What the API documents for a binary request: a payload it accepts is one the
\* other host is given.
BinaryReachesHost ==
  told # Nothing /\ told.body.what = "binary" /\ told.body.first = "other" => told.events # {}

=============================================================================
