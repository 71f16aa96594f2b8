------------------------------- MODULE Kernel -------------------------------
(***************************************************************************)
(* The kernel's polling loop (kernel.cpp) with the Circle adapter          *)
(* (dhcp-server.cpp) on the ARRAY back end, from the bytes of a frame to   *)
(* the bytes of the reply.  A frame is received into one buffer that is    *)
(* never cleared, so behind a short message lies what longer frames have   *)
(* left there.                                                             *)
(*                                                                         *)
(* A client that declines stops using its address at once, while its       *)
(* DECLINE is under way and may arrive late or twice.                      *)
(***************************************************************************)
EXTENDS ArrayPool, DhcpWire

CONSTANTS
  Frames,    \* what hosts on the network send
  Noise,     \* what the buffer may hold before the first frame
  Config     \* server_ip, subnet_mask, gateway_ip, dns_ip as bytes

VARIABLES
  FrameBuffer,   \* the part of the buffer where the options of a DHCP message are
  meant,         \* history: what the sender of the last frame asks of the server
  handled,       \* history: what the back end did on the last frame
  declines,      \* the clients whose DECLINE is under way
  late           \* history: running leases <<m, ip>> that a DECLINE of an earlier one has freed

kernelVars == <<vars, FrameBuffer, meant, handled, declines, late>>

-----------------------------------------------------------------------------
(***************************************************************************)
(* Frames.  The sender encodes a list of options, each a pair of code and  *)
(* data; ending says whether END follows, or END and a padding to more     *)
(* bytes than the server keeps (build_frame), or nothing.  A short frame   *)
(* lacks a part of the fixed header.  Frames of other kinds differ from a  *)
(* DHCP message to a server in one of the fields the server looks at and   *)
(* are like one otherwise.                                                 *)
(***************************************************************************)
DHCP_FIXED_LEN == 240

EtherType(f) == IF f.kind = "ARP" THEN 2054 ELSE 2048

Protocol(f) == IF f.kind = "TCP" THEN 6 ELSE 17

DstPort(f) == IF f.kind = "REPLY" THEN 68 ELSE 67

HasCookie(f) == f.kind # "BOOTP"

Ending(ending) ==
  CASE ending = "none" -> <<>>
    [] ending = "END" -> <<DHCP_OPT_END>>
    [] ending = "padded" -> <<DHCP_OPT_END>> \o Zeros

Piece(o) == <<o[1], Len(o[2])>> \o o[2]

\* The bytes of a list of options.
Encoded(options) ==
  LET first[n \in 0 .. Len(options)] ==
        IF n = 0 THEN <<>> ELSE first[n - 1] \o Piece(options[n])
  IN  first[Len(options)]

Value(options, option) ==
  LET hits == {i \in DOMAIN options : options[i][1] = option}
  IN  IF hits = {} THEN <<>> ELSE options[Min(hits)][2]

Job(type, m, ip) == [type |-> type, mac |-> m, ip |-> ip]

NoJob == Job(0, NoMac, 0)

\* What a sender means by its options: a message without a meaning is not answered.
Meaning(m, options) ==
  LET type == Value(options, DHCP_OPT_MESSAGE_TYPE)
      ip == Value(options, DHCP_OPT_REQUESTED_IP)
  IN  CASE type \in {<<DHCP_DISCOVER>>, <<DHCP_DECLINE>>} -> Job(type[1], m, 0)
        [] type = <<DHCP_REQUEST>> /\ Len(ip) = 4 -> Job(DHCP_REQUEST, m, ip_to_uint32(ip))
        [] OTHER -> NoJob

Frame(kind, short, m, options, ending) ==
  [kind |-> kind, short |-> short, chaddr |-> m, options |-> options, ending |-> ending]

Body(f) == Encoded(f.options) \o Ending(f.ending)

Asks(f) == IF f.kind = "DHCP" /\ ~f.short THEN Meaning(f.chaddr, f.options) ELSE NoJob

\* DHCPRequestLen: the UDP length without its header.
Length(f) == IF f.short THEN DHCP_FIXED_LEN - 1 ELSE DHCP_FIXED_LEN + Len(Body(f))

\* Data of a length that fits its byte, one byte for the type.
WellFormed(options) ==
  /\ options \in Seq(Codes \X Seq(Bytes))
  /\ \A i \in DOMAIN options :
       /\ Len(options[i][2]) <= 255
       /\ options[i][1] = DHCP_OPT_MESSAGE_TYPE => Len(options[i][2]) = 1

(***************************************************************************)
(* Senders encode as RFC 2132 has it and within the area the server keeps. *)
(* Who asks something of the server is a client.                           *)
(***************************************************************************)
ASSUME KernelAssumption ==
  /\ OptLen \in Nat \ {0}
  /\ \A area \in Noise : area \in [Places -> Bytes]
  /\ \A f \in Frames :
       /\ f.kind \in {"DHCP", "BOOTP", "ARP", "TCP", "REPLY"}
       /\ f.short \in BOOLEAN
       /\ f.ending \in {"none", "END", "padded"}
       /\ WellFormed(f.options)
       /\ Len(Encoded(f.options)) <= OptLen
       /\ Asks(f) # NoJob => f.chaddr \in Macs

(***************************************************************************)
(* The area has room for the options of a reply, and the server's address, *)
(* 192.168.4.1 in the constructor of CDHCPServer, has no byte that is 255. *)
(***************************************************************************)
ASSUME ReplyAssumption ==
  /\ OptLen >= 34
  /\ \A b \in {Config.server_ip, Config.subnet_mask, Config.gateway_ip, Config.dns_ip} :
       b \in Seq(Bytes) /\ Len(b) = 4
  /\ \A i \in 1 .. 4 : Config.server_ip[i] # DHCP_OPT_END

-----------------------------------------------------------------------------
(***************************************************************************)
(* dhcp_process_message_array on the message of client m with options a.   *)
(***************************************************************************)
Handle(job) == handled' = job

OnDiscover(m) == Discover(m) /\ Handle(Job(DHCP_DISCOVER, m, 0))

OnRequest(m, a) ==
  LET opt == dhcp_get_option(a, DHCP_OPT_REQUESTED_IP)
  IN  \/ /\ Len(opt) = 4
         /\ Request(m, ip_to_uint32(opt))
         /\ Handle(Job(DHCP_REQUEST, m, ip_to_uint32(opt)))
      \/ /\ Len(opt) # 4
         /\ Ignore
         /\ Handle(NoJob)

OnDecline(m) == DeclineLease(m) /\ UNCHANGED left /\ Handle(Job(DHCP_DECLINE, m, 0))

dhcp_process_message_array(m, a) ==
  LET msg_type == dhcp_get_message_type(a)
  IN  CASE msg_type = DHCP_DISCOVER -> OnDiscover(m)
        [] msg_type = DHCP_REQUEST -> OnRequest(m, a)
        [] msg_type = DHCP_DECLINE -> OnDecline(m)
        [] OTHER -> Ignore /\ Handle(NoJob)

-----------------------------------------------------------------------------
(***************************************************************************)
(* The adapter.  Only the check of the type and CraftDHCPAck go by the     *)
(* length of the message; the others take the whole area.                  *)
(***************************************************************************)
ProcessDHCPHdr(f, area) ==
  IF Length(f) < DHCP_FIXED_LEN \/ ~HasCookie(f) THEN 0
  ELSE dhcp_get_message_type(hdrToMsg(area, Length(f) - DHCP_FIXED_LEN))

CraftDHCPOffer(f, area) == dhcp_process_message_array(f.chaddr, hdrToMsg(area, OptLen))

\* Mutant: the REQUEST is read to the end of the area.
CraftDHCPAckWhole(f, area) == dhcp_process_message_array(f.chaddr, hdrToMsg(area, OptLen))

CraftDHCPAck(f, area) ==
  dhcp_process_message_array(f.chaddr, hdrToMsg(area, Length(f) - DHCP_FIXED_LEN))

HandleDHCPDecline(f, area) == dhcp_process_message_array(f.chaddr, hdrToMsg(area, OptLen))

\* The reply as the library builds it, and as the kernel sends it.
Built ==
  CASE resp.type = "OFFER" -> dhcp_build_offer(Config, resp.ip, resp.lease)
    [] resp.type = "ACK" -> dhcp_build_ack(Config, resp.ip, resp.lease)
    [] resp.type = "NAK" -> dhcp_build_nak

Sent ==
  [yiaddr |-> uint32_to_ip(Built.yiaddr), siaddr |-> Built.siaddr,
   options |-> msgToHdr(Built.options)]

-----------------------------------------------------------------------------
(***************************************************************************)
(* One turn of the loop in CKernel::Run.                                   *)
(***************************************************************************)
ReceiveFrame(f) ==
  IF Len(Body(f)) >= OptLen THEN SubSeq(Body(f), 1, OptLen)
  ELSE Over(Body(f), Len(Body(f)), FrameBuffer)

\* Ethernet type 0x800, protocol 17, destination port 67.
ForServer(f) == EtherType(f) = 2048 /\ Protocol(f) = 17 /\ DstPort(f) = 67

MsgType(f, area) == IF ForServer(f) THEN ProcessDHCPHdr(f, area) ELSE 0

Dispatch(f, area) ==
  LET msgType == MsgType(f, area)
  IN  CASE msgType = DHCP_DISCOVER -> CraftDHCPOffer(f, area)
        [] msgType = DHCP_REQUEST -> CraftDHCPAck(f, area)
        [] msgType = DHCP_DECLINE -> HandleDHCPDecline(f, area)
        [] OTHER -> Ignore /\ Handle(NoJob)

Receive(f) ==
  /\ FrameBuffer' = ReceiveFrame(f)
  /\ Dispatch(f, FrameBuffer')
  /\ meant' = Asks(f)

\* A frame that is no DECLINE can come at any time.  What is acknowledged is in the table again.
ReceiveAny(f) ==
  /\ Asks(f).type # DHCP_DECLINE
  /\ Receive(f)
  /\ late' = IF resp'.type = "ACK" THEN late \ {<<resp'.mac, resp'.ip>>} ELSE late
  /\ UNCHANGED declines

\* A DECLINE arrives, for the last time or not.
ReceiveDecline(f) ==
  /\ Asks(f).type = DHCP_DECLINE
  /\ f.chaddr \in declines
  /\ Receive(f)
  /\ declines' \in {declines, declines \ {f.chaddr}}
  /\ late' = late \cup {l \in {f.chaddr} \X Pool : Live(l[1], l[2])}

\* A client gives up the address it was given and sends a DECLINE.
SendDecline(m) ==
  /\ \E ip \in Pool : Live(m, ip)
  /\ GiveUp(m)
  /\ declines' = declines \cup {m}
  /\ late' = {l \in late : l[1] # m}
  /\ UNCHANGED <<clk, turned, resp, poolVars, FrameBuffer, meant, handled>>

\* A second passes.
KernelTick ==
  /\ Tick
  /\ late' = {l \in late : Elapsed[l[1]][l[2]] > 0}
  /\ Handle(NoJob)
  /\ meant' = NoJob
  /\ UNCHANGED <<FrameBuffer, declines>>

KernelInit ==
  /\ Init
  /\ FrameBuffer \in Noise
  /\ meant = NoJob
  /\ handled = NoJob
  /\ declines = {}
  /\ late = {}

KernelNext ==
  \/ KernelTick
  \/ \E m \in Macs : SendDecline(m)
  \/ \E f \in Frames : ReceiveAny(f) \/ ReceiveDecline(f)

KernelSpec == KernelInit /\ [][KernelNext]_kernelVars

-----------------------------------------------------------------------------
Jobs == [type : {0, DHCP_DISCOVER, DHCP_REQUEST, DHCP_DECLINE}, mac : Macs \cup {NoMac}, ip : Nat]

KernelTypeOK ==
  /\ TypeOK
  /\ FrameBuffer \in [Places -> Bytes]
  /\ meant \in Jobs
  /\ handled \in Jobs
  /\ declines \subseteq Macs
  /\ late \subseteq Macs \X Pool

(***************************************************************************)
(* The server does what the sender of a frame asks and nothing else: the   *)
(* message the back end acts on is the one the sender encoded, whatever    *)
(* earlier frames have left in the buffer, in whatever order the options   *)
(* come and whatever bytes are in them, and other traffic has no effect    *)
(* (CKernel::Run, ProcessDHCPHdr, hdrToMsg, dhcp_get_option).              *)
(***************************************************************************)
ActsOnOwnFrame == handled = meant

(***************************************************************************)
(* The benchmark client reads from the bytes of a reply the type, the      *)
(* address and the server that the back end answered with (dhcp_build_*,   *)
(* msgToHdr and parse_frame).                                              *)
(***************************************************************************)
ReplyUnderstood ==
  resp # NoReply =>
    LET got == parse_frame(Sent)
    IN  /\ got.dhcp_type = CASE resp.type = "OFFER" -> DHCP_OFFER
                              [] resp.type = "ACK" -> DHCP_ACK
                              [] resp.type = "NAK" -> DHCP_NAK
        /\ got.offered_ip = uint32_to_ip(resp.ip)
        /\ resp.type # "NAK" => got.server_ip = Config.server_ip

(***************************************************************************)
(* A DECLINE frees whatever lease its sender has by then.  If an address   *)
(* is in two hands, one of the two leases on it has been freed by a        *)
(* DECLINE that its sender sent before it had that lease; a DECLINE that   *)
(* comes in order, or twice before the next lease, or together with        *)
(* leftovers of other frames, does no harm (dhcp_arraypool_decline_lease). *)
(***************************************************************************)
OnlyLateDeclineHarms ==
  \A m1, m2 \in Macs, ip \in Pool :
    Live(m1, ip) /\ Live(m2, ip) /\ m1 # m2 => {<<m1, ip>>, <<m2, ip>>} \cap late # {}

(***************************************************************************)
(* The configuration reaches the client: the subnet mask, the              *)
(* "Router/gateway IP to tell clients", the DNS server and the lease time  *)
(* of an OFFER or an ACK are in the frame that is sent (msgToHdr).         *)
(***************************************************************************)
ReplyTellsConfig ==
  resp.type \in {"OFFER", "ACK"} =>
    /\ dhcp_get_option(Sent.options, DHCP_OPT_SUBNET_MASK) = Config.subnet_mask
    /\ dhcp_get_option(Sent.options, DHCP_OPT_ROUTER) = Config.gateway_ip
    /\ dhcp_get_option(Sent.options, DHCP_OPT_DNS_SERVER) = Config.dns_ip
    /\ dhcp_get_option(Sent.options, DHCP_OPT_LEASE_TIME) = uint32_to_ip(resp.lease)
=============================================================================
