------------------------------ MODULE DhcpWire ------------------------------
(***************************************************************************)
(* DHCP messages as bytes: the options area that dhcp_server.c writes and  *)
(* searches, the Circle adapter's copies between the frame and the         *)
(* library's message (hdrToMsg, msgToHdr), and what the benchmark client   *)
(* reads from a reply (parse_frame).  An area is a sequence of OptLen      *)
(* bytes.                                                                  *)
(***************************************************************************)
EXTENDS Integers, Sequences, FiniteSetsExt

CONSTANT OptLen    \* sizeof(options), 308 in dhcp_message_t

DHCP_DISCOVER == 1
DHCP_OFFER == 2
DHCP_REQUEST == 3
DHCP_DECLINE == 4
DHCP_ACK == 5
DHCP_NAK == 6

DHCP_OPT_PAD == 0
DHCP_OPT_SUBNET_MASK == 1
DHCP_OPT_ROUTER == 3
DHCP_OPT_DNS_SERVER == 6
DHCP_OPT_REQUESTED_IP == 50
DHCP_OPT_LEASE_TIME == 51
DHCP_OPT_MESSAGE_TYPE == 53
DHCP_OPT_SERVER_ID == 54
DHCP_OPT_END == 255

Places == 1 .. OptLen

Bytes == 0 .. 255

\* The codes of options: not PAD and not END.
Codes == 1 .. 254

Zeros == [i \in Places |-> 0]

\* The first n bytes of s, then those of t.
Over(s, n, t) == SubSeq(s, 1, n) \o SubSeq(t, n + 1, OptLen)

-----------------------------------------------------------------------------
(***************************************************************************)
(* Addresses and lease times, most significant byte first.                 *)
(***************************************************************************)
uint32_to_ip(n) == <<(n \div 2^24) % 256, (n \div 2^16) % 256, (n \div 2^8) % 256, n % 256>>

ip_to_uint32(b) == b[1] * 2^24 + b[2] * 2^16 + b[3] * 2^8 + b[4]

-----------------------------------------------------------------------------
(***************************************************************************)
(* Options in an area: code, length, data.  A PAD is one byte, END closes  *)
(* the list.  Whatever lies behind the last byte, a length read there      *)
(* takes the search past the end.                                          *)
(***************************************************************************)
Skip(a, p) ==
  IF a[p] = DHCP_OPT_PAD THEN p + 1
  ELSE IF p = OptLen THEN OptLen + 1 ELSE p + 2 + a[p + 1]

\* Where the walk over the options of a ends that stops at a byte of stops.
Walk(a, stops) ==
  LET at[p \in 1 .. (OptLen + 256)] ==
        IF p > OptLen THEN p
        ELSE IF a[p] \in stops THEN p ELSE at[Skip(a, p)]
  IN  at[1]

Data(a, p) == SubSeq(a, p + 2, p + 1 + a[p + 1])

\* The data of the first such option; no option and no data are not told apart.
dhcp_get_option(a, option) ==
  LET p == Walk(a, {DHCP_OPT_END, option})
  IN  IF p >= OptLen \/ a[p] # option THEN <<>> ELSE Data(a, p)

dhcp_get_message_type(a) ==
  LET opt == dhcp_get_option(a, DHCP_OPT_MESSAGE_TYPE)
  IN  IF Len(opt) >= 1 THEN opt[1] ELSE 0

\* Mutant: a cleared area is searched for an END it does not have.
dhcp_add_option_unmarked(a, option, data) ==
  LET p == Walk(a, {DHCP_OPT_END})
      new == <<option, Len(data)>> \o data \o <<DHCP_OPT_END>>
  IN  IF p + 2 + Len(data) > OptLen THEN a
      ELSE Over(SubSeq(a, 1, p - 1) \o new, p + 2 + Len(data), a)

\* An option is added in the place of END, or not at all if it does not fit.
dhcp_add_option(a, option, data) ==
  LET b == IF a[1] = 0 THEN [a EXCEPT ![1] = DHCP_OPT_END] ELSE a
      p == Walk(b, {DHCP_OPT_END})
      new == <<option, Len(data)>> \o data \o <<DHCP_OPT_END>>
  IN  IF p + 2 + Len(data) > OptLen THEN b
      ELSE Over(SubSeq(b, 1, p - 1) \o new, p + 2 + Len(data), b)

AddAll(options) ==
  LET after[n \in 0 .. Len(options)] ==
        IF n = 0 THEN Zeros ELSE dhcp_add_option(after[n - 1], options[n][1], options[n][2])
  IN  after[Len(options)]

-----------------------------------------------------------------------------
(***************************************************************************)
(* Replies.  config has the server's address, mask, gateway, DNS server as *)
(* bytes; the lease time is the one the back end answers with.             *)
(***************************************************************************)
BuildLease(type, config, ip, lease) ==
  [yiaddr |-> ip, siaddr |-> config.server_ip,
   options |-> AddAll(<< <<DHCP_OPT_MESSAGE_TYPE, <<type>>>>,
                         <<DHCP_OPT_SERVER_ID, config.server_ip>>,
                         <<DHCP_OPT_SUBNET_MASK, config.subnet_mask>>,
                         <<DHCP_OPT_ROUTER, config.gateway_ip>>,
                         <<DHCP_OPT_DNS_SERVER, config.dns_ip>>,
                         <<DHCP_OPT_LEASE_TIME, uint32_to_ip(lease)>> >>)]

dhcp_build_offer(config, ip, lease) == BuildLease(DHCP_OFFER, config, ip, lease)

dhcp_build_ack(config, ip, lease) == BuildLease(DHCP_ACK, config, ip, lease)

dhcp_build_nak ==
  [yiaddr |-> 0, siaddr |-> <<0, 0, 0, 0>>,
   options |-> AddAll(<< <<DHCP_OPT_MESSAGE_TYPE, <<DHCP_NAK>>>> >>)]

-----------------------------------------------------------------------------
(***************************************************************************)
(* The adapter's copies.                                                   *)
(***************************************************************************)
\* The first n bytes of the frame's area, zeros behind them.
hdrToMsg(area, n) == Over(area, IF n > OptLen THEN OptLen ELSE n, Zeros)

\* The copy ends with the first byte that is 255, whatever it stands for.
msgToHdr(a) ==
  LET ends == {p \in Places : a[p] = DHCP_OPT_END}
  IN  IF ends = {} THEN a ELSE Over(a, Min(ends), Zeros)

-----------------------------------------------------------------------------
(***************************************************************************)
(* bench-live/frame.c, parse_frame: the last option of a kind and of the   *)
(* right length counts.  The walk ends at an option that does not fit.     *)
(***************************************************************************)
Starts(a) ==
  LET from[p \in 1 .. (OptLen + 256)] ==
        IF p >= OptLen \/ a[p] = DHCP_OPT_END THEN {}
        ELSE IF a[p] = DHCP_OPT_PAD THEN from[p + 1]
        ELSE IF p + 1 + a[p + 1] > OptLen THEN {}
        ELSE {p} \cup from[p + 2 + a[p + 1]]
  IN  from[1]

LastOption(a, option, length, none) ==
  LET hits == {p \in Starts(a) : a[p] = option /\ a[p + 1] = length}
  IN  IF hits = {} THEN none ELSE Data(a, Max(hits))

parse_frame(f) ==
  [dhcp_type |-> LastOption(f.options, DHCP_OPT_MESSAGE_TYPE, 1, <<0>>)[1],
   offered_ip |-> f.yiaddr,
   server_ip |-> LastOption(f.options, DHCP_OPT_SERVER_ID, 4, f.siaddr),
   subnet_mask |-> LastOption(f.options, DHCP_OPT_SUBNET_MASK, 4, <<0, 0, 0, 0>>),
   lease_time |-> ip_to_uint32(LastOption(f.options, DHCP_OPT_LEASE_TIME, 4, <<0, 0, 0, 0>>))]
=============================================================================
