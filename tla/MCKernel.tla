------------------------------ MODULE MCKernel ------------------------------
(***************************************************************************)
(* The kernel with two clients and a handful of frames.                    *)
(***************************************************************************)
EXTENDS Kernel, TLC

Symmetry == Permutations(Macs)

MCConfig == [server_ip |-> <<192, 168, 4, 1>>, subnet_mask |-> <<255, 255, 255, 0>>,
             gateway_ip |-> <<192, 168, 4, 1>>, dns_ip |-> <<192, 168, 4, 1>>]

Type(t) == <<DHCP_OPT_MESSAGE_TYPE, <<t>>>>

Asked(ip) == <<DHCP_OPT_REQUESTED_IP, uint32_to_ip(ip)>>

\* A client identifier whose bytes look like a message type and an END.
ClientId == <<61, <<DHCP_OPT_END, DHCP_OPT_MESSAGE_TYPE, 1, DHCP_DECLINE>>>>

\* Messages of the clients, and traffic of other hosts.
Messages(m) ==
  {Frame("DHCP", FALSE, m, <<Type(DHCP_DISCOVER)>>, "none"),
   Frame("DHCP", FALSE, m, <<ClientId, Type(DHCP_DISCOVER)>>, "END"),
   Frame("DHCP", FALSE, m, <<Type(DHCP_REQUEST)>>, "none"),
   Frame("DHCP", FALSE, m, <<Type(DHCP_DECLINE)>>, "none"),
   Frame("DHCP", FALSE, m, <<Asked(PoolEnd), Type(DHCP_REQUEST)>>, "END")}
  \cup {Frame("DHCP", FALSE, m, <<Type(DHCP_REQUEST), Asked(ip)>>, "padded") : ip \in Pool}

Others ==
  {Frame("DHCP", FALSE, NoMac, <<>>, "none"),
   Frame("DHCP", TRUE, NoMac, <<>>, "none"),
   Frame("BOOTP", FALSE, NoMac, <<Type(DHCP_DISCOVER)>>, "none"),
   Frame("ARP", FALSE, NoMac, <<Type(DHCP_DISCOVER)>>, "none"),
   Frame("TCP", FALSE, NoMac, <<Type(DHCP_DISCOVER)>>, "none"),
   Frame("REPLY", FALSE, NoMac, <<Type(DHCP_REQUEST), Asked(PoolStart)>>, "END")}

MCFrames == Others \cup UNION {Messages(m) : m \in Macs}

MCNoise == {Zeros, AddAll(<<Type(DHCP_DECLINE)>>)}
=============================================================================
