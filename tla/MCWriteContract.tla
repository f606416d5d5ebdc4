--------------------------- MODULE MCWriteContract ---------------------------
(* A small instance of WriteContract for TLC.                              *)
EXTENDS WriteContract, TLC

Static == [g \in Fields |->
    CASE g \in Controls -> "low"
      [] g = "led_mode" -> "etherlighting"
      [] g = "type" -> "static"
      [] g \in {"bonding_enabled", Night} -> "off"
      [] g = "identity" -> "usw"
      [] g \in {"ether_extra", "network_extra"} -> "absent"
      [] OTHER -> "v"]
\* a DHCP switch without addresses and without a display
SparseDhcp == [g \in Fields |->
    CASE g = "type" -> "dhcp"
      [] g \in LcmFields \cup {Night, "ip"} -> "absent"
      [] OTHER -> Static[g]]
\* a DHCP switch with an address and a display whose night mode was never set, and with
\* a field of its own
DhcpLcm == [Static EXCEPT !["type"] = "dhcp", ![Night] = "absent",
                          !["network_extra"] = "v"]

\* a switch that is not an Etherlighting one
Unreadable == [g \in Fields |->
    IF g \in EtherFields THEN "absent" ELSE Static[g]]

MCShapes == {Static, SparseDhcp, DhcpLcm, Unreadable}
Symmetry == Permutations(Devices)
=============================================================================
