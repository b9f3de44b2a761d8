------------------------------ MODULE LinkType ------------------------------
(***************************************************************************)
(* linktype.rs: the link-layer framings and where the network-layer header *)
(* starts under each.  An Option is a set: {} is None, {v} is Some(v).     *)
(***************************************************************************)
EXTENDS Naturals

LinkTypes == {"Ethernet", "LinuxSll", "Raw"}

l3_offset_info(link_type) ==
  CASE link_type = "Ethernet" -> [ip_base |-> 14, ethertype_offset |-> {12}]
    [] link_type = "LinuxSll" -> [ip_base |-> 16, ethertype_offset |-> {14}]
    [] link_type = "Raw" -> [ip_base |-> 0, ethertype_offset |-> {}]
=============================================================================
