----------------------------- MODULE SaiTables ------------------------------
(***************************************************************************)
(* The method tables of the standard APIs in src/VPP/sai_vpp.cpp, each the *)
(* set of its functions. Functions that follow each other and differ in    *)
(* the operation only share a definition.                                  *)
(***************************************************************************)
EXTENDS SaiEntries

switch == Counted("switch", "SWITCH")
switch_mdio_read == Special("switchMdioRead", "switch")
switch_mdio_write == Special("switchMdioWrite", "switch")
switch_tunnel == Object("switch_tunnel", "SWITCH_TUNNEL")
switch_mdio_cl22_read == Special("switchMdioCl22Read", "switch")
switch_mdio_cl22_write == Special("switchMdioCl22Write", "switch")
stub_switch ==
    switch \cup switch_mdio_read \cup switch_mdio_write \cup switch_tunnel
    \cup switch_mdio_cl22_read \cup switch_mdio_cl22_write

port == Counted("port", "PORT")
clear_port_all_stats == NotImplemented("clear_port_all_stats")
port_pool == Counted("port_pool", "PORT_POOL")
port_connector == Object("port_connector", "PORT_CONNECTOR")
port_serdes == Object("port_serdes", "PORT_SERDES")
ports == BulkAll("port", "PORT")
\* (a variant: the type is copied from the function above)
port_serdessOfPort == BulkAll("port_serdes", "PORT")
port_serdess == BulkAll("port_serdes", "PORT_SERDES")
port_llr_profile == Object("port_llr_profile", "PORT_LLR_PROFILE")
stub_port ==
    port \cup clear_port_all_stats \cup port_pool \cup port_connector
    \cup port_serdes \cup ports \cup port_serdess \cup port_llr_profile

fdb_entry == Keyed("fdb_entry", "FDB_ENTRY")
flush_fdb_entries == Special("flushFdbEntries", "fdb_entry")
fdb_entries == BulkKeyedAll("fdb_entry", "FDB_ENTRY")
stub_fdb == fdb_entry \cup flush_fdb_entries \cup fdb_entries

\* (a variant: the table has no function that removes)
vlanWithoutRemove == Entry(Crud \ {"remove"}, "vlan", "VLAN", FALSE)
vlan == Object("vlan", "VLAN")
vlan_member == Object("vlan_member", "VLAN_MEMBER")
vlan_members == Bulk("vlan_member", "VLAN_MEMBER")
vlan_stats == Stats("vlan", "VLAN")
stub_vlan == vlan \cup vlan_member \cup vlan_members \cup vlan_stats

virtual_router == Object("virtual_router", "VIRTUAL_ROUTER")
stub_virtual_router == virtual_router

route_entry == Keyed("route_entry", "ROUTE_ENTRY")
route_entries == BulkKeyedAll("route_entry", "ROUTE_ENTRY")
stub_route == route_entry \cup route_entries

next_hop == Object("next_hop", "NEXT_HOP")
next_hops == BulkAll("next_hop", "NEXT_HOP")
stub_next_hop == next_hop \cup next_hops

next_hop_group == Object("next_hop_group", "NEXT_HOP_GROUP")
next_hop_group_member ==
    Object("next_hop_group_member", "NEXT_HOP_GROUP_MEMBER")
next_hop_group_members == Bulk("next_hop_group_member", "NEXT_HOP_GROUP_MEMBER")
next_hop_group_map == Object("next_hop_group_map", "NEXT_HOP_GROUP_MAP")
next_hop_group_members_attribute ==
    BulkAttr("next_hop_group_member", "NEXT_HOP_GROUP_MEMBER")
next_hop_groups == BulkAll("next_hop_group", "NEXT_HOP_GROUP")
stub_next_hop_group ==
    next_hop_group \cup next_hop_group_member \cup next_hop_group_members
    \cup next_hop_group_map \cup next_hop_group_members_attribute
    \cup next_hop_groups

router_interface == Counted("router_interface", "ROUTER_INTERFACE")
router_interfaces == BulkAll("router_interface", "ROUTER_INTERFACE")
stub_router_interface == router_interface \cup router_interfaces

neighbor_entry == Keyed("neighbor_entry", "NEIGHBOR_ENTRY")
remove_all_neighbor_entries == NotImplemented("remove_all_neighbor_entries")
neighbor_entries == BulkKeyedAll("neighbor_entry", "NEIGHBOR_ENTRY")
stub_neighbor ==
    neighbor_entry \cup remove_all_neighbor_entries \cup neighbor_entries

acl_table == Object("acl_table", "ACL_TABLE")
acl_entry == Object("acl_entry", "ACL_ENTRY")
acl_counter == Object("acl_counter", "ACL_COUNTER")
acl_range == Object("acl_range", "ACL_RANGE")
acl_table_group == Object("acl_table_group", "ACL_TABLE_GROUP")
acl_table_group_member ==
    Object("acl_table_group_member", "ACL_TABLE_GROUP_MEMBER")
acl_table_chain_group ==
    Object("acl_table_chain_group", "ACL_TABLE_CHAIN_GROUP")
stub_acl ==
    acl_table \cup acl_entry \cup acl_counter \cup acl_range
    \cup acl_table_group \cup acl_table_group_member
    \cup acl_table_chain_group

hostif == Object("hostif", "HOSTIF")
hostif_table_entry == Object("hostif_table_entry", "HOSTIF_TABLE_ENTRY")
hostif_trap_group == Object("hostif_trap_group", "HOSTIF_TRAP_GROUP")
hostif_trap == Object("hostif_trap", "HOSTIF_TRAP")
hostif_user_defined_trap ==
    Object("hostif_user_defined_trap", "HOSTIF_USER_DEFINED_TRAP")
hostif_packet ==
    NotImplemented("recv_hostif_packet")
    \cup NotImplemented("send_hostif_packet")
    \cup NotImplemented("allocate_hostif_packet")
    \cup NotImplemented("free_hostif_packet")
stub_hostif ==
    hostif \cup hostif_table_entry \cup hostif_trap_group \cup hostif_trap
    \cup hostif_user_defined_trap \cup hostif_packet

mirror_session == Object("mirror_session", "MIRROR_SESSION")
stub_mirror == mirror_session

samplepacket == Object("samplepacket", "SAMPLEPACKET")
stub_samplepacket == samplepacket

stp == Object("stp", "STP")
stp_port == Object("stp_port", "STP_PORT")
stp_ports == Bulk("stp_port", "STP_PORT")
stub_stp == stp \cup stp_port \cup stp_ports

lag == Object("lag", "LAG")
lag_member == Object("lag_member", "LAG_MEMBER")
lag_members == Bulk("lag_member", "LAG_MEMBER")
stub_lag == lag \cup lag_member \cup lag_members

policer == Counted("policer", "POLICER")
stub_policer == policer

wred == Object("wred", "WRED")
stub_wred == wred

qos_map == Object("qos_map", "QOS_MAP")
stub_qos_map == qos_map

queue == Counted("queue", "QUEUE")
queues_attribute == BulkAttr("queue", "QUEUE")
stub_queue == queue \cup queues_attribute

scheduler == Object("scheduler", "SCHEDULER")
stub_scheduler == scheduler

scheduler_group == Object("scheduler_group", "SCHEDULER_GROUP")
stub_scheduler_group == scheduler_group

buffer_pool == Counted("buffer_pool", "BUFFER_POOL")
ingress_priority_group ==
    Counted("ingress_priority_group", "INGRESS_PRIORITY_GROUP")
buffer_profile == Object("buffer_profile", "BUFFER_PROFILE")
ingress_priority_groups_attribute ==
    BulkAttr("ingress_priority_group", "INGRESS_PRIORITY_GROUP")
stub_buffer ==
    buffer_pool \cup ingress_priority_group \cup buffer_profile
    \cup ingress_priority_groups_attribute

hash == Object("hash", "HASH")
fine_grained_hash_field ==
    Object("fine_grained_hash_field", "FINE_GRAINED_HASH_FIELD")
stub_hash == hash \cup fine_grained_hash_field

udf == Object("udf", "UDF")
udf_match == Object("udf_match", "UDF_MATCH")
udf_group == Object("udf_group", "UDF_GROUP")
stub_udf == udf \cup udf_match \cup udf_group

tunnel_map == Object("tunnel_map", "TUNNEL_MAP")
tunnel == Counted("tunnel", "TUNNEL")
tunnel_term_table_entry ==
    Object("tunnel_term_table_entry", "TUNNEL_TERM_TABLE_ENTRY")
tunnel_map_entry == Object("tunnel_map_entry", "TUNNEL_MAP_ENTRY")
tunnels == BulkAll("tunnel", "TUNNEL")
stub_tunnel ==
    tunnel_map \cup tunnel \cup tunnel_term_table_entry \cup tunnel_map_entry
    \cup tunnels

l2mc_entry == Keyed("l2mc_entry", "L2MC_ENTRY")
stub_l2mc == l2mc_entry

ipmc_entry == Keyed("ipmc_entry", "IPMC_ENTRY")
stub_ipmc == ipmc_entry

rpf_group == Object("rpf_group", "RPF_GROUP")
rpf_group_member == Object("rpf_group_member", "RPF_GROUP_MEMBER")
stub_rpf_group == rpf_group \cup rpf_group_member

l2mc_group == Object("l2mc_group", "L2MC_GROUP")
l2mc_group_member == Object("l2mc_group_member", "L2MC_GROUP_MEMBER")
stub_l2mc_group == l2mc_group \cup l2mc_group_member

ipmc_group == Object("ipmc_group", "IPMC_GROUP")
ipmc_group_member == Object("ipmc_group_member", "IPMC_GROUP_MEMBER")
ipmc_groups == BulkAll("ipmc_group", "IPMC_GROUP")
stub_ipmc_group == ipmc_group \cup ipmc_group_member \cup ipmc_groups

mcast_fdb_entry == Keyed("mcast_fdb_entry", "MCAST_FDB_ENTRY")
stub_mcast_fdb == mcast_fdb_entry

bridge == Counted("bridge", "BRIDGE")
bridge_port == Counted("bridge_port", "BRIDGE_PORT")
stub_bridge == bridge \cup bridge_port

tam == Object("tam", "TAM")
tam_math_func == Object("tam_math_func", "TAM_MATH_FUNC")
tam_report == Object("tam_report", "TAM_REPORT")
tam_event_threshold == Object("tam_event_threshold", "TAM_EVENT_THRESHOLD")
tam_int == Object("tam_int", "TAM_INT")
tam_tel_type == Object("tam_tel_type", "TAM_TEL_TYPE")
tam_transport == Object("tam_transport", "TAM_TRANSPORT")
tam_telemetry == Object("tam_telemetry", "TAM_TELEMETRY")
tam_collector == Object("tam_collector", "TAM_COLLECTOR")
tam_event_action == Object("tam_event_action", "TAM_EVENT_ACTION")
tam_event == Object("tam_event", "TAM_EVENT")
tam_counter_subscription ==
    Object("tam_counter_subscription", "TAM_COUNTER_SUBSCRIPTION")
tam_counter_subscriptions ==
    Bulk("tam_counter_subscription", "TAM_COUNTER_SUBSCRIPTION")
stub_tam ==
    tam \cup tam_math_func \cup tam_report \cup tam_event_threshold
    \cup tam_int \cup tam_tel_type \cup tam_transport \cup tam_telemetry
    \cup tam_collector \cup tam_event_action \cup tam_event
    \cup tam_counter_subscription \cup tam_counter_subscriptions

srv6_sidlist == Object("srv6_sidlist", "SRV6_SIDLIST")
srv6_sidlists == Bulk("srv6_sidlist", "SRV6_SIDLIST")
srv6_sidlist_stats == Stats("srv6_sidlist", "SRV6_SIDLIST")
my_sid_entry == Keyed("my_sid_entry", "MY_SID_ENTRY")
my_sid_entries == BulkKeyedAll("my_sid_entry", "MY_SID_ENTRY")
stub_srv6 ==
    srv6_sidlist \cup srv6_sidlists \cup srv6_sidlist_stats \cup my_sid_entry
    \cup my_sid_entries

inseg_entry == Keyed("inseg_entry", "INSEG_ENTRY")
inseg_entries == BulkKeyedAll("inseg_entry", "INSEG_ENTRY")
stub_mpls == inseg_entry \cup inseg_entries

dtel == Object("dtel", "DTEL")
dtel_queue_report == Object("dtel_queue_report", "DTEL_QUEUE_REPORT")
dtel_int_session == Object("dtel_int_session", "DTEL_INT_SESSION")
dtel_report_session == Object("dtel_report_session", "DTEL_REPORT_SESSION")
dtel_event == Object("dtel_event", "DTEL_EVENT")
stub_dtel ==
    dtel \cup dtel_queue_report \cup dtel_int_session \cup dtel_report_session
    \cup dtel_event

bfd_session == Counted("bfd_session", "BFD_SESSION")
stub_bfd == bfd_session

isolation_group == Object("isolation_group", "ISOLATION_GROUP")
isolation_group_member ==
    Object("isolation_group_member", "ISOLATION_GROUP_MEMBER")
stub_isolation_group == isolation_group \cup isolation_group_member

nat_entry == Keyed("nat_entry", "NAT_ENTRY")
nat_entries == BulkKeyedAll("nat_entry", "NAT_ENTRY")
nat_zone_counter == Object("nat_zone_counter", "NAT_ZONE_COUNTER")
stub_nat == nat_entry \cup nat_entries \cup nat_zone_counter

counter == Counted("counter", "COUNTER")
stub_counter == counter

debug_counter == Object("debug_counter", "DEBUG_COUNTER")
stub_debug_counter == debug_counter

macsec == Object("macsec", "MACSEC")
macsec_port == Counted("macsec_port", "MACSEC_PORT")
macsec_flow == Counted("macsec_flow", "MACSEC_FLOW")
macsec_sc == Counted("macsec_sc", "MACSEC_SC")
macsec_sa == Counted("macsec_sa", "MACSEC_SA")
stub_macsec ==
    macsec \cup macsec_port \cup macsec_flow \cup macsec_sc \cup macsec_sa

system_port == Object("system_port", "SYSTEM_PORT")
stub_system_port == system_port

my_mac == Object("my_mac", "MY_MAC")
stub_my_mac == my_mac

ipsec == Object("ipsec", "IPSEC")
ipsec_port == Counted("ipsec_port", "IPSEC_PORT")
ipsec_sa == Counted("ipsec_sa", "IPSEC_SA")
stub_ipsec == ipsec \cup ipsec_port \cup ipsec_sa

generic_programmable == Object("generic_programmable", "GENERIC_PROGRAMMABLE")
stub_generic_programmable == generic_programmable

ars == Object("ars", "ARS")
stub_ars == ars

ars_profile == Object("ars_profile", "ARS_PROFILE")
stub_ars_profile == ars_profile

twamp_session == Counted("twamp_session", "TWAMP_SESSION")
stub_twamp == twamp_session

poe_device == Object("poe_device", "POE_DEVICE")
poe_pse == Object("poe_pse", "POE_PSE")
poe_port == Object("poe_port", "POE_PORT")
stub_poe == poe_device \cup poe_pse \cup poe_port

icmp_echo_session == Counted("icmp_echo_session", "ICMP_ECHO_SESSION")
stub_icmp_echo == icmp_echo_session

prefix_compression_table ==
    Object("prefix_compression_table", "PREFIX_COMPRESSION_TABLE")
prefix_compression_entry ==
    Keyed("prefix_compression_entry", "PREFIX_COMPRESSION_ENTRY")
prefix_compression_entries ==
    BulkKeyed("prefix_compression_entry", "PREFIX_COMPRESSION_ENTRY")
stub_prefix_compression ==
    prefix_compression_table \cup prefix_compression_entry
    \cup prefix_compression_entries

synce_clock == Object("synce_clock", "SYNCE_CLOCK")
stub_synce == synce_clock
=============================================================================
