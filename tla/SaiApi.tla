------------------------------- MODULE SaiApi -------------------------------
(***************************************************************************)
(* What src/VPP/sai_vpp.cpp exports: sai_api_query(), which hands out the  *)
(* tables, and the entry points outside them.                              *)
(***************************************************************************)
EXTENDS SaiTables, SaiExtensions

\* The cases of the switch statement of sai_api_query(): the standard APIs,
\* then the extensions.
StandardTables ==
    [SWITCH |-> stub_switch, PORT |-> stub_port, FDB |-> stub_fdb,
     VLAN |-> stub_vlan, VIRTUAL_ROUTER |-> stub_virtual_router,
     ROUTE |-> stub_route, NEXT_HOP |-> stub_next_hop,
     NEXT_HOP_GROUP |-> stub_next_hop_group,
     ROUTER_INTERFACE |-> stub_router_interface, NEIGHBOR |-> stub_neighbor,
     ACL |-> stub_acl, HOSTIF |-> stub_hostif, MIRROR |-> stub_mirror,
     SAMPLEPACKET |-> stub_samplepacket, STP |-> stub_stp, LAG |-> stub_lag,
     POLICER |-> stub_policer, WRED |-> stub_wred, QOS_MAP |-> stub_qos_map,
     QUEUE |-> stub_queue, SCHEDULER |-> stub_scheduler,
     SCHEDULER_GROUP |-> stub_scheduler_group, BUFFER |-> stub_buffer,
     HASH |-> stub_hash, UDF |-> stub_udf, TUNNEL |-> stub_tunnel,
     L2MC |-> stub_l2mc, IPMC |-> stub_ipmc, RPF_GROUP |-> stub_rpf_group,
     L2MC_GROUP |-> stub_l2mc_group, IPMC_GROUP |-> stub_ipmc_group,
     MCAST_FDB |-> stub_mcast_fdb, BRIDGE |-> stub_bridge, TAM |-> stub_tam,
     SRV6 |-> stub_srv6, MPLS |-> stub_mpls, DTEL |-> stub_dtel,
     BFD |-> stub_bfd, ISOLATION_GROUP |-> stub_isolation_group,
     NAT |-> stub_nat, COUNTER |-> stub_counter,
     DEBUG_COUNTER |-> stub_debug_counter, MACSEC |-> stub_macsec,
     SYSTEM_PORT |-> stub_system_port, MY_MAC |-> stub_my_mac,
     IPSEC |-> stub_ipsec, GENERIC_PROGRAMMABLE |-> stub_generic_programmable,
     ARS |-> stub_ars, ARS_PROFILE |-> stub_ars_profile, TWAMP |-> stub_twamp,
     POE |-> stub_poe, ICMP_ECHO |-> stub_icmp_echo,
     PREFIX_COMPRESSION |-> stub_prefix_compression, SYNCE |-> stub_synce]

ExtensionTables ==
    [BMTOR |-> stub_bmtor, DASH_ACL |-> stub_dash_acl,
     DASH_DIRECTION_LOOKUP |-> stub_dash_direction_lookup,
     DASH_ENI |-> stub_dash_eni,
     DASH_INBOUND_ROUTING |-> stub_dash_inbound_routing,
     DASH_METER |-> stub_dash_meter,
     DASH_OUTBOUND_CA_TO_PA |-> stub_dash_outbound_ca_to_pa,
     DASH_OUTBOUND_ROUTING |-> stub_dash_outbound_routing,
     DASH_VNET |-> stub_dash_vnet,
     DASH_PA_VALIDATION |-> stub_dash_pa_validation,
     DASH_VIP |-> stub_dash_vip, DASH_HA |-> stub_dash_ha,
     DASH_TUNNEL |-> stub_dash_tunnel, DASH_FLOW |-> stub_dash_flow,
     DASH_APPLIANCE |-> stub_dash_appliance,
     DASH_OUTBOUND_PORT_MAP |-> stub_dash_outbound_port_map,
     DASH_TRUSTED_VNI |-> stub_dash_trusted_vni]

Tables == [a \in DOMAIN StandardTables \cup DOMAIN ExtensionTables |->
             IF a \in DOMAIN StandardTables THEN StandardTables[a]
                                            ELSE ExtensionTables[a]]

\* sai_api_query(): the status, and what *api_method_table is set to ({}: it is
\* left alone).  "UNSPECIFIED" and an api that no case names are refused, and
\* so is a NULL table pointer.
sai_api_query(api, nullTable) ==
    IF nullTable \/ api \notin DOMAIN Tables
    THEN [status |-> "INVALID_PARAMETER", table |-> {}]
    ELSE [status |-> "SUCCESS", table |-> Tables[api]]

\* The entry points outside the tables: the ones that ask the library and
\* change nothing in it, and the ones that are not implemented.
GlobalObjectQueries == {"sai_switch_id_query", "sai_object_type_query"}
GlobalCapabilityQueries ==
    {"sai_log_set", "sai_object_type_get_availability", "sai_query_api_version",
     "sai_query_attribute_capability",
     "sai_query_attribute_enum_values_capability"}
GlobalStatsQueries ==
    {"sai_query_stats_capability", "sai_query_stats_st_capability"}
GlobalQueries ==
    GlobalObjectQueries \cup GlobalCapabilityQueries \cup GlobalStatsQueries
GlobalUnimplemented ==
    {"sai_bulk_get_attribute", "sai_bulk_object_clear_stats",
     "sai_bulk_object_get_stats", "sai_dbg_generate_dump",
     "sai_get_maximum_attribute_count", "sai_get_object_count",
     "sai_get_object_key"}
GlobalStageUnimplemented == {"sai_query_object_stage"}
GlobalTelemetryUnimplemented == {"sai_tam_telemetry_get_data"}
=============================================================================
