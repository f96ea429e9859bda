--------------------------- MODULE SaiExtensions ----------------------------
(***************************************************************************)
(* The method tables of the extensions (BMTOR and DASH) in                 *)
(* src/VPP/sai_vpp.cpp, each the set of its functions.                     *)
(***************************************************************************)
EXTENDS SaiEntries

table_bitmap_classification_entry ==
    Counted("table_bitmap_classification_entry", "TABLE_BITMAP_CLASSIFICATION_ENTRY")
table_bitmap_router_entry ==
    Counted("table_bitmap_router_entry", "TABLE_BITMAP_ROUTER_ENTRY")
table_meta_tunnel_entry ==
    Counted("table_meta_tunnel_entry", "TABLE_META_TUNNEL_ENTRY")
stub_bmtor ==
    table_bitmap_classification_entry \cup table_bitmap_router_entry
    \cup table_meta_tunnel_entry

dash_acl_group == Object("dash_acl_group", "DASH_ACL_GROUP")
dash_acl_groups == Bulk("dash_acl_group", "DASH_ACL_GROUP")
dash_acl_rule == Object("dash_acl_rule", "DASH_ACL_RULE")
dash_acl_rules == Bulk("dash_acl_rule", "DASH_ACL_RULE")
stub_dash_acl ==
    dash_acl_group \cup dash_acl_groups \cup dash_acl_rule \cup dash_acl_rules

direction_lookup_entry ==
    Keyed("direction_lookup_entry", "DIRECTION_LOOKUP_ENTRY")
direction_lookup_entries ==
    BulkKeyed("direction_lookup_entry", "DIRECTION_LOOKUP_ENTRY")
stub_dash_direction_lookup ==
    direction_lookup_entry \cup direction_lookup_entries

eni_ether_address_map_entry ==
    Keyed("eni_ether_address_map_entry", "ENI_ETHER_ADDRESS_MAP_ENTRY")
eni_ether_address_map_entries ==
    BulkKeyed("eni_ether_address_map_entry", "ENI_ETHER_ADDRESS_MAP_ENTRY")
eni == Counted("eni", "ENI")
enis == Bulk("eni", "ENI")
stub_dash_eni ==
    eni_ether_address_map_entry \cup eni_ether_address_map_entries \cup eni
    \cup enis

inbound_routing_entry == Keyed("inbound_routing_entry", "INBOUND_ROUTING_ENTRY")
inbound_routing_entries ==
    BulkKeyed("inbound_routing_entry", "INBOUND_ROUTING_ENTRY")
stub_dash_inbound_routing == inbound_routing_entry \cup inbound_routing_entries

meter_bucket_entry == KeyedCounted("meter_bucket_entry", "METER_BUCKET_ENTRY")
meter_bucket_entries == BulkKeyed("meter_bucket_entry", "METER_BUCKET_ENTRY")
meter_policy == Object("meter_policy", "METER_POLICY")
meter_policys == Bulk("meter_policy", "METER_POLICY")
meter_rule == Object("meter_rule", "METER_RULE")
meter_rules == Bulk("meter_rule", "METER_RULE")
stub_dash_meter ==
    meter_bucket_entry \cup meter_bucket_entries \cup meter_policy
    \cup meter_policys \cup meter_rule \cup meter_rules

outbound_ca_to_pa_entry ==
    Keyed("outbound_ca_to_pa_entry", "OUTBOUND_CA_TO_PA_ENTRY")
outbound_ca_to_pa_entries ==
    BulkKeyed("outbound_ca_to_pa_entry", "OUTBOUND_CA_TO_PA_ENTRY")
stub_dash_outbound_ca_to_pa ==
    outbound_ca_to_pa_entry \cup outbound_ca_to_pa_entries

outbound_routing_entry ==
    Keyed("outbound_routing_entry", "OUTBOUND_ROUTING_ENTRY")
outbound_routing_entries ==
    BulkKeyed("outbound_routing_entry", "OUTBOUND_ROUTING_ENTRY")
outbound_routing_group ==
    Object("outbound_routing_group", "OUTBOUND_ROUTING_GROUP")
outbound_routing_groups ==
    Bulk("outbound_routing_group", "OUTBOUND_ROUTING_GROUP")
stub_dash_outbound_routing ==
    outbound_routing_entry \cup outbound_routing_entries
    \cup outbound_routing_group \cup outbound_routing_groups

vnet == Object("vnet", "VNET")
vnets == Bulk("vnet", "VNET")
stub_dash_vnet == vnet \cup vnets

pa_validation_entry == Keyed("pa_validation_entry", "PA_VALIDATION_ENTRY")
pa_validation_entries == BulkKeyed("pa_validation_entry", "PA_VALIDATION_ENTRY")
stub_dash_pa_validation == pa_validation_entry \cup pa_validation_entries

vip_entry == Keyed("vip_entry", "VIP_ENTRY")
vip_entries == BulkKeyed("vip_entry", "VIP_ENTRY")
stub_dash_vip == vip_entry \cup vip_entries

ha_set == Counted("ha_set", "HA_SET")
ha_sets == Bulk("ha_set", "HA_SET")
ha_scope == Object("ha_scope", "HA_SCOPE")
ha_scopes == Bulk("ha_scope", "HA_SCOPE")
stub_dash_ha == ha_set \cup ha_sets \cup ha_scope \cup ha_scopes

dash_tunnel == Object("dash_tunnel", "DASH_TUNNEL")
dash_tunnels == Bulk("dash_tunnel", "DASH_TUNNEL")
dash_tunnel_member == Object("dash_tunnel_member", "DASH_TUNNEL_MEMBER")
dash_tunnel_members == Bulk("dash_tunnel_member", "DASH_TUNNEL_MEMBER")
dash_tunnel_next_hop == Object("dash_tunnel_next_hop", "DASH_TUNNEL_NEXT_HOP")
dash_tunnel_next_hops == Bulk("dash_tunnel_next_hop", "DASH_TUNNEL_NEXT_HOP")
stub_dash_tunnel ==
    dash_tunnel \cup dash_tunnels \cup dash_tunnel_member
    \cup dash_tunnel_members \cup dash_tunnel_next_hop
    \cup dash_tunnel_next_hops

flow_table == Object("flow_table", "FLOW_TABLE")
flow_tables == Bulk("flow_table", "FLOW_TABLE")
flow_entry == Keyed("flow_entry", "FLOW_ENTRY")
flow_entries == BulkKeyed("flow_entry", "FLOW_ENTRY")
flow_entry_bulk_get_session_filter ==
    Object("flow_entry_bulk_get_session_filter", "FLOW_ENTRY_BULK_GET_SESSION_FILTER")
flow_entry_bulk_get_session_filters ==
    Bulk("flow_entry_bulk_get_session_filter", "FLOW_ENTRY_BULK_GET_SESSION_FILTER")
flow_entry_bulk_get_session ==
    Object("flow_entry_bulk_get_session", "FLOW_ENTRY_BULK_GET_SESSION")
flow_entry_bulk_get_sessions ==
    Bulk("flow_entry_bulk_get_session", "FLOW_ENTRY_BULK_GET_SESSION")
stub_dash_flow ==
    flow_table \cup flow_tables \cup flow_entry \cup flow_entries
    \cup flow_entry_bulk_get_session_filter
    \cup flow_entry_bulk_get_session_filters \cup flow_entry_bulk_get_session
    \cup flow_entry_bulk_get_sessions

dash_appliance == Object("dash_appliance", "DASH_APPLIANCE")
dash_appliances == Bulk("dash_appliance", "DASH_APPLIANCE")
stub_dash_appliance == dash_appliance \cup dash_appliances

outbound_port_map == Object("outbound_port_map", "OUTBOUND_PORT_MAP")
outbound_port_maps == Bulk("outbound_port_map", "OUTBOUND_PORT_MAP")
outbound_port_map_port_range_entry ==
    Keyed("outbound_port_map_port_range_entry", "OUTBOUND_PORT_MAP_PORT_RANGE_ENTRY")
outbound_port_map_port_range_entries ==
    BulkKeyed("outbound_port_map_port_range_entry", "OUTBOUND_PORT_MAP_PORT_RANGE_ENTRY")
stub_dash_outbound_port_map ==
    outbound_port_map \cup outbound_port_maps
    \cup outbound_port_map_port_range_entry
    \cup outbound_port_map_port_range_entries

global_trusted_vni_entry ==
    Keyed("global_trusted_vni_entry", "GLOBAL_TRUSTED_VNI_ENTRY")
global_trusted_vni_entries ==
    BulkKeyed("global_trusted_vni_entry", "GLOBAL_TRUSTED_VNI_ENTRY")
eni_trusted_vni_entry == Keyed("eni_trusted_vni_entry", "ENI_TRUSTED_VNI_ENTRY")
eni_trusted_vni_entries ==
    BulkKeyed("eni_trusted_vni_entry", "ENI_TRUSTED_VNI_ENTRY")
stub_dash_trusted_vni ==
    global_trusted_vni_entry \cup global_trusted_vni_entries
    \cup eni_trusted_vni_entry \cup eni_trusted_vni_entries
=============================================================================
