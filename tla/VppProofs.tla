----------------------------- MODULE VppProofs ------------------------------
(***************************************************************************)
(* The SAI client, for every set of identifiers and every bound on what is *)
(* alive: what the client owns is what the library stores.  The induction  *)
(* takes a handle to the object it stands for (StoreOf), one to one.  It   *)
(* rests on the tables: within a table all functions of an object pass the *)
(* same type on (Agrees), which is proved table by table.                  *)
(*                                                                         *)
(* The clients of the binary API, for every set of interfaces and tunnels: *)
(* a dump that returns has seen every interface once, and a program that   *)
(* ends well has configured its tunnel.                                    *)
(***************************************************************************)
EXTENDS Vpp, FiniteSetTheorems, TLAPS

\* The operations that are given an object type.
TypedOps == Crud \cup Counters \cup BulkCrud \cup BulkAttributes

\* Functions of one object pass on one type, and the type that flush_fdb_entries()
\* drops is that of its object.
Agrees(table) ==
    \A e \in table : e.op \in TypedOps =>
       /\ \A f \in table : f.op \in TypedOps /\ f.object = e.object => f.type = e.type
       /\ e.object = "fdb_entry" <=> e.type = "FDB_ENTRY"

-----------------------------------------------------------------------------
\* The tables of the standard APIs.
LEMMA StandardAgree == \A api \in DOMAIN StandardTables : Agrees(StandardTables[api])
<1> USE DEF Agrees, TypedOps, Crud, Counters, BulkCrud, BulkAttributes, Entry, Object, Stats,
            Counted, Keyed, KeyedCounted, Bulk, BulkAttr, BulkAll, BulkKeyed, BulkKeyedAll,
            Special, NotImplemented
<1>1. Agrees(stub_switch)
    BY DEF stub_switch, switch, switch_mdio_read, switch_mdio_write, switch_tunnel,
         switch_mdio_cl22_read, switch_mdio_cl22_write
<1>2. Agrees(stub_port)
    BY DEF stub_port, port, clear_port_all_stats, port_pool, port_connector,
         port_serdes, ports, port_serdess, port_llr_profile
<1>3. Agrees(stub_fdb)
    BY DEF stub_fdb, fdb_entry, flush_fdb_entries, fdb_entries
<1>4. Agrees(stub_vlan)
    BY DEF stub_vlan, vlan, vlan_member, vlan_members, vlan_stats
<1>5. Agrees(stub_virtual_router)
    BY DEF stub_virtual_router, virtual_router
<1>6. Agrees(stub_route)
    BY DEF stub_route, route_entry, route_entries
<1>7. Agrees(stub_next_hop)
    BY DEF stub_next_hop, next_hop, next_hops
<1>8. Agrees(stub_next_hop_group)
    BY DEF stub_next_hop_group, next_hop_group, next_hop_group_member,
         next_hop_group_members, next_hop_group_map, next_hop_group_members_attribute,
         next_hop_groups
<1>9. Agrees(stub_router_interface)
    BY DEF stub_router_interface, router_interface, router_interfaces
<1>10. Agrees(stub_neighbor)
    BY DEF stub_neighbor, neighbor_entry, remove_all_neighbor_entries, neighbor_entries
<1>11. Agrees(stub_acl)
    BY DEF stub_acl, acl_table, acl_entry, acl_counter, acl_range, acl_table_group,
         acl_table_group_member, acl_table_chain_group
<1>12. Agrees(stub_hostif)
    BY DEF stub_hostif, hostif, hostif_table_entry, hostif_trap_group, hostif_trap,
         hostif_user_defined_trap, hostif_packet
<1>13. Agrees(stub_mirror)
    BY DEF stub_mirror, mirror_session
<1>14. Agrees(stub_samplepacket)
    BY DEF stub_samplepacket, samplepacket
<1>15. Agrees(stub_stp)
    BY DEF stub_stp, stp, stp_port, stp_ports
<1>16. Agrees(stub_lag)
    BY DEF stub_lag, lag, lag_member, lag_members
<1>17. Agrees(stub_policer)
    BY DEF stub_policer, policer
<1>18. Agrees(stub_wred)
    BY DEF stub_wred, wred
<1>19. Agrees(stub_qos_map)
    BY DEF stub_qos_map, qos_map
<1>20. Agrees(stub_queue)
    BY DEF stub_queue, queue, queues_attribute
<1>21. Agrees(stub_scheduler)
    BY DEF stub_scheduler, scheduler
<1>22. Agrees(stub_scheduler_group)
    BY DEF stub_scheduler_group, scheduler_group
<1>23. Agrees(stub_buffer)
    BY DEF stub_buffer, buffer_pool, ingress_priority_group, buffer_profile,
         ingress_priority_groups_attribute
<1>24. Agrees(stub_hash)
    BY DEF stub_hash, hash, fine_grained_hash_field
<1>25. Agrees(stub_udf)
    BY DEF stub_udf, udf, udf_match, udf_group
<1>26. Agrees(stub_tunnel)
    BY DEF stub_tunnel, tunnel_map, tunnel, tunnel_term_table_entry, tunnel_map_entry,
         tunnels
<1>27. Agrees(stub_l2mc)
    BY DEF stub_l2mc, l2mc_entry
<1>28. Agrees(stub_ipmc)
    BY DEF stub_ipmc, ipmc_entry
<1>29. Agrees(stub_rpf_group)
    BY DEF stub_rpf_group, rpf_group, rpf_group_member
<1>30. Agrees(stub_l2mc_group)
    BY DEF stub_l2mc_group, l2mc_group, l2mc_group_member
<1>31. Agrees(stub_ipmc_group)
    BY DEF stub_ipmc_group, ipmc_group, ipmc_group_member, ipmc_groups
<1>32. Agrees(stub_mcast_fdb)
    BY DEF stub_mcast_fdb, mcast_fdb_entry
<1>33. Agrees(stub_bridge)
    BY DEF stub_bridge, bridge, bridge_port
<1>34. Agrees(stub_tam)
    BY DEF stub_tam, tam, tam_math_func, tam_report, tam_event_threshold, tam_int,
         tam_tel_type, tam_transport, tam_telemetry, tam_collector, tam_event_action,
         tam_event, tam_counter_subscription, tam_counter_subscriptions
<1>35. Agrees(stub_srv6)
    BY DEF stub_srv6, srv6_sidlist, srv6_sidlists, srv6_sidlist_stats, my_sid_entry,
         my_sid_entries
<1>36. Agrees(stub_mpls)
    BY DEF stub_mpls, inseg_entry, inseg_entries
<1>37. Agrees(stub_dtel)
    BY DEF stub_dtel, dtel, dtel_queue_report, dtel_int_session, dtel_report_session,
         dtel_event
<1>38. Agrees(stub_bfd)
    BY DEF stub_bfd, bfd_session
<1>39. Agrees(stub_isolation_group)
    BY DEF stub_isolation_group, isolation_group, isolation_group_member
<1>40. Agrees(stub_nat)
    BY DEF stub_nat, nat_entry, nat_entries, nat_zone_counter
<1>41. Agrees(stub_counter)
    BY DEF stub_counter, counter
<1>42. Agrees(stub_debug_counter)
    BY DEF stub_debug_counter, debug_counter
<1>43. Agrees(stub_macsec)
    BY DEF stub_macsec, macsec, macsec_port, macsec_flow, macsec_sc, macsec_sa
<1>44. Agrees(stub_system_port)
    BY DEF stub_system_port, system_port
<1>45. Agrees(stub_my_mac)
    BY DEF stub_my_mac, my_mac
<1>46. Agrees(stub_ipsec)
    BY DEF stub_ipsec, ipsec, ipsec_port, ipsec_sa
<1>47. Agrees(stub_generic_programmable)
    BY DEF stub_generic_programmable, generic_programmable
<1>48. Agrees(stub_ars)
    BY DEF stub_ars, ars
<1>49. Agrees(stub_ars_profile)
    BY DEF stub_ars_profile, ars_profile
<1>50. Agrees(stub_twamp)
    BY DEF stub_twamp, twamp_session
<1>51. Agrees(stub_poe)
    BY DEF stub_poe, poe_device, poe_pse, poe_port
<1>52. Agrees(stub_icmp_echo)
    BY DEF stub_icmp_echo, icmp_echo_session
<1>53. Agrees(stub_prefix_compression)
    BY DEF stub_prefix_compression, prefix_compression_table, prefix_compression_entry,
         prefix_compression_entries
<1>54. Agrees(stub_synce)
    BY DEF stub_synce, synce_clock
<1> HIDE DEF Agrees
<1> QED BY <1>1, <1>2, <1>3, <1>4, <1>5, <1>6, <1>7, <1>8, <1>9, <1>10, <1>11, <1>12,
           <1>13, <1>14, <1>15, <1>16, <1>17, <1>18, <1>19, <1>20, <1>21, <1>22, <1>23,
           <1>24, <1>25, <1>26, <1>27, <1>28, <1>29, <1>30, <1>31, <1>32, <1>33, <1>34,
           <1>35, <1>36, <1>37, <1>38, <1>39, <1>40, <1>41, <1>42, <1>43, <1>44, <1>45,
           <1>46, <1>47, <1>48, <1>49, <1>50, <1>51, <1>52, <1>53, <1>54
        DEF StandardTables

\* The tables of the extensions.
LEMMA ExtensionsAgree == \A api \in DOMAIN ExtensionTables : Agrees(ExtensionTables[api])
<1> USE DEF Agrees, TypedOps, Crud, Counters, BulkCrud, BulkAttributes, Entry, Object, Stats,
            Counted, Keyed, KeyedCounted, Bulk, BulkAttr, BulkAll, BulkKeyed, BulkKeyedAll,
            Special, NotImplemented
<1>1. Agrees(stub_bmtor)
    BY DEF stub_bmtor, table_bitmap_classification_entry, table_bitmap_router_entry,
         table_meta_tunnel_entry
<1>2. Agrees(stub_dash_acl)
    BY DEF stub_dash_acl, dash_acl_group, dash_acl_groups, dash_acl_rule, dash_acl_rules
<1>3. Agrees(stub_dash_direction_lookup)
    BY DEF stub_dash_direction_lookup, direction_lookup_entry, direction_lookup_entries
<1>4. Agrees(stub_dash_eni)
    BY DEF stub_dash_eni, eni_ether_address_map_entry, eni_ether_address_map_entries,
         eni, enis
<1>5. Agrees(stub_dash_inbound_routing)
    BY DEF stub_dash_inbound_routing, inbound_routing_entry, inbound_routing_entries
<1>6. Agrees(stub_dash_meter)
    BY DEF stub_dash_meter, meter_bucket_entry, meter_bucket_entries, meter_policy,
         meter_policys, meter_rule, meter_rules
<1>7. Agrees(stub_dash_outbound_ca_to_pa)
    BY DEF stub_dash_outbound_ca_to_pa, outbound_ca_to_pa_entry,
         outbound_ca_to_pa_entries
<1>8. Agrees(stub_dash_outbound_routing)
    BY DEF stub_dash_outbound_routing, outbound_routing_entry, outbound_routing_entries,
         outbound_routing_group, outbound_routing_groups
<1>9. Agrees(stub_dash_vnet)
    BY DEF stub_dash_vnet, vnet, vnets
<1>10. Agrees(stub_dash_pa_validation)
    BY DEF stub_dash_pa_validation, pa_validation_entry, pa_validation_entries
<1>11. Agrees(stub_dash_vip)
    BY DEF stub_dash_vip, vip_entry, vip_entries
<1>12. Agrees(stub_dash_ha)
    BY DEF stub_dash_ha, ha_set, ha_sets, ha_scope, ha_scopes
<1>13. Agrees(stub_dash_tunnel)
    BY DEF stub_dash_tunnel, dash_tunnel, dash_tunnels, dash_tunnel_member,
         dash_tunnel_members, dash_tunnel_next_hop, dash_tunnel_next_hops
<1>14. Agrees(stub_dash_flow)
    BY DEF stub_dash_flow, flow_table, flow_tables, flow_entry, flow_entries,
         flow_entry_bulk_get_session_filter, flow_entry_bulk_get_session_filters,
         flow_entry_bulk_get_session, flow_entry_bulk_get_sessions
<1>15. Agrees(stub_dash_appliance)
    BY DEF stub_dash_appliance, dash_appliance, dash_appliances
<1>16. Agrees(stub_dash_outbound_port_map)
    BY DEF stub_dash_outbound_port_map, outbound_port_map, outbound_port_maps,
         outbound_port_map_port_range_entry, outbound_port_map_port_range_entries
<1>17. Agrees(stub_dash_trusted_vni)
    BY DEF stub_dash_trusted_vni, global_trusted_vni_entry, global_trusted_vni_entries,
         eni_trusted_vni_entry, eni_trusted_vni_entries
<1> HIDE DEF Agrees
<1> QED BY <1>1, <1>2, <1>3, <1>4, <1>5, <1>6, <1>7, <1>8, <1>9, <1>10, <1>11, <1>12,
           <1>13, <1>14, <1>15, <1>16, <1>17
        DEF ExtensionTables

\* Every table that sai_api_query() hands out.
LEMMA TablesAgree ==
    /\ \A api \in DOMAIN Tables : Agrees(Tables[api])
    /\ "FDB" \in DOMAIN Tables
<1>1. \A api \in DOMAIN Tables : api \in DOMAIN StandardTables \/ api \in DOMAIN ExtensionTables
  BY DEF Tables
<1>2. \A api \in DOMAIN Tables :
         Tables[api] = IF api \in DOMAIN StandardTables THEN StandardTables[api]
                                                       ELSE ExtensionTables[api]
  BY DEF Tables
<1>3. "FDB" \in DOMAIN StandardTables
  BY DEF StandardTables
<1> QED BY <1>1, <1>2, <1>3, StandardAgree, ExtensionsAgree DEF Tables

-----------------------------------------------------------------------------
(* The store.                                                              *)

TypeOf(api, object) ==
    CHOOSE t : \E e \in Entries(api, TypedOps) : e.object = object /\ e.type = t

StoreOf(h) == [type |-> TypeOf(h.api, h.object), id |-> h.id]

Handles ==
    /\ IsFiniteSet(handles)
    /\ \A h \in handles :
         /\ h = [api |-> h.api, object |-> h.object, id |-> h.id]
         /\ h.api \in DOMAIN Tables
         /\ \E e \in Entries(h.api, TypedOps) : e.object = h.object

OneToOne ==
    /\ \A h \in handles : StoreOf(h) \in live
    /\ \A o \in live : \E h \in handles : o = StoreOf(h)
    /\ \A g, h \in handles : StoreOf(g) = StoreOf(h) => g = h

SaiInv == Handles /\ OneToOne /\ status # "ITEM_NOT_FOUND"

\* Every function of an object passes on the type of that object.
LEMMA EntryType ==
    ASSUME NEW api \in DOMAIN Tables, NEW ops \in SUBSET TypedOps, NEW e \in Entries(api, ops)
    PROVE  /\ TypeOf(api, e.object) = e.type
           /\ e \in Entries(api, TypedOps)
           /\ e.object = "fdb_entry" <=> e.type = "FDB_ENTRY"
<1>1. Agrees(Tables[api]) /\ \A o : Entries(api, o) = { x \in Tables[api] : x.op \in o }
  BY TablesAgree DEF Entries, sai_api_query
<1>2. e \in Tables[api] /\ e.op \in TypedOps /\ e \in Entries(api, TypedOps)
  BY <1>1
<1>3. \A f \in Entries(api, TypedOps) : f.object = e.object => f.type = e.type
  BY <1>1, <1>2 DEF Agrees
<1>4. TypeOf(api, e.object) = e.type
  BY <1>2, <1>3 DEF TypeOf
<1> QED BY <1>1, <1>2, <1>4 DEF Agrees

\* Nothing is stored before the library is started.
LEMMA SaiInitInv == SaiInit => SaiInv
BY FS_EmptySet DEF SaiInit, SaiInv, Handles, OneToOne

\* What a call creates is new to the store.
LEMMA CreateInv ==
    ASSUME SaiInv, NEW api \in DOMAIN Tables,
           NEW e \in Entries(api, {"create", "bulkCreate"}), Create(api, e)
    PROVE  SaiInv'
<1>0. Handles /\ OneToOne
  BY DEF SaiInv
<1>1. PICK asked \in SUBSET Candidates(e) : \E new \in SUBSET asked :
        /\ \A i \in new : [type |-> e.type, id |-> i] \notin live
        /\ live' = live \cup { [type |-> e.type, id |-> i] : i \in new }
        /\ handles' = handles \cup { [api |-> api, object |-> e.object, id |-> i] : i \in new }
        /\ status' \in {"SUCCESS", "ITEM_ALREADY_EXISTS", "FAILURE"}
  BY DEF Create
<1>2. PICK new \in SUBSET asked :
        /\ \A i \in new : [type |-> e.type, id |-> i] \notin live
        /\ live' = live \cup { [type |-> e.type, id |-> i] : i \in new }
        /\ handles' = handles \cup { [api |-> api, object |-> e.object, id |-> i] : i \in new }
        /\ status' \in {"SUCCESS", "ITEM_ALREADY_EXISTS", "FAILURE"}
  BY <1>1
<1> DEFINE Made(i) == [api |-> api, object |-> e.object, id |-> i]
           made == { Made(i) : i \in new }
<1>3. TypeOf(api, e.object) = e.type /\ e \in Entries(api, TypedOps)
  BY EntryType DEF TypedOps, Crud, BulkCrud
<1>4. \A i : StoreOf(Made(i)) = [type |-> e.type, id |-> i]
  BY <1>3 DEF StoreOf
<1>5. IsFiniteSet(new)
  <2>1. new \in SUBSET Ids
    BY DEF Candidates
  <2> QED BY <2>1, FS_Subset, SaiAssumption
<1>6. IsFiniteSet(made)
  <2> DEFINE f == [i \in new |-> Made(i)]
  <2>1. f \in Surjection(new, made)
    BY DEF Surjection
  <2> QED BY <1>5, <2>1, FS_Surjection
<1>7. Handles'
  <2>1. IsFiniteSet(handles')
    BY <1>0, <1>2, <1>6, FS_Union DEF Handles
  <2>2. ASSUME NEW h \in handles'
        PROVE  /\ h = [api |-> h.api, object |-> h.object, id |-> h.id]
               /\ h.api \in DOMAIN Tables
               /\ \E f \in Entries(h.api, TypedOps) : f.object = h.object
    <3>1. CASE h \in handles
      BY <3>1, <1>0 DEF Handles
    <3>2. CASE h \in made
      BY <3>2, <1>3
    <3> QED BY <3>1, <3>2, <1>2
  <2> QED BY <2>1, <2>2 DEF Handles
<1>8. OneToOne'
  <2>1. ASSUME NEW h \in handles' PROVE StoreOf(h) \in live'
    <3>1. CASE h \in handles
      BY <3>1, <1>0, <1>2 DEF OneToOne
    <3>2. ASSUME NEW i \in new, h = Made(i) PROVE StoreOf(h) \in live'
      <4>1. StoreOf(h) = [type |-> e.type, id |-> i]
        BY <3>2, <1>4
      <4> QED BY <4>1, <1>2
    <3> QED BY <3>1, <3>2, <1>2
  <2>2. ASSUME NEW o \in live' PROVE \E h \in handles' : o = StoreOf(h)
    <3>1. CASE o \in live
      BY <3>1, <1>0, <1>2 DEF OneToOne
    <3>2. CASE o \notin live
      <4>1. PICK i \in new : o = [type |-> e.type, id |-> i]
        BY <3>2, <1>2
      <4>2. Made(i) \in handles' /\ o = StoreOf(Made(i))
        BY <4>1, <1>2, <1>4
      <4> QED BY <4>2
    <3> QED BY <3>1, <3>2
  <2>3. ASSUME NEW g \in handles', NEW h \in handles', StoreOf(g) = StoreOf(h) PROVE g = h
    <3>1. ASSUME NEW k \in handles' PROVE k \in handles \/ \E i \in new : k = Made(i)
      BY <1>2
    <3>2. ASSUME NEW i \in new PROVE StoreOf(Made(i)) \notin live /\ StoreOf(Made(i)).id = i
      <4>1. StoreOf(Made(i)) = [type |-> e.type, id |-> i]
        BY <1>4
      <4>2. [type |-> e.type, id |-> i] \notin live /\ [type |-> e.type, id |-> i].id = i
        BY <1>2
      <4> QED BY <4>1, <4>2
    <3>3. CASE g \in handles /\ h \in handles
      BY <2>3, <3>3, <1>0 DEF OneToOne
    <3>4. CASE g \in handles /\ h \notin handles
      BY <2>3, <3>1, <3>2, <3>4, <1>0 DEF OneToOne
    <3>5. CASE g \notin handles /\ h \in handles
      BY <2>3, <3>1, <3>2, <3>5, <1>0 DEF OneToOne
    <3>6. CASE g \notin handles /\ h \notin handles
      <4>1. PICK i \in new : g = Made(i)
        BY <3>1, <3>6
      <4>2. PICK j \in new : h = Made(j)
        BY <3>1, <3>6
      <4> QED BY <2>3, <3>2, <4>1, <4>2
    <3> QED BY <3>3, <3>4, <3>5, <3>6
  <2> QED BY <2>1, <2>2, <2>3 DEF OneToOne
<1> QED BY <1>2, <1>7, <1>8 DEF SaiInv

\* The objects that a function of an object is called for are stored under its type.
LEMMA NamedStored ==
    ASSUME SaiInv, NEW api, NEW ops \in SUBSET TypedOps, NEW e \in Entries(api, ops),
           NEW named \in Named(api, e)
    PROVE  /\ named \subseteq handles
           /\ \A h \in named : [type |-> e.type, id |-> h.id] = StoreOf(h)
           /\ Stored(e, named) \subseteq live
<1>1. named \subseteq handles /\ \A h \in named : h.api = api /\ h.object = e.object
  BY DEF Named
<1>2. ASSUME NEW h \in named
      PROVE  [type |-> e.type, id |-> h.id] = StoreOf(h) /\ StoreOf(h) \in live
  <2>1. api \in DOMAIN Tables
    BY <1>1, <1>2 DEF SaiInv, Handles
  <2>2. TypeOf(api, e.object) = e.type
    BY <2>1, EntryType
  <2> QED BY <1>1, <1>2, <2>2 DEF StoreOf, SaiInv, OneToOne
<1> QED BY <1>1, <1>2 DEF Stored

\* A call that removes finds all it names and removes nothing else.
LEMMA RemoveInv ==
    ASSUME SaiInv, GiveBack PROVE SaiInv'
<1>0. Handles /\ OneToOne
  BY DEF SaiInv
<1>a. PICK api \in { h.api : h \in handles } :
        \E e \in Entries(api, {"remove", "bulkRemove"}) : RemoveObjects(api, e)
  BY DEF GiveBack
<1>1. PICK e \in Entries(api, {"remove", "bulkRemove"}) : RemoveObjects(api, e)
  BY <1>a
<1>2. PICK named \in Named(api, e) :
        LET found == { h \in named : [type |-> e.type, id |-> h.id] \in live } IN
        /\ live' = live \ Stored(e, named)
        /\ handles' = handles \ found
        /\ status' = IF found = named THEN "SUCCESS" ELSE "ITEM_NOT_FOUND"
  BY <1>1 DEF RemoveObjects
<1>3. /\ named \subseteq handles /\ Stored(e, named) \subseteq live
      /\ \A h \in named : [type |-> e.type, id |-> h.id] = StoreOf(h)
  BY <1>1, <1>2, NamedStored DEF TypedOps, Crud, BulkCrud
<1>4. { h \in named : [type |-> e.type, id |-> h.id] \in live } = named
  BY <1>0, <1>3 DEF OneToOne
<1>5. /\ live' = live \ { StoreOf(h) : h \in named }
      /\ handles' = handles \ named /\ status' = "SUCCESS"
  BY <1>2, <1>3, <1>4 DEF Stored
<1>6. Handles'
  <2>1. IsFiniteSet(handles')
    BY <1>0, <1>5, FS_Subset DEF Handles
  <2> QED BY <1>0, <1>5, <2>1 DEF Handles
<1>7. OneToOne'
  <2>1. ASSUME NEW h \in handles' PROVE StoreOf(h) \in live'
    BY <1>0, <1>3, <1>5 DEF OneToOne
  <2>2. ASSUME NEW o \in live' PROVE \E h \in handles' : o = StoreOf(h)
    BY <1>0, <1>5 DEF OneToOne
  <2>3. \A g, h \in handles' : StoreOf(g) = StoreOf(h) => g = h
    BY <1>0, <1>5 DEF OneToOne
  <2> QED BY <2>1, <2>2, <2>3 DEF OneToOne
<1> QED BY <1>5, <1>6, <1>7 DEF SaiInv

\* flush_fdb_entries() drops the entries of the store and the client's handles to
\* them.
LEMMA FlushInv ==
    ASSUME SaiInv, FlushFdbEntries PROVE SaiInv'
<1>0. Handles /\ OneToOne
  BY DEF SaiInv
<1>1. /\ live' = { o \in live : o.type # "FDB_ENTRY" }
      /\ handles' = { h \in handles : h.object # "fdb_entry" }
      /\ status' = "SUCCESS"
  BY DEF FlushFdbEntries
<1>2. \A h \in handles : StoreOf(h).type = "FDB_ENTRY" <=> h.object = "fdb_entry"
  <2> SUFFICES ASSUME NEW h \in handles
               PROVE  StoreOf(h).type = "FDB_ENTRY" <=> h.object = "fdb_entry"
    OBVIOUS
  <2>1. h.api \in DOMAIN Tables
    BY <1>0 DEF Handles
  <2>2. PICK e \in Entries(h.api, TypedOps) : e.object = h.object
    BY <1>0 DEF Handles
  <2>3. TypeOf(h.api, e.object) = e.type /\ (e.object = "fdb_entry" <=> e.type = "FDB_ENTRY")
    BY <2>1, EntryType
  <2> QED BY <2>2, <2>3 DEF StoreOf
<1>3. Handles'
  <2>1. handles' \in SUBSET handles
    BY <1>1
  <2>2. IsFiniteSet(handles')
    BY <1>0, <2>1, FS_Subset DEF Handles
  <2> QED BY <1>0, <2>1, <2>2 DEF Handles
<1>4. OneToOne'
  BY <1>0, <1>1, <1>2 DEF OneToOne
<1> QED BY <1>1, <1>3, <1>4 DEF SaiInv

\* Every call of the client keeps store and handles together.
LEMMA SaiNextInv == SaiInv /\ [SaiNext]_saiVars => SaiInv'
<1> SUFFICES ASSUME SaiInv, [SaiNext]_saiVars PROVE SaiInv'
  OBVIOUS
<1>1. ASSUME UNCHANGED <<live, handles>>, status' # "ITEM_NOT_FOUND" PROVE SaiInv'
  BY <1>1 DEF SaiInv, Handles, OneToOne
<1>2. ASSUME NEW r, Keep(r), r # "ITEM_NOT_FOUND" PROVE SaiInv'
  BY <1>1, <1>2 DEF Keep
<1>3. CASE sai_api_initialize \/ Close
  BY <1>1, <1>3 DEF sai_api_initialize, Close, SaiInv
<1>4. CASE sai_api_uninitialize
  <2>1. live = {} /\ live' = {} /\ handles' = handles /\ status' = "SUCCESS"
    BY <1>4 DEF sai_api_uninitialize, SaiInv, OneToOne
  <2> QED BY <1>1, <2>1
<1>5. CASE QueryRefused
  <2>1. ASSUME NEW api, NEW b \in BOOLEAN
        PROVE  sai_api_query(api, b).status \in {"SUCCESS", "INVALID_PARAMETER"}
    BY DEF sai_api_query
  <2> QED BY <1>2, <1>5, <2>1 DEF QueryRefused
<1>6. ASSUME NEW api \in { h.api : h \in handles },
             NEW e \in Entries(api, {"set", "get"} \cup Counters \cup BulkAttributes),
             Access(api, e)
      PROVE  SaiInv'
  <2>1. PICK named \in Named(api, e) :
           Keep(IF Stored(e, named) \subseteq live THEN "SUCCESS" ELSE "ITEM_NOT_FOUND")
    BY <1>6 DEF Access
  <2>2. Stored(e, named) \subseteq live
    BY <2>1, NamedStored DEF TypedOps, Crud
  <2> QED BY <1>2, <2>1, <2>2
<1>7. CASE MdioAccess \/ CallNotImplemented \/ QueryLibrary
  BY <1>2, <1>7 DEF MdioAccess, CallNotImplemented, QueryLibrary
<1>8. CASE UNCHANGED saiVars
  BY <1>1, <1>8 DEF saiVars, SaiInv
<1> QED BY <1>3, <1>4, <1>5, <1>6, <1>7, <1>8, CreateInv, RemoveInv, FlushInv DEF SaiNext, Use

\* The client and the library count the same objects.
LEMMA SaiInvStore == SaiInv => StoreMatchesClient
<1> SUFFICES ASSUME SaiInv PROVE StoreMatchesClient
  OBVIOUS
<1>0. Handles /\ OneToOne
  BY DEF SaiInv
<1> DEFINE f == [h \in handles |-> StoreOf(h)]
<1>1. f \in Bijection(handles, live)
  <2>1. f \in [handles -> live]
    BY <1>0 DEF OneToOne
  <2>2. \A g, h \in handles : f[g] = f[h] => g = h
    BY <1>0 DEF OneToOne
  <2>3. \A o \in live : \E h \in handles : f[h] = o
    BY <1>0 DEF OneToOne
  <2> HIDE DEF f
  <2> QED BY <2>1, <2>2, <2>3 DEF Bijection, Injection, Surjection, IsInjective
<1>2. ExistsBijection(handles, live)
  BY <1>1 DEF ExistsBijection
<1>3. Cardinality(live) = Cardinality(handles)
  BY <1>0, <1>2, FS_Bijection DEF Handles
<1>4. \A h \in handles : StoreOf(h) \in live /\ StoreOf(h).id = h.id
  BY <1>0 DEF OneToOne, StoreOf
<1> QED BY <1>3, <1>4 DEF StoreMatchesClient, SaiInv

-----------------------------------------------------------------------------
(* The programs that use the binary API.                                   *)

Idle == requests = <<>> /\ replies = <<>>

\* The client's table has VPP's numbers, as far as it goes.
Known == sw_if_index_by_interface_name =
            [n \in DOMAIN sw_if_index_by_interface_name |-> Host(Interfaces[n])]

\* Nothing is lost between VPP and the table.
Covered ==
    /\ DOMAIN sw_if_index_by_interface_name \subseteq DOMAIN Interfaces
    /\ \A n \in DOMAIN Interfaces :
         \/ n \in DOMAIN sw_if_index_by_interface_name
         \/ \E k \in 1..Len(replies) : replies[k] \in Details /\ replies[k].name = n

\* dump_interfaces() waits: VPP has the dump before the ping, and answers them in
\* this order.
Dumping ==
    \/ requests = dump_interfaces /\ replies = <<>> /\ result_ready = 0
       /\ DOMAIN sw_if_index_by_interface_name = {}
    \/ /\ requests = << Msg("control_ping") >> /\ result_ready = 0
       /\ replies \in Seq(Details) /\ Covered
    \/ /\ requests = <<>> /\ result_ready = 0
       /\ \E d \in Seq(Details) : replies = Append(d, Reply("control_ping_reply", 0))
       /\ Covered
    \/ requests = <<>> /\ replies = <<>> /\ Covered

\* The tunnel when the call of a step has succeeded.
After(s) ==
    CASE s = "tunnel"     -> NewTunnel
      [] s = "up"         -> [up |-> TRUE, table |-> FALSE, donor |-> Unset]
      [] s = "table"      -> [up |-> TRUE, table |-> TRUE, donor |-> Unset]
      [] s = "unnumbered" -> [up |-> TRUE, table |-> TRUE, donor |-> Host(Interfaces[Bvi])]
Configured(s) == vppTunnels = [t \in {NewIndex} |-> After(s)]
Before == [up |-> "tunnel", table |-> "up", unnumbered |-> "table"]
Begun == step = "tunnel" \/ Configured(Before[step])

\* A call that makes or configures the tunnel waits for the answer.
Asking ==
    \/ requests = Requests /\ replies = <<>> /\ result_ready = 0 /\ Begun
    \/ \E r \in [kind : {ReplyKind(Requests[1])}, retval : {0, 1},
                 index : {Unset, htonl(Host(NewIndex))}] :
         /\ requests = <<>> /\ replies = <<r>> /\ result_ready = 0
         /\ IF r.retval = 0 THEN Configured(step) /\ r.index = htonl(Host(NewIndex)) ELSE Begun
    \/ /\ Idle
       /\ IF retval = 0 THEN Configured(step) /\ ipip_tunnel_sw_if_index = Host(NewIndex)
          ELSE Begun

Registered == handlers = register_base_handlers \cup register_interface_handlers
                            \cup register_ipip_handlers

\* A client that has not failed.
Proceeding ==
    /\ Known
    /\ connected => Registered
    /\ ~waiting \/ ~connected => Idle
    /\ ~connected => ~waiting \/ result_ready = 0
    /\ waiting => step \in {"dump"} \cup TunnelSteps
    /\ step = "connect" => ~connected /\ ~waiting
    /\ step \in {"connect", "dump"} /\ ~waiting => DOMAIN sw_if_index_by_interface_name = {}
    /\ step = "dump" /\ waiting /\ connected => Dumping
    /\ step \in {"print", "lookup"} \cup TunnelSteps \/ exit = 0 =>
         DOMAIN sw_if_index_by_interface_name = DOMAIN Interfaces
    /\ step \in {"lookup"} \cup TunnelSteps => prog = "ipip" /\ connected
    /\ step = "print" => prog # "ipip"
    /\ step \in TunnelSteps \/ (prog = "ipip" /\ exit = 0) => Bvi \in DOMAIN Interfaces
    /\ step \in {"up", "table", "unnumbered"} => ipip_tunnel_sw_if_index = Host(NewIndex)
    /\ step \in TunnelSteps => IF waiting THEN Asking ELSE Begun
    /\ prog = "ipip" /\ exit = 0 =>
         ipip_tunnel_sw_if_index = Host(NewIndex) /\ Configured("unnumbered")

VppType ==
    /\ prog \in {"connect", "list", "ipip"}
    /\ step \in {"connect", "dump", "lookup", "print", "exit"} \cup TunnelSteps
    /\ waiting \in BOOLEAN /\ connected \in BOOLEAN
    /\ exit \in {-1, 0, 1} /\ (exit = -1 <=> step # "exit")
    /\ result_ready \in {0, 1}
    /\ step = "exit" => ~waiting

VppInv == VppType /\ (exit = 1 \/ Proceeding)

\* Converting a number twice gives it back, and what a handler is given is what VPP
\* meant, whoever converts it.
LEMMA Conversions ==
    ASSUME NEW n
    PROVE  /\ ntohl(htonl(Host(n))) = Host(n)
           /\ LET given == IF vl_msg_api_set_handlers.is_autoendian
                           THEN ntohl(htonl(Host(n))) ELSE htonl(Host(n))
              IN  (IF prog = "list" THEN ntohl(given) ELSE given) = Host(n)
BY DEF ntohl, htonl, Host, vl_msg_api_set_handlers

\* The details that VPP sends for a dump are all it has.
LEMMA AllDetails ==
    /\ SetToSeq(Details) \in Seq(Details)
    /\ \A d \in Details : \E k \in 1..Len(SetToSeq(Details)) : SetToSeq(Details)[k] = d
<1> DEFINE n == Cardinality(Details)
           f == SetToSeq(Details)
           D(x) == [kind |-> "sw_interface_details", name |-> x,
                    index |-> htonl(Host(Interfaces[x]))]
<1>1. IsFiniteSet(Details) /\ n \in Nat
  <2> DEFINE g == [x \in DOMAIN Interfaces |-> D(x)]
  <2>1. g \in Surjection(DOMAIN Interfaces, Details)
    BY DEF Surjection, Details
  <2>2. IsFiniteSet(Details)
    BY <2>1, FS_Surjection, VppAssumption
  <2> QED BY <2>2, FS_CardinalityType
<1>2. \E g \in [1..n -> Details] : IsInjective(g)
  <2>1. ExistsBijection(1..n, Details)
    BY <1>1, FS_CardinalityType
  <2> QED BY <2>1 DEF ExistsBijection, Bijection, Injection
<1>3. f \in [1..n -> Details] /\ IsInjective(f)
  BY <1>2 DEF SetToSeq
<1>4. f \in Injection(1..n, Details)
  BY <1>3 DEF Injection
<1>5. Cardinality(1..n) = n
  <2>1. Cardinality(1..n) = IF 1 > n THEN 0 ELSE n - 1 + 1
    BY <1>1, FS_Interval
  <2> QED BY <1>1, <2>1
<1>6. f \in Surjection(1..n, Details)
  BY <1>1, <1>4, <1>5, FS_Injection
<1> HIDE DEF f, n
<1>7. f \in Seq(Details) /\ Len(f) = n
  BY <1>1, <1>3
<1>8. \A d \in Details : \E k \in 1..Len(f) : f[k] = d
  BY <1>6, <1>7 DEF Surjection
<1> QED BY <1>7, <1>8 DEF f

\* A detail has a name and an index of VPP's.
LEMMA DetailFields ==
    ASSUME NEW d \in Details
    PROVE  /\ d.kind = "sw_interface_details" /\ d.name \in DOMAIN Interfaces
           /\ d.index = htonl(Host(Interfaces[d.name]))
BY DEF Details

\* A program starts with an empty table and nothing on its way.
LEMMA VppInitInv == VppInit => VppInv
<1> SUFFICES ASSUME VppInit PROVE VppInv
  OBVIOUS
<1> USE DEF VppInit
<1>1. VppType
  BY DEF VppType, TunnelSteps
<1>2. DOMAIN sw_if_index_by_interface_name = {} /\ Known
  BY DEF Known
<1>3. Proceeding
  BY <1>2 DEF Proceeding, Idle, TunnelSteps
<1> QED BY <1>1, <1>3 DEF VppInv

\* main() returns.
LEMMA ReturnType ==
    ASSUME VppType, NEW code \in {0, 1}, Return(code),
           UNCHANGED <<prog, connected, result_ready>>
    PROVE  VppType'
<1>1. step' = "exit" /\ exit' = code /\ waiting' = FALSE
  BY DEF Return
<1>2. exit' \in {-1, 0, 1} /\ (exit' = -1 <=> step' # "exit")
  BY <1>1
<1> QED BY <1>1, <1>2 DEF VppType

\* main() goes on to its next step.
LEMMA StepType ==
    ASSUME VppType, exit = -1, exit' = exit, waiting' = FALSE,
           step' \in {"dump", "lookup", "print"} \cup TunnelSteps,
           connected' \in BOOLEAN, UNCHANGED <<prog, result_ready>>
    PROVE  VppType'
<1>1. exit' \in {-1, 0, 1} /\ (exit' = -1 <=> step' # "exit")
  BY DEF TunnelSteps
<1> QED BY <1>1 DEF VppType, TunnelSteps

\* The connection is made, or fails.
LEMMA ConnectInv ==
    ASSUME VppInv, connect_to_vpp \/ ConnectFails PROVE VppInv'
<1>0. VppType /\ Proceeding /\ step = "connect" /\ exit = -1 /\ ~waiting /\ Idle
  BY DEF VppInv, VppType, Proceeding, connect_to_vpp, ConnectFails
<1>1. VppType'
  <2>0. UNCHANGED <<prog, result_ready>> /\ connected \in BOOLEAN /\ waiting = FALSE
    BY <1>0 DEF connect_to_vpp, ConnectFails, results, VppType
  <2>1. CASE connect_to_vpp
    <3>1. step' = "dump" /\ exit' = exit /\ waiting' = FALSE /\ connected' = TRUE
      BY <2>0, <2>1 DEF connect_to_vpp
    <3> QED BY <1>0, <2>0, <3>1, StepType
  <2>2. CASE ConnectFails /\ prog = "connect"
    <3>1. step' = "dump" /\ exit' = exit /\ waiting' = FALSE /\ connected' = connected
      BY <2>0, <2>2 DEF ConnectFails
    <3> QED BY <1>0, <2>0, <3>1, StepType
  <2>3. CASE ConnectFails /\ prog # "connect"
    <3>1. Return(1) /\ connected' = connected
      BY <2>3 DEF ConnectFails
    <3> QED BY <1>0, <2>0, <3>1, ReturnType
  <2> QED BY <2>1, <2>2, <2>3
<1>2. UNCHANGED <<prog, requests, replies, results, vppTunnels>>
  BY DEF connect_to_vpp, ConnectFails
<1>3. Known' /\ Idle' /\ DOMAIN sw_if_index_by_interface_name' = {}
  BY <1>0, <1>2 DEF Known, Idle, results, Proceeding
<1>4. CASE connect_to_vpp
  <2>1. Registered' /\ step' = "dump" /\ exit' = -1 /\ ~waiting'
    BY <1>0, <1>2, <1>4 DEF connect_to_vpp, Registered, register_interface_handlers,
                            register_ipip_handlers
  <2>2. Proceeding'
    BY <1>3, <2>1 DEF Proceeding, TunnelSteps
  <2> QED BY <1>1, <2>2 DEF VppInv
<1>5. CASE ConnectFails
  <2>1. CASE prog = "connect"
    <3>1. step' = "dump" /\ exit' = -1 /\ ~waiting' /\ ~connected'
      BY <1>0, <1>5, <2>1 DEF ConnectFails, Proceeding
    <3>2. Proceeding'
      BY <1>3, <3>1 DEF Proceeding, TunnelSteps
    <3> QED BY <1>1, <3>2 DEF VppInv
  <2>2. CASE prog # "connect"
    BY <1>1, <1>5, <2>2 DEF ConnectFails, Return, VppInv
  <2> QED BY <2>1, <2>2
<1> QED BY <1>4, <1>5

\* M() and S(): the requests of a step are on their way and nothing else is.
LEMMA SendInv ==
    ASSUME VppInv, Send PROVE VppInv'
<1>0. /\ VppType /\ Proceeding /\ Idle /\ exit = -1 /\ ~waiting
      /\ step \in {"dump"} \cup TunnelSteps
  BY DEF VppInv, VppType, Proceeding, Send, TunnelSteps
<1>1. /\ UNCHANGED <<prog, handlers, connected, step, exit, replies, retval, vppTunnels,
                     sw_if_index_by_interface_name, ipip_tunnel_sw_if_index>>
      /\ result_ready' = 0 /\ waiting'
      /\ requests' = IF connected THEN requests \o Requests ELSE requests
  BY DEF Send, session
<1>2. VppType'
  BY <1>0, <1>1 DEF VppType, TunnelSteps
<1>3. Known' /\ (connected' => Registered')
  BY <1>0, <1>1 DEF Known, Proceeding, Registered, register_interface_handlers,
                    register_ipip_handlers
<1>4. ~connected => Idle'
  BY <1>0, <1>1 DEF Idle
<1>5. CASE step = "dump"
  <2>1. connected => requests' = dump_interfaces
    BY <1>0, <1>1, <1>5 DEF Idle, Requests, dump_interfaces
  <2>2. connected => Dumping'
    BY <1>0, <1>1, <1>5, <2>1 DEF Dumping, Idle, Proceeding, dump_interfaces, Msg, Unset, Host
  <2> QED BY <1>0, <1>1, <1>2, <1>3, <1>4, <1>5, <2>2 DEF VppInv, Proceeding, TunnelSteps
<1>6. CASE step \in TunnelSteps
  <2>1. connected /\ Begun
    BY <1>0, <1>6 DEF Proceeding
  <2>2. Requests' = Requests
    BY <1>1 DEF Requests, set_interface_up, set_interface_ip_table, set_interface_unnumbered
  <2>3. requests' = Requests
    BY <1>0, <1>1, <1>6, <2>1 DEF Idle, Requests, TunnelSteps, create_ipip_p2mp_tunnel,
          set_interface_up, set_interface_ip_table, set_interface_unnumbered
  <2>4. Begun'
    BY <1>1, <2>1 DEF Begun, Configured
  <2>5. Asking'
    BY <1>0, <1>1, <2>2, <2>3, <2>4 DEF Asking, Idle
  <2> QED BY <1>0, <1>1, <1>2, <1>3, <1>6, <2>1, <2>5 DEF VppInv, Proceeding, TunnelSteps
<1> QED BY <1>0, <1>5, <1>6

\* hash_get_mem() and the end of the programs that list.
LEMMA LookInv ==
    ASSUME VppInv, LookUp \/ print_interfaces PROVE VppInv'
<1>0. /\ VppType /\ Proceeding /\ Idle /\ exit = -1 /\ ~waiting
      /\ step \in {"lookup", "print"}
  BY DEF VppInv, VppType, Proceeding, LookUp, print_interfaces, TunnelSteps
<1>1. UNCHANGED <<prog, handlers, connected, requests, replies, result_ready, vppTunnels,
                  sw_if_index_by_interface_name, ipip_tunnel_sw_if_index>>
  BY DEF LookUp, print_interfaces, session, results
<1>2. VppType'
  <2>1. Return(0) \/ Return(1) \/ (step' = "tunnel" /\ UNCHANGED <<exit, waiting>>)
    BY DEF LookUp, print_interfaces
  <2>2. CASE step' = "tunnel" /\ UNCHANGED <<exit, waiting>>
    <3>1. waiting' = FALSE /\ connected' \in BOOLEAN
      BY <1>0, <1>1, <2>2 DEF VppType
    <3> QED BY <1>0, <1>1, <2>2, <3>1, StepType DEF TunnelSteps
  <2> QED BY <1>0, <1>1, <2>1, <2>2, ReturnType
<1>3. Known' /\ (connected' => Registered') /\ Idle'
  BY <1>0, <1>1 DEF Known, Idle, Proceeding, Registered, register_interface_handlers,
                    register_ipip_handlers
<1>4. CASE LookUp
  <2>1. CASE Bvi \in DOMAIN sw_if_index_by_interface_name
    <3>1. step' = "tunnel" /\ exit' = -1 /\ ~waiting'
      BY <1>0, <1>4, <2>1 DEF LookUp
    <3>2. Proceeding'
      BY <1>0, <1>1, <1>3, <1>4, <2>1, <3>1 DEF Proceeding, LookUp, Begun, TunnelSteps
    <3> QED BY <1>2, <3>2 DEF VppInv
  <2>2. CASE Bvi \notin DOMAIN sw_if_index_by_interface_name
    BY <1>2, <1>4, <2>2 DEF LookUp, Return, VppInv
  <2> QED BY <2>1, <2>2
<1>5. CASE print_interfaces
  <2>1. step = "print" /\ step' = "exit" /\ exit' = 0 /\ ~waiting'
    BY <1>5 DEF print_interfaces, Return
  <2>2. Proceeding'
    BY <1>0, <1>1, <1>3, <2>1 DEF Proceeding, TunnelSteps
  <2> QED BY <1>2, <2>2 DEF VppInv
<1> QED BY <1>4, <1>5

\* A client that waits has not failed, and handles what a connection brings.
LEMMA WaitingFacts ==
    ASSUME VppInv, waiting
    PROVE  /\ VppType /\ Proceeding /\ exit = -1 /\ step \in {"dump"} \cup TunnelSteps
           /\ connected \/ (Idle /\ result_ready = 0)
<1>1. VppType /\ step # "exit" /\ exit = -1
  BY DEF VppInv, VppType
<1>2. Proceeding
  BY <1>1 DEF VppInv
<1> QED BY <1>1, <1>2 DEF Proceeding

\* What the handler of a detail is given goes to the table, with VPP's number.
LEMMA DetailHandled ==
    ASSUME Known, Covered, Registered, Handle, NEW S, replies \in Seq(S),
           replies # <<>>, replies[1] \in Details
    PROVE  Known' /\ Covered' /\ UNCHANGED <<result_ready, retval, ipip_tunnel_sw_if_index>>
<1> DEFINE m == Head(replies)
           given == IF vl_msg_api_set_handlers.is_autoendian THEN ntohl(m.index) ELSE m.index
           index == IF prog = "list" THEN ntohl(given) ELSE given
<1>1. m = replies[1] /\ m \in Details
  OBVIOUS
<1>2. /\ m.kind = "sw_interface_details" /\ m.name \in DOMAIN Interfaces
      /\ m.index = htonl(Host(Interfaces[m.name]))
  BY <1>1, DetailFields
<1>3. m.kind \in handlers
  BY <1>2 DEF Registered, register_interface_handlers
<1>4. DetailsHandler(m, index) /\ replies' = Tail(replies)
  BY <1>2, <1>3 DEF Handle
<1>5. index = Host(Interfaces[m.name])
  BY <1>2, Conversions
<1> HIDE DEF index, m
<1>6. /\ sw_if_index_by_interface_name' =
           [n \in DOMAIN sw_if_index_by_interface_name \cup {m.name} |->
              IF n = m.name THEN index ELSE sw_if_index_by_interface_name[n]]
      /\ UNCHANGED <<result_ready, retval, ipip_tunnel_sw_if_index>>
  BY <1>4 DEF DetailsHandler
<1>7. DOMAIN sw_if_index_by_interface_name'
        = DOMAIN sw_if_index_by_interface_name \cup {m.name}
  BY <1>6
<1>8. Known'
  BY <1>5, <1>6, <1>7 DEF Known
<1>9. Covered'
  <2>1. ASSUME NEW n \in DOMAIN Interfaces, n \notin DOMAIN sw_if_index_by_interface_name'
        PROVE  \E k \in 1..Len(replies') : replies'[k] \in Details /\ replies'[k].name = n
    <3>1. PICK k \in 1..Len(replies) : replies[k] \in Details /\ replies[k].name = n
      BY <1>7, <2>1 DEF Covered
    <3>2. k # 1
      BY <1>1, <1>7, <2>1, <3>1
    <3>3. k - 1 \in 1..Len(replies') /\ replies'[k - 1] = replies[k]
      BY <1>4, <3>2
    <3> QED BY <3>1, <3>3
  <2>2. DOMAIN sw_if_index_by_interface_name' \subseteq DOMAIN Interfaces
    BY <1>2, <1>7 DEF Covered
  <2> QED BY <2>1, <2>2 DEF Covered, Details
<1> QED BY <1>6, <1>8, <1>9

\* A handler runs while the client waits.
LEMMA HandleInv ==
    ASSUME VppInv, Handle PROVE VppInv'
<1>0. /\ VppType /\ Proceeding /\ exit = -1 /\ step \in {"dump"} \cup TunnelSteps
      /\ waiting /\ connected /\ Registered /\ Known /\ replies # <<>>
  BY WaitingFacts DEF Handle, Idle, Proceeding
<1>1. /\ UNCHANGED <<prog, handlers, connected, step, waiting, exit, requests, vppTunnels>>
      /\ replies' = Tail(replies)
  BY DEF Handle, session
<1>2. Registered'
  BY <1>0, <1>1 DEF Registered, register_interface_handlers, register_ipip_handlers
<1>3. VppType'
  <2>1. result_ready' \in {0, 1}
    BY <1>0 DEF Handle, VppType, results, DetailsHandler, ReplyHandler, set_reply_status
  <2> QED BY <1>0, <1>1, <2>1 DEF VppType
<1>4. CASE step = "dump"
  <2>1. Dumping
    BY <1>0, <1>4 DEF Proceeding
  <2>2. Known' /\ Dumping'
    <3>1. CASE /\ requests = << Msg("control_ping") >> /\ result_ready = 0
               /\ replies \in Seq(Details) /\ Covered
      <4>1. replies[1] \in Details /\ replies' \in Seq(Details)
        BY <1>0, <1>1, <3>1
      <4>2. Known' /\ Covered' /\ result_ready' = 0
        BY <1>0, <3>1, <4>1, DetailHandled
      <4>3. requests' = << Msg("control_ping") >> /\ Details' = Details
        BY <1>1, <3>1 DEF Details
      <4> QED BY <4>1, <4>2, <4>3 DEF Dumping, Msg
    <3>2. CASE /\ requests = <<>> /\ result_ready = 0
               /\ \E d \in Seq(Details) : replies = Append(d, Reply("control_ping_reply", 0))
               /\ Covered
      <4>1. PICK d \in Seq(Details) : replies = Append(d, Reply("control_ping_reply", 0))
        BY <3>2
      <4>2. replies \in Seq(Details \cup {Reply("control_ping_reply", 0)})
        BY <4>1
      <4>3. CASE d = <<>>
        <5>1. replies = << Reply("control_ping_reply", 0) >> /\ replies' = <<>>
          BY <1>1, <4>1, <4>3
        <5>2. Reply("control_ping_reply", 0).kind = "control_ping_reply"
          BY DEF Reply
        <5>3. UNCHANGED sw_if_index_by_interface_name
          BY <1>0, <5>1, <5>2 DEF Handle, ReplyHandler, Registered, register_base_handlers
        <5>4. Reply("control_ping_reply", 0) \notin Details
          BY <5>2, DetailFields
        <5>5. DOMAIN sw_if_index_by_interface_name = DOMAIN Interfaces
          <6>1. \A k \in 1..Len(replies) : replies[k] \notin Details
            BY <5>1, <5>4
          <6> QED BY <3>2, <6>1 DEF Covered
        <5>6. Known' /\ Covered'
          BY <1>0, <5>3, <5>5 DEF Known, Covered
        <5> QED BY <1>1, <3>2, <5>1, <5>6 DEF Dumping
      <4>4. CASE d # <<>>
        <5>1. replies[1] \in Details /\ Tail(d) \in Seq(Details)
          BY <4>1, <4>4
        <5>2. replies' = Append(Tail(d), Reply("control_ping_reply", 0))
          BY <1>1, <4>1, <4>4
        <5>3. Known' /\ Covered' /\ result_ready' = 0
          BY <1>0, <3>2, <4>2, <5>1, DetailHandled
        <5> QED BY <1>1, <3>2, <5>1, <5>2, <5>3 DEF Dumping, Details, Reply
      <4> QED BY <4>3, <4>4
    <3> QED BY <1>0, <2>1, <3>1, <3>2 DEF Dumping
  <2> QED BY <1>0, <1>1, <1>2, <1>3, <1>4, <2>2 DEF VppInv, Proceeding, TunnelSteps
<1>5. CASE step \in TunnelSteps
  <2>1. Asking /\ prog = "ipip"
    BY <1>0, <1>5 DEF Proceeding
  <2>2. PICK r \in [kind : {ReplyKind(Requests[1])}, retval : {0, 1},
                    index : {Unset, htonl(Host(NewIndex))}] :
         /\ requests = <<>> /\ replies = <<r>> /\ result_ready = 0
         /\ IF r.retval = 0 THEN Configured(step) /\ r.index = htonl(Host(NewIndex)) ELSE Begun
    BY <1>0, <2>1 DEF Asking, Idle
  <2>3. /\ r.kind \in {"ipip_add_tunnel_reply", "sw_interface_set_flags_reply",
                       "sw_interface_set_table_reply", "sw_interface_set_unnumbered_reply"}
        /\ r.kind = "ipip_add_tunnel_reply" <=> step = "tunnel"
    BY <1>5, <2>2 DEF TunnelSteps, ReplyKind, Requests, create_ipip_p2mp_tunnel,
          set_interface_up, set_interface_ip_table, set_interface_unnumbered, Msg
  <2>4. r.kind \in handlers
    BY <1>0, <2>1, <2>3 DEF Registered, register_interface_handlers, register_ipip_handlers
  <2> DEFINE given == IF vl_msg_api_set_handlers.is_autoendian THEN ntohl(r.index) ELSE r.index
             index == IF prog = "list" THEN ntohl(given) ELSE given
  <2>5. ReplyHandler(r, index)
    <3>1. Head(replies) = r
      BY <2>2
    <3> QED BY <2>3, <2>4, <3>1 DEF Handle
  <2>6. r.retval = 0 => index = Host(NewIndex)
    BY <2>2, Conversions
  <2> HIDE DEF index
  <2>7. /\ UNCHANGED sw_if_index_by_interface_name /\ retval' = r.retval /\ Idle'
        /\ ipip_tunnel_sw_if_index' =
             IF step = "tunnel" /\ r.retval = 0 THEN index ELSE ipip_tunnel_sw_if_index
    BY <1>1, <2>2, <2>3, <2>5 DEF ReplyHandler, set_reply_status, Idle
  <2>8. step # "tunnel" => ipip_tunnel_sw_if_index' = Host(NewIndex)
    BY <1>0, <1>5, <2>7 DEF Proceeding, TunnelSteps
  <2>9. r.retval = 0 => Configured(step)' /\ ipip_tunnel_sw_if_index' = Host(NewIndex)
    BY <1>1, <2>2, <2>6, <2>7, <2>8 DEF Configured
  <2>10. r.retval # 0 => Begun'
    BY <1>1, <2>2 DEF Begun, Configured
  <2>11. Asking'
    BY <2>7, <2>9, <2>10 DEF Asking
  <2>12. Known'
    BY <1>0, <2>7 DEF Known
  <2> QED BY <1>0, <1>1, <1>2, <1>3, <1>5, <2>7, <2>8, <2>11, <2>12
          DEF VppInv, Proceeding, TunnelSteps
<1> QED BY <1>0, <1>4, <1>5

\* W() ends.  A report in a dump means that the ping was answered, and so that every
\* detail was handled.
LEMMA WaitEndsInv ==
    ASSUME VppInv, WaitEnds PROVE VppInv'
<1>0. /\ VppType /\ Proceeding /\ exit = -1 /\ step \in {"dump"} \cup TunnelSteps /\ waiting
      /\ connected \/ (Idle /\ result_ready = 0)
  BY WaitingFacts DEF WaitEnds
<1>1. UNCHANGED <<prog, handlers, connected, requests, replies, result_ready, retval,
                  sw_if_index_by_interface_name, ipip_tunnel_sw_if_index, vppTunnels>>
  BY DEF WaitEnds, session, results
<1>2. Known' /\ (connected' => Registered')
  BY <1>0, <1>1 DEF Known, Proceeding, Registered, register_interface_handlers,
                    register_ipip_handlers
<1>3. CASE Return(1)
  <2>2. VppType'
    BY <1>0, <1>1, <1>3, ReturnType
  <2> QED BY <1>3, <2>2 DEF VppInv, Return
<1>4. CASE /\ result_ready = 1 /\ retval = 0
           /\ IF step = "unnumbered" THEN Return(0)
              ELSE step' = Following /\ waiting' = FALSE /\ UNCHANGED exit
  <2>0. connected
    BY <1>0, <1>4
  <2>1. CASE step = "dump"
    <3>1. Dumping
      BY <1>0, <2>0, <2>1 DEF Proceeding
    <3>2. Idle /\ Covered
      BY <1>4, <3>1 DEF Dumping, Idle
    <3>3. DOMAIN sw_if_index_by_interface_name = DOMAIN Interfaces
      <4>1. Len(replies) = 0
        BY <3>2 DEF Idle
      <4>2. \A n \in DOMAIN Interfaces : n \in DOMAIN sw_if_index_by_interface_name
        BY <3>2, <4>1 DEF Covered
      <4>3. DOMAIN sw_if_index_by_interface_name \subseteq DOMAIN Interfaces
        BY <3>2 DEF Covered
      <4> QED BY <4>2, <4>3
    <3>4. /\ step' = IF prog = "ipip" THEN "lookup" ELSE "print"
          /\ waiting' = FALSE /\ exit' = exit
      BY <1>4, <2>1 DEF Following
    <3>5. VppType'
      BY <1>0, <1>1, <3>4, StepType DEF VppType
    <3>6. Idle'
      BY <1>1, <3>2 DEF Idle
    <3>7. Proceeding'
      BY <1>0, <1>1, <1>2, <2>0, <3>3, <3>4, <3>6 DEF Proceeding, TunnelSteps
    <3> QED BY <3>5, <3>7 DEF VppInv
  <2>2. CASE step \in TunnelSteps
    <3>1. /\ Asking /\ prog = "ipip" /\ Bvi \in DOMAIN Interfaces
          /\ DOMAIN sw_if_index_by_interface_name = DOMAIN Interfaces
      BY <1>0, <2>2 DEF Proceeding
    <3>2. Idle /\ Configured(step) /\ ipip_tunnel_sw_if_index = Host(NewIndex)
      BY <1>4, <3>1 DEF Asking
    <3>3. Idle' /\ ipip_tunnel_sw_if_index' = Host(NewIndex)
      BY <1>1, <3>2 DEF Idle
    <3>4. CASE step = "unnumbered"
      <4>1. Return(0)
        BY <1>4, <3>4
      <4>2. step' = "exit" /\ exit' = 0 /\ waiting' = FALSE
        BY <4>1 DEF Return
      <4>3. VppType'
        BY <1>0, <1>1, <4>1, ReturnType
      <4>4. Configured("unnumbered")'
        BY <1>1, <3>2, <3>4 DEF Configured
      <4>5. Proceeding'
        BY <1>1, <1>2, <2>0, <3>1, <3>3, <4>2, <4>4 DEF Proceeding, TunnelSteps
      <4> QED BY <4>3, <4>5 DEF VppInv
    <3>5. CASE step # "unnumbered"
      <4>1. step' = Following /\ waiting' = FALSE /\ exit' = exit
        BY <1>4, <3>5
      <4>2. step' \in {"up", "table", "unnumbered"} /\ Before[step'] = step
        BY <2>2, <3>5, <4>1 DEF Following, TunnelSteps, Before
      <4>3. VppType'
        BY <1>0, <1>1, <4>1, <4>2, StepType DEF VppType, TunnelSteps
      <4>4. Begun'
        BY <1>1, <3>2, <4>2 DEF Begun, Configured, Before
      <4>5. Proceeding'
        BY <1>0, <1>1, <1>2, <2>0, <3>1, <3>3, <4>1, <4>2, <4>4 DEF Proceeding, TunnelSteps
      <4> QED BY <4>3, <4>5 DEF VppInv
    <3> QED BY <3>4, <3>5
  <2> QED BY <1>0, <2>1, <2>2
<1> QED BY <1>3, <1>4 DEF WaitEnds

\* VPP serves the dump, and then the ping.
LEMMA DumpServed ==
    ASSUME VppType, Dumping, VppServes PROVE Dumping'
<1>1. /\ requests # <<>> /\ requests' = Tail(requests)
      /\ UNCHANGED <<result_ready, sw_if_index_by_interface_name>>
  BY DEF VppServes, results
<1>2. CASE requests = dump_interfaces /\ replies = <<>> /\ result_ready = 0
           /\ DOMAIN sw_if_index_by_interface_name = {}
  <2>1. Head(requests) = Msg("sw_interface_dump") /\ requests' = << Msg("control_ping") >>
    BY <1>1, <1>2 DEF dump_interfaces
  <2>2. Msg("sw_interface_dump").kind = "sw_interface_dump"
    BY DEF Msg
  <2>3. replies' = SetToSeq(Details)
    <3>1. replies' = replies \o SetToSeq(Details)
      BY <2>1, <2>2 DEF VppServes
    <3> QED BY <1>2, <3>1, AllDetails
  <2>4. Covered'
    <3>1. ASSUME NEW n \in DOMAIN Interfaces
          PROVE  \E k \in 1..Len(replies') : replies'[k] \in Details /\ replies'[k].name = n
      <4>1. PICK d : d = [kind |-> "sw_interface_details", name |-> n,
                          index |-> htonl(Host(Interfaces[n]))]
        OBVIOUS
      <4>2. d \in Details /\ d.name = n
        BY <4>1 DEF Details
      <4> QED BY <2>3, <4>2, AllDetails
    <3> QED BY <1>1, <1>2, <3>1 DEF Covered, Details
  <2>5. replies' \in Seq(Details)
    BY <2>3, AllDetails
  <2> QED BY <1>1, <1>2, <2>1, <2>4, <2>5 DEF Dumping, Msg, Details
<1>3. CASE /\ requests = << Msg("control_ping") >> /\ result_ready = 0
           /\ replies \in Seq(Details) /\ Covered
  <2>1. Head(requests) = Msg("control_ping") /\ requests' = <<>>
    BY <1>1, <1>3
  <2>2. Msg("control_ping").kind = "control_ping"
    BY DEF Msg
  <2>3. replies' = Append(replies, Reply("control_ping_reply", 0))
    BY <2>1, <2>2 DEF VppServes, ReplyKind
  <2>4. Covered'
    <3>1. ASSUME NEW k \in 1..Len(replies)
          PROVE  k \in 1..Len(replies') /\ replies'[k] = replies[k]
      BY <1>3, <2>3
    <3> QED BY <1>1, <1>3, <3>1 DEF Covered, Details
  <2> QED BY <1>1, <1>3, <2>1, <2>3, <2>4 DEF Dumping, Reply, Details
<1> QED BY <1>1, <1>2, <1>3 DEF Dumping

\* Each call changes one field of the tunnel.
LEMMA AfterCalls ==
    /\ [After("tunnel") EXCEPT !.up = TRUE] = After("up")
    /\ [After("up") EXCEPT !.table = TRUE] = After("table")
    /\ [After("table") EXCEPT !.donor = Host(Interfaces[Bvi])] = After("unnumbered")
<1>1. PICK yes, no : yes = TRUE /\ no = FALSE
  OBVIOUS
<1>2. /\ After("tunnel") = [up |-> no, table |-> no, donor |-> Unset]
      /\ After("up") = [up |-> yes, table |-> no, donor |-> Unset]
      /\ After("table") = [up |-> yes, table |-> yes, donor |-> Unset]
      /\ After("unnumbered") = [up |-> yes, table |-> yes, donor |-> Host(Interfaces[Bvi])]
  BY <1>1 DEF After, NewTunnel
<1>3. /\ [After("tunnel") EXCEPT !.up = yes] = After("up")
      /\ [After("up") EXCEPT !.table = yes] = After("table")
      /\ [After("table") EXCEPT !.donor = Host(Interfaces[Bvi])] = After("unnumbered")
  BY <1>2
<1> QED BY <1>1, <1>3

\* VPP makes or configures the tunnel, or refuses.
LEMMA TunnelServed ==
    ASSUME VppType, Proceeding, step \in TunnelSteps, Asking, VppServes PROVE Asking'
<1>1. /\ requests # <<>> /\ requests' = Tail(requests)
      /\ UNCHANGED <<step, result_ready, sw_if_index_by_interface_name, ipip_tunnel_sw_if_index>>
  BY DEF VppServes, results
<1>2. requests = Requests /\ replies = <<>> /\ result_ready = 0 /\ Begun
  BY <1>1 DEF Asking, Idle
<1>3. /\ step # "tunnel" => ipip_tunnel_sw_if_index = Host(NewIndex) /\ Configured(Before[step])
      /\ sw_if_index_by_interface_name = [n \in DOMAIN Interfaces |-> Host(Interfaces[n])]
      /\ Bvi \in DOMAIN Interfaces
  BY <1>2 DEF Proceeding, Begun, TunnelSteps, Known
<1>4. PICK m : m = Requests[1]
  OBVIOUS
<1>5. Head(requests) = m /\ requests' = <<>>
  BY <1>1, <1>2, <1>4 DEF TunnelSteps, Requests, create_ipip_p2mp_tunnel,
       set_interface_up, set_interface_ip_table, set_interface_unnumbered
<1>6. m.kind = CASE step = "tunnel" -> "ipip_add_tunnel"
                 [] step = "up" -> "sw_interface_set_flags"
                 [] step = "table" -> "sw_interface_set_table"
                 [] step = "unnumbered" -> "sw_interface_set_unnumbered"
  BY <1>4 DEF TunnelSteps, Requests, create_ipip_p2mp_tunnel,
       set_interface_up, set_interface_ip_table, set_interface_unnumbered, Msg
<1>7. /\ step # "tunnel" => m.index = htonl(Host(NewIndex))
      /\ step = "unnumbered" => m.donor = htonl(Host(Interfaces[Bvi]))
  BY <1>3, <1>4 DEF TunnelSteps, Requests, create_ipip_p2mp_tunnel,
       set_interface_up, set_interface_ip_table, set_interface_unnumbered, Msg
<1>8. Requests' = Requests
  BY <1>1 DEF Requests, set_interface_up, set_interface_ip_table, set_interface_unnumbered
<1>9. \/ /\ vppTunnels' = Applied(m)
         /\ replies' = Append(replies, [Reply(ReplyKind(m), 0) EXCEPT
                                          !.index = htonl(Host(NewIndex))])
      \/ /\ replies' = Append(replies, Reply(ReplyKind(m), 1))
         /\ UNCHANGED vppTunnels
  BY <1>5, <1>6 DEF VppServes, TunnelSteps
<1>10. ReplyKind(Requests[1])' = ReplyKind(m)
  BY <1>4, <1>8 DEF ReplyKind
<1>11. CASE /\ vppTunnels' = Applied(m)
            /\ replies' = Append(replies, [Reply(ReplyKind(m), 0) EXCEPT
                                             !.index = htonl(Host(NewIndex))])
  <2> DEFINE r == [kind |-> ReplyKind(m), retval |-> 0, index |-> htonl(Host(NewIndex))]
  <2>1. replies' = <<r>>
    BY <1>2, <1>11 DEF Reply
  <2>2. Configured(step)'
    <3>1. CASE step = "tunnel"
      BY <1>1, <1>6, <1>11, <3>1 DEF Applied, Configured, After, NewTunnel
    <3>2. CASE step # "tunnel"
      <4>1. ntohl(m.index).value = NewIndex
        BY <1>7, <3>2, Conversions DEF Host
      <4>2. vppTunnels = [t \in {NewIndex} |-> After(Before[step])]
        BY <1>3, <3>2 DEF Configured
      <4>3. CASE step = "up"
        <5>1. vppTunnels' = [vppTunnels EXCEPT ![NewIndex].up = TRUE]
          BY <1>6, <1>11, <4>1, <4>3 DEF Applied
        <5>3. [After("tunnel") EXCEPT !.up = TRUE] = After("up")
          BY AfterCalls
        <5>4. vppTunnels[NewIndex] = After("tunnel")
          BY <4>2, <4>3 DEF Before
        <5>5. vppTunnels' = [vppTunnels EXCEPT ![NewIndex] = After("up")]
          BY <5>1, <5>3, <5>4
        <5> QED BY <1>1, <4>2, <4>3, <5>5 DEF Configured
      <4>4. CASE step = "table"
        <5>1. vppTunnels' = [vppTunnels EXCEPT ![NewIndex].table = TRUE]
          BY <1>6, <1>11, <4>1, <4>4 DEF Applied
        <5>3. [After("up") EXCEPT !.table = TRUE] = After("table")
          BY AfterCalls
        <5>4. vppTunnels[NewIndex] = After("up")
          BY <4>2, <4>4 DEF Before
        <5>5. vppTunnels' = [vppTunnels EXCEPT ![NewIndex] = After("table")]
          BY <5>1, <5>3, <5>4
        <5> QED BY <1>1, <4>2, <4>4, <5>5 DEF Configured
      <4>5. CASE step = "unnumbered"
        <5>1. ntohl(m.donor) = Host(Interfaces[Bvi])
          BY <1>7, <4>5, Conversions
        <5>2. vppTunnels' = [vppTunnels EXCEPT ![NewIndex].donor = Host(Interfaces[Bvi])]
          BY <1>6, <1>11, <4>1, <4>5, <5>1 DEF Applied
        <5>3. [After("table") EXCEPT !.donor = Host(Interfaces[Bvi])] = After("unnumbered")
          BY AfterCalls
        <5>4. vppTunnels[NewIndex] = After("table")
          BY <4>2, <4>5 DEF Before
        <5>5. vppTunnels' = [vppTunnels EXCEPT ![NewIndex] = After("unnumbered")]
          BY <5>2, <5>3, <5>4
        <5> QED BY <1>1, <4>2, <4>5, <5>5 DEF Configured
      <4> QED BY <3>2, <4>3, <4>4, <4>5 DEF TunnelSteps
    <3> QED BY <3>1, <3>2
  <2> QED BY <1>1, <1>2, <1>5, <1>10, <2>1, <2>2 DEF Asking, htonl, Host, Unset
<1>12. CASE /\ replies' = Append(replies, Reply(ReplyKind(m), 1))
            /\ UNCHANGED vppTunnels
  <2> DEFINE r == [kind |-> ReplyKind(m), retval |-> 1, index |-> Unset]
  <2>1. replies' = <<r>>
    BY <1>2, <1>12 DEF Reply
  <2>2. Begun'
    BY <1>1, <1>2, <1>12 DEF Begun, Configured
  <2> QED BY <1>1, <1>2, <1>5, <1>10, <2>1, <2>2 DEF Asking, htonl, Host, Unset
<1> QED BY <1>9, <1>11, <1>12

\* VPP serves a request, perhaps after the client has given up.
LEMMA ServesInv ==
    ASSUME VppInv, VppServes PROVE VppInv'
<1>1. UNCHANGED <<prog, handlers, connected, step, waiting, exit, result_ready, retval,
                  sw_if_index_by_interface_name, ipip_tunnel_sw_if_index>>
  BY DEF VppServes, session, results
<1>2. VppType'
  BY <1>1 DEF VppInv, VppType
<1>3. CASE exit = 1
  BY <1>1, <1>2, <1>3 DEF VppInv
<1>4. CASE exit # 1
  <2>1. VppType /\ Proceeding /\ requests # <<>>
    BY <1>4 DEF VppInv, VppServes
  <2>2. waiting /\ connected /\ step \in {"dump"} \cup TunnelSteps /\ exit = -1
    BY <2>1 DEF Proceeding, Idle, VppType
  <2>3. Known' /\ Registered'
    BY <1>1, <2>1, <2>2 DEF Known, Proceeding, Registered, register_interface_handlers,
                            register_ipip_handlers
  <2>4. CASE step = "dump"
    <3>1. Dumping'
      BY <2>1, <2>2, <2>4, DumpServed DEF Proceeding
    <3>2. Proceeding'
      BY <1>1, <2>1, <2>2, <2>3, <2>4, <3>1 DEF Proceeding, TunnelSteps
    <3> QED BY <1>2, <3>2 DEF VppInv
  <2>5. CASE step \in TunnelSteps
    <3>1. Asking'
      BY <2>1, <2>2, <2>5, TunnelServed DEF Proceeding
    <3>2. Proceeding'
      BY <1>1, <2>1, <2>2, <2>3, <2>5, <3>1 DEF Proceeding, TunnelSteps
    <3> QED BY <1>2, <3>2 DEF VppInv
  <2> QED BY <2>2, <2>4, <2>5
<1> QED BY <1>3, <1>4

\* A step that changes nothing of the client's.
LEMMA VppStutter == ASSUME VppInv, UNCHANGED vppVars PROVE VppInv'
<1> USE DEF vppVars
<1>1. VppType'
  BY DEF VppInv, VppType
<1>2. (exit = 1)' <=> exit = 1
  OBVIOUS
<1>3. ASSUME Proceeding PROVE Proceeding'
  <2>1. Requests' = Requests /\ (Begun' <=> Begun)
    BY DEF Begun, Configured, Requests, set_interface_up, set_interface_ip_table,
           set_interface_unnumbered
  <2>2. (Asking' <=> Asking) /\ (Dumping' <=> Dumping)
    BY <2>1 DEF Asking, Dumping, Covered, Configured, Idle, Details, ReplyKind
  <2>3. (Known' <=> Known) /\ (Registered' <=> Registered) /\ (Idle' <=> Idle)
        /\ (Configured("unnumbered")' <=> Configured("unnumbered"))
    BY DEF Known, Registered, register_interface_handlers, register_ipip_handlers, Idle, Configured
  <2> QED BY <1>3, <2>1, <2>2, <2>3 DEF Proceeding
<1> QED BY <1>1, <1>2, <1>3 DEF VppInv

\* No step of the client or of VPP breaks the invariant.
LEMMA VppNextInv == ASSUME VppInv, VppNext PROVE VppInv'
BY ConnectInv, SendInv, HandleInv, WaitEndsInv, LookInv, ServesInv DEF VppNext

\* The invariants of both parts hold of the run's specification.
LEMMA VppSpecInv == VppSpec => [](SaiInv /\ VppInv)
<1>1. VppSpecInit => SaiInv /\ VppInv
  BY SaiInitInv, VppInitInv DEF VppSpecInit
<1>2. ASSUME SaiInv, VppInv, [VppSpecNext]_vpp PROVE SaiInv' /\ VppInv'
  <2>1. CASE SaiNext /\ UNCHANGED vppVars
    BY <1>2, <2>1, SaiNextInv, VppStutter
  <2>2. CASE VppNext /\ UNCHANGED saiVars
    BY <1>2, <2>2, SaiNextInv, VppNextInv
  <2>3. CASE UNCHANGED vpp
    BY <1>2, <2>3, SaiNextInv, VppStutter DEF vpp
  <2> QED BY <1>2, <2>1, <2>2, <2>3 DEF VppSpecNext
<1> QED BY <1>1, <1>2, PTL DEF VppSpec

\* What the client owns is what the library stores: no call on an object that the
\* client created is answered "not found", and no object is left without an owner,
\* whatever calls of whatever tables the client makes.
THEOREM StoreAndClientAgree == VppSpec => []StoreMatchesClient
BY VppSpecInv, SaiInvStore, PTL

\* No program prints or looks up an interface table that lacks an interface or has
\* another number than VPP's, however the answers and the time-outs interleave.
THEOREM DumpsAreComplete == VppSpec => []DumpComplete
<1>1. VppInv => DumpComplete
  <2> SUFFICES ASSUME VppInv, step \in {"print", "lookup"} \cup TunnelSteps \/ exit = 0
               PROVE  sw_if_index_by_interface_name
                        = [n \in DOMAIN Interfaces |-> Host(Interfaces[n])]
    BY DEF DumpComplete
  <2>1. Proceeding
    BY DEF VppInv, VppType, TunnelSteps
  <2> QED BY <2>1 DEF Proceeding, Known
<1> QED BY <1>1, VppSpecInv, PTL

\* A tunnel client that returns 0 leaves its tunnel up, in table 0 and with the address
\* of bvi1000; and no request is built with the index of a tunnel VPP has not made.
THEOREM TunnelIsConfigured == VppSpec => []TunnelConfigured
<1>1. VppInv => TunnelConfigured
  <2> SUFFICES ASSUME VppInv PROVE TunnelConfigured
    OBVIOUS
  <2>1. ASSUME prog = "ipip", exit = 0
        PROVE  /\ ipip_tunnel_sw_if_index = Host(NewIndex)
               /\ vppTunnels[NewIndex] = [up |-> TRUE, table |-> TRUE,
                                          donor |-> Host(Interfaces[Bvi])]
    BY <2>1 DEF VppInv, Proceeding, Configured, After
  <2>2. ASSUME step \in {"up", "table", "unnumbered"}
        PROVE  \E i \in DOMAIN vppTunnels : ipip_tunnel_sw_if_index = Host(i)
    <3>1. Proceeding /\ step \in TunnelSteps
      BY <2>2 DEF VppInv, VppType, TunnelSteps
    <3>2. \E s \in TunnelSteps : Configured(s)
      BY <2>2, <3>1 DEF Proceeding, Asking, Begun, Before, TunnelSteps
    <3>3. NewIndex \in DOMAIN vppTunnels
      BY <3>2 DEF Configured
    <3> QED BY <2>2, <3>1, <3>3 DEF Proceeding
  <2> QED BY <2>1, <2>2 DEF TunnelConfigured
<1> QED BY <1>1, VppSpecInv, PTL
=============================================================================
