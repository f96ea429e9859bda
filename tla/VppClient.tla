----------------------------- MODULE VppClient -----------------------------
(***************************************************************************)
(* The three clients of the VPP binary API under src/VPP/examples:         *)
(*   connect  vpp_client_connect.c   lists the interfaces                  *)
(*   list     vpp_list_interfaces.c  lists the interfaces                  *)
(*   ipip     vpp_ipip_tunnel.c      makes a tunnel and configures it      *)
(* A client registers handlers for the replies, sends requests on a socket *)
(* and waits (macro W) while the handlers of the messages that arrive run. *)
(* A handler reports with set_reply_status(); a wait that sees no report   *)
(* in time gives up.  VPP, the socket and the macros M, S and W are not in *)
(* the repository: VPP answers the requests in their order, may refuse any *)
(* of them, and may be too slow.                                           *)
(*                                                                         *)
(* A 32-bit number that crosses the socket is a record of its value and of *)
(* its byte order, so that a conversion too many or too few shows.         *)
(***************************************************************************)
EXTENDS Integers, SequencesExt

CONSTANTS
    Interfaces,  \* what VPP knows before the client comes: name -> sw_if_index
    Bvi,         \* the name "bvi1000"
    NewIndex     \* the index VPP gives to a tunnel

ASSUME VppAssumption ==
    /\ IsFiniteSet(DOMAIN Interfaces)
    /\ \A n \in DOMAIN Interfaces : Interfaces[n] \in Nat
    /\ NewIndex \in Nat \ { Interfaces[n] : n \in DOMAIN Interfaces }

VARIABLES
    prog,          \* the program that runs
    step,          \* what main() is doing: the call it is in, or "exit"
    waiting,       \* inside W()
    exit,          \* what main() returned, -1 before
    handlers,      \* the messages that have a handler
    connected,     \* vl_socket_client_connect() succeeded
    requests, replies,       \* the two directions of the socket
    result_ready, retval,    \* fields of vat_main
    sw_if_index_by_interface_name,
    ipip_tunnel_sw_if_index,
    vppTunnels        \* VPP: what was set on the tunnels, by index

vppVars == <<prog, step, waiting, exit, handlers, connected, requests, replies,
             result_ready, retval, sw_if_index_by_interface_name,
             ipip_tunnel_sw_if_index, vppTunnels>>
session == <<prog, handlers, connected>>
results == <<result_ready, retval, sw_if_index_by_interface_name,
             ipip_tunnel_sw_if_index>>

Host(i) == [value |-> i, order |-> "host"]
htonl(x) == [x EXCEPT !.order = IF x.order = "host" THEN "net" ELSE "host"]
ntohl(x) == htonl(x)
Unset == Host(-1)   \* ~0

TunnelSteps == {"tunnel", "up", "table", "unnumbered"}

\* is_autoendian of the handlers: vpp_list_interfaces.c leaves it 0 and converts
\* in its handlers, the others ask the library to convert.
vl_msg_api_set_handlers == [is_autoendian |-> prog # "list"]

\* The fixed message ids are registered at once, the ids of the plugins when VPP
\* has told their base.
register_base_handlers == {"get_first_msg_id_reply", "control_ping_reply"}
register_interface_handlers ==
    {"sw_interface_details"} \cup
    (IF prog # "ipip" THEN {} ELSE
       {"sw_interface_set_flags_reply", "sw_interface_set_table_reply",
        "sw_interface_set_unnumbered_reply"})
register_ipip_handlers ==
    IF prog = "ipip" THEN {"ipip_add_tunnel_reply"} ELSE {}

VppInit ==
    /\ prog \in {"connect", "list", "ipip"}
    /\ step = "connect" /\ waiting = FALSE /\ exit = -1
    /\ handlers = {} /\ connected = FALSE
    /\ requests = << >> /\ replies = << >>
    /\ result_ready = 0 /\ retval = 0
    /\ sw_if_index_by_interface_name = << >>
    /\ ipip_tunnel_sw_if_index = Unset
    /\ vppTunnels = << >>

-----------------------------------------------------------------------------
(* The client.                                                             *)

Return(code) == /\ step' = "exit" /\ exit' = code /\ waiting' = FALSE

connect_to_vpp ==
    /\ step = "connect"
    /\ connected' = TRUE
    /\ handlers' = register_base_handlers \cup register_interface_handlers
                     \cup register_ipip_handlers
    /\ step' = "dump"
    /\ UNCHANGED <<prog, exit, waiting, requests, replies, results, vppTunnels>>

\* vl_socket_client_connect() fails.  main() of vpp_client_connect.c does not
\* look at the result and goes on.
ConnectFails ==
    /\ step = "connect"
    /\ handlers' = register_base_handlers
    /\ IF prog = "connect" THEN step' = "dump" /\ UNCHANGED <<exit, waiting>>
                           ELSE Return(1)
    /\ UNCHANGED <<prog, connected, requests, replies, results, vppTunnels>>

Msg(kind) == [kind |-> kind, index |-> Unset, donor |-> Unset]

\* (A variant: the ping goes first.)
PingThenDump == << Msg("control_ping"), Msg("sw_interface_dump") >>
dump_interfaces == << Msg("sw_interface_dump"), Msg("control_ping") >>
create_ipip_p2mp_tunnel == << Msg("ipip_add_tunnel") >>
set_interface_up(index) ==
    << [Msg("sw_interface_set_flags") EXCEPT !.index = htonl(index)] >>
set_interface_ip_table(index) ==
    << [Msg("sw_interface_set_table") EXCEPT !.index = htonl(index)] >>
set_interface_unnumbered(borrower, donor) ==
    << [Msg("sw_interface_set_unnumbered") EXCEPT !.index = htonl(borrower),
                                                  !.donor = htonl(donor)] >>

\* The requests of a step: M() builds one, S() sends it.
Requests ==
    CASE step = "dump"       -> dump_interfaces
      [] step = "tunnel"     -> create_ipip_p2mp_tunnel
      [] step = "up"         -> set_interface_up(ipip_tunnel_sw_if_index)
      [] step = "table"      -> set_interface_ip_table(ipip_tunnel_sw_if_index)
      [] step = "unnumbered" ->
            set_interface_unnumbered(ipip_tunnel_sw_if_index,
                                     sw_if_index_by_interface_name[Bvi])

\* M() clears result_ready and S() sends; nothing leaves without a connection.
Send ==
    /\ step \in {"dump"} \cup TunnelSteps /\ ~waiting
    /\ result_ready' = 0
    /\ requests' = IF connected THEN requests \o Requests ELSE requests
    /\ waiting' = TRUE
    /\ UNCHANGED <<session, step, exit, replies, retval,
                   sw_if_index_by_interface_name, ipip_tunnel_sw_if_index, vppTunnels>>

\* (A variant: the report leaves the value of an earlier request.)
ReportReady(value) == result_ready' = 1 /\ UNCHANGED retval
set_reply_status(value) == /\ retval' = value
                           /\ result_ready' = 1

DetailsHandler(m, index) ==
    /\ sw_if_index_by_interface_name' =
          [n \in DOMAIN sw_if_index_by_interface_name \cup {m.name} |->
             IF n = m.name THEN index ELSE sw_if_index_by_interface_name[n]]
    /\ UNCHANGED <<result_ready, retval, ipip_tunnel_sw_if_index>>

ReplyHandler(m, index) ==
    /\ ipip_tunnel_sw_if_index' =
          IF m.kind = "ipip_add_tunnel_reply" /\ m.retval = 0
          THEN index ELSE ipip_tunnel_sw_if_index
    /\ set_reply_status(m.retval)
    /\ UNCHANGED sw_if_index_by_interface_name

\* A message arrives while the client waits: the library converts its numbers
\* when the handler was registered so, and calls the handler.
Handle ==
    /\ waiting /\ replies # << >>
    /\ LET m == Head(replies)
           given == IF vl_msg_api_set_handlers.is_autoendian THEN ntohl(m.index)
                                                             ELSE m.index
           index == IF prog = "list" THEN ntohl(given) ELSE given IN
       IF m.kind \notin handlers THEN UNCHANGED results
       ELSE IF m.kind = "sw_interface_details" THEN DetailsHandler(m, index)
       ELSE ReplyHandler(m, index)
    /\ replies' = Tail(replies)
    /\ UNCHANGED <<session, step, waiting, exit, requests, vppTunnels>>

\* main() after a step that returned 0.
Following ==
    IF step = "dump" THEN IF prog = "ipip" THEN "lookup" ELSE "print"
    ELSE IF step = "tunnel" THEN "up"
    ELSE IF step = "up" THEN "table" ELSE "unnumbered"

\* W() ends with the value reported, or with -99 when its time is over.  That may
\* be so although the reply has come: reading it can take longer than the time W()
\* has set itself before.
WaitEnds ==
    /\ waiting
    /\ \/ Return(1)
       \/ /\ result_ready = 1 /\ retval = 0
          /\ IF step = "unnumbered" THEN Return(0)
             ELSE step' = Following /\ waiting' = FALSE /\ UNCHANGED exit
    /\ UNCHANGED <<session, requests, replies, results, vppTunnels>>

\* hash_get_mem("bvi1000").
LookUp ==
    /\ step = "lookup"
    /\ IF Bvi \in DOMAIN sw_if_index_by_interface_name
       THEN step' = "tunnel" /\ UNCHANGED <<exit, waiting>> ELSE Return(1)
    /\ UNCHANGED <<session, requests, replies, results, vppTunnels>>

print_interfaces ==
    /\ step = "print"
    /\ Return(0)
    /\ UNCHANGED <<session, requests, replies, results, vppTunnels>>

-----------------------------------------------------------------------------
(* VPP: it takes the requests in order.                                    *)

Reply(kind, value) == [kind |-> kind, retval |-> value, index |-> Unset]

Details == { [kind |-> "sw_interface_details", name |-> n,
              index |-> htonl(Host(Interfaces[n]))] : n \in DOMAIN Interfaces }

NewTunnel == [up |-> FALSE, table |-> FALSE, donor |-> Unset]

\* What a request that is not refused does to the tunnels.
Applied(m) ==
    LET i == ntohl(m.index).value IN
    CASE m.kind = "ipip_add_tunnel"        -> [t \in {NewIndex} |-> NewTunnel]
      [] m.kind = "sw_interface_set_flags" -> [vppTunnels EXCEPT ![i].up = TRUE]
      [] m.kind = "sw_interface_set_table" -> [vppTunnels EXCEPT ![i].table = TRUE]
      [] m.kind = "sw_interface_set_unnumbered" ->
            [vppTunnels EXCEPT ![i].donor = ntohl(m.donor)]

ReplyKind(m) == CASE m.kind = "control_ping"           -> "control_ping_reply"
                  [] m.kind = "ipip_add_tunnel"        -> "ipip_add_tunnel_reply"
                  [] m.kind = "sw_interface_set_flags" -> "sw_interface_set_flags_reply"
                  [] m.kind = "sw_interface_set_table" -> "sw_interface_set_table_reply"
                  [] m.kind = "sw_interface_set_unnumbered" ->
                        "sw_interface_set_unnumbered_reply"

\* VPP refuses an index it does not know, in host order; it may refuse the rest.
VppServes ==
    /\ requests # << >>
    /\ LET m == Head(requests)
           known == m.kind = "ipip_add_tunnel"
                    \/ \E i \in DOMAIN vppTunnels : ntohl(m.index) = Host(i) IN
       \/ /\ m.kind = "sw_interface_dump"
          /\ replies' = replies \o SetToSeq(Details)
          /\ UNCHANGED vppTunnels
       \/ /\ m.kind = "control_ping"
          /\ replies' = Append(replies, Reply(ReplyKind(m), 0))
          /\ UNCHANGED vppTunnels
       \/ /\ m.kind \notin {"sw_interface_dump", "control_ping"}
          /\ known
          /\ vppTunnels' = Applied(m)
          /\ replies' = Append(replies, [Reply(ReplyKind(m), 0) EXCEPT
                                           !.index = htonl(Host(NewIndex))])
       \/ /\ m.kind \notin {"sw_interface_dump", "control_ping"}
          /\ replies' = Append(replies, Reply(ReplyKind(m), 1))
          /\ UNCHANGED vppTunnels
    /\ requests' = Tail(requests)
    /\ UNCHANGED <<session, step, waiting, exit, results>>

VppNext ==
    \/ connect_to_vpp \/ ConnectFails \/ Send \/ Handle \/ WaitEnds \/ LookUp \/ print_interfaces
    \/ VppServes

-----------------------------------------------------------------------------
\* The list that print_interfaces() prints, and that main() of the tunnel client
\* looks bvi1000 up in, is complete and has VPP's numbers: dump_interfaces() does
\* not return 0 before every detail was handled, and no number was converted
\* once too often or too rarely.
DumpComplete ==
    step \in {"print", "lookup"} \cup TunnelSteps \/ exit = 0 =>
        sw_if_index_by_interface_name = [n \in DOMAIN Interfaces |-> Host(Interfaces[n])]

\* When the tunnel client returns 0 the tunnel it made is up, in table 0 and
\* borrows the address of bvi1000; and no request is ever built with the index
\* of a tunnel that VPP has not reported (ipip_tunnel_sw_if_index is ~0 until the
\* reply handler has run).
TunnelConfigured ==
    /\ prog = "ipip" /\ exit = 0 =>
          /\ ipip_tunnel_sw_if_index = Host(NewIndex)
          /\ vppTunnels[NewIndex] = [up |-> TRUE, table |-> TRUE,
                                  donor |-> Host(Interfaces[Bvi])]
    /\ step \in {"up", "table", "unnumbered"} =>
          \E i \in DOMAIN vppTunnels : ipip_tunnel_sw_if_index = Host(i)
=============================================================================
