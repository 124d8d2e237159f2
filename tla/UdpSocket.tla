-------------------------------- MODULE UdpSocket --------------------------------
(***************************************************************************)
(* The LToUDP socket: network.c, which starts DHCP and waits for a lease;  *)
(* init_udp, which opens the socket and adds the multicast address to the  *)
(* interface; udp_rx, which calls it until it works, receives until that   *)
(* fails, and starts over; and udp_tx, which sends through the socket      *)
(* whenever there is one.                                                  *)
(*                                                                         *)
(* A step is one call into the network stack, which may overtake the       *)
(* thread or make it wait.  udp_rx and udp_tx have the same priority and   *)
(* no time slices, so udp_tx tests udp_sock and uses it in one step.       *)
(***************************************************************************)
EXTENDS Integers

CONSTANTS
  Fds,        \* file descriptors
  McastSlots  \* addresses that the interface has room for:
              \* CONFIG_NET_IF_MCAST_IPV4_ADDR_COUNT, which prj.conf sets to 1

ASSUME SocketAssumption ==
  /\ Fds \subseteq Nat
  /\ McastSlots \in Nat

NoSocket == -1

VARIABLES
  mainpc,         \* where main is in init_network
  listening,      \* dhcp_cb is registered
  iface,          \* there is a network interface, and init_network has found it
  dhcp,           \* what the DHCP client is doing
  network_ready,
  sockets,        \* for each descriptor how far its socket is
  maddrs,         \* slots of the interface that hold 239.192.76.84
  pc, sock,       \* udp_rx: where it is, and its local variable
  udp_sock,
  sentThrough     \* history: how far the socket was that udp_tx sent through last

network == <<mainpc, listening, iface, dhcp, network_ready>>
vars == <<network, sockets, maddrs, pc, sock, udp_sock, sentThrough>>

-------------------------------------------------------------------------------
(* network.c.                                                               *)
(* Mutant: starts DHCP before it listens to it.                             *)
init_network_late ==
  /\ \/ mainpc = "callback" /\ mainpc' = "dhcp" /\ iface' \in BOOLEAN /\ UNCHANGED <<listening, dhcp>>
     \/ /\ mainpc = "dhcp" /\ mainpc' = "interface"
        /\ dhcp' = (IF iface THEN "asking" ELSE "off") /\ UNCHANGED <<listening, iface>>
     \/ mainpc = "interface" /\ mainpc' = "done" /\ listening' = TRUE /\ UNCHANGED <<iface, dhcp>>
  /\ UNCHANGED <<network_ready, sockets, maddrs, pc, sock, udp_sock, sentThrough>>

(* net_if_get_default may find none.                                        *)
init_network ==
  /\ \/ mainpc = "callback" /\ mainpc' = "interface" /\ listening' = TRUE /\ UNCHANGED <<iface, dhcp>>
     \/ /\ mainpc = "interface" /\ iface' \in BOOLEAN
        /\ mainpc' = (IF iface' THEN "dhcp" ELSE "done") /\ UNCHANGED <<listening, dhcp>>
     \/ mainpc = "dhcp" /\ mainpc' = "done" /\ dhcp' = "asking" /\ UNCHANGED <<listening, iface>>
  /\ UNCHANGED <<network_ready, sockets, maddrs, pc, sock, udp_sock, sentThrough>>

(* The interface gets a lease: NET_EVENT_IPV4_DHCP_BOUND.  Later events     *)
(* change nothing, and handler_cb ignores the loss of the lease.            *)
handler_cb ==
  /\ dhcp = "asking"
  /\ dhcp' = "bound"
  /\ network_ready' = listening
  /\ UNCHANGED <<mainpc, listening, iface, sockets, maddrs, pc, sock, udp_sock, sentThrough>>

-------------------------------------------------------------------------------
(* init_udp.                                                                *)
InitUdpBegin ==
  /\ pc = "init" /\ mainpc = "done"
  /\ sock' = NoSocket
  /\ pc' = IF iface /\ network_ready THEN "socket" ELSE "check"
  /\ UNCHANGED <<network, sockets, maddrs, udp_sock, sentThrough>>

(* socket() needs a free descriptor, and bind() of the port its luck.       *)
FreeFds == {fd \in Fds : sockets[fd] = "closed"}

OpenSocket ==
  /\ pc = "socket"
  /\ \E fd \in FreeFds : sock' = fd /\ sockets' = [sockets EXCEPT ![fd] = "open"]
  /\ pc' = "bind"
  /\ UNCHANGED <<network, maddrs, udp_sock, sentThrough>>

SocketFails ==
  /\ pc = "socket"
  /\ pc' = "check"
  /\ UNCHANGED <<network, sockets, maddrs, sock, udp_sock, sentThrough>>

(* Mutant: tells everyone of the socket as soon as it is bound.             *)
BindSocket_early ==
  /\ pc = "bind"
  /\ sockets' = [sockets EXCEPT ![sock] = "bound"]
  /\ pc' = "maddr_add"
  /\ udp_sock' = sock
  /\ UNCHANGED <<network, maddrs, sock, sentThrough>>

BindSocket ==
  /\ pc = "bind"
  /\ sockets' = [sockets EXCEPT ![sock] = "bound"]
  /\ pc' = "maddr_add"
  /\ UNCHANGED <<network, maddrs, sock, udp_sock, sentThrough>>

BindFails ==
  /\ pc = "bind"
  /\ pc' = "cleanup"
  /\ UNCHANGED <<network, sockets, maddrs, sock, udp_sock, sentThrough>>

(* net_if_ipv4_maddr_add takes a slot, whether or not another one has the   *)
(* same address, and fails if all are used.                                 *)
AddAddress ==
  /\ pc = "maddr_add"
  /\ IF maddrs < McastSlots
     THEN maddrs' = maddrs + 1 /\ pc' = "join" /\ sockets' = [sockets EXCEPT ![sock] = "member"]
     ELSE pc' = "cleanup" /\ UNCHANGED <<maddrs, sockets>>
  /\ UNCHANGED <<network, sock, udp_sock, sentThrough>>

(* What net_ipv4_igmp_join returns is only logged.                          *)
JoinGroup ==
  /\ pc = "join"
  /\ udp_sock' = sock
  /\ pc' = "check"
  /\ UNCHANGED <<network, sockets, maddrs, sock, sentThrough>>

(* Mutant: returns without closing the socket.                              *)
Cleanup_leaks ==
  /\ pc = "cleanup"
  /\ pc' = "check"
  /\ UNCHANGED <<network, sockets, maddrs, sock, udp_sock, sentThrough>>

(* err_cleanup                                                              *)
Cleanup ==
  /\ pc = "cleanup"
  /\ sockets' = [sockets EXCEPT ![sock] = "closed"]
  /\ pc' = "check"
  /\ UNCHANGED <<network, maddrs, sock, udp_sock, sentThrough>>

-------------------------------------------------------------------------------
(* udp_rx.                                                                  *)
UdpRxCheck ==
  /\ pc = "check"
  /\ pc' = IF udp_sock = NoSocket THEN "sleep" ELSE "recv"
  /\ UNCHANGED <<network, sockets, maddrs, sock, udp_sock, sentThrough>>

(* A second has gone by.                                                    *)
UdpRxRetry ==
  /\ pc = "sleep"
  /\ pc' = "init"
  /\ UNCHANGED <<network, sockets, maddrs, sock, udp_sock, sentThrough>>

RecvFails ==
  /\ pc = "recv"
  /\ pc' = "close"
  /\ UNCHANGED <<network, sockets, maddrs, sock, udp_sock, sentThrough>>

UdpRxClose ==
  /\ pc = "close"
  /\ sockets' = [sockets EXCEPT ![udp_sock] = "closed"]
  /\ pc' = "forget"
  /\ UNCHANGED <<network, maddrs, sock, udp_sock, sentThrough>>

UdpRxForget ==
  /\ pc = "forget"
  /\ udp_sock' = NoSocket
  /\ pc' = "check"
  /\ UNCHANGED <<network, sockets, maddrs, sock, sentThrough>>

(* udp_tx has a packet to send.  sendto just fails on a closed socket.      *)
UdpTxSend ==
  /\ udp_sock # NoSocket
  /\ sentThrough' = sockets[udp_sock]
  /\ UNCHANGED <<network, sockets, maddrs, pc, sock, udp_sock>>

-------------------------------------------------------------------------------
Init ==
  /\ mainpc = "callback"
  /\ listening = FALSE
  /\ iface = FALSE
  /\ dhcp = "off"
  /\ network_ready = FALSE
  /\ sockets = [fd \in Fds |-> "closed"]
  /\ maddrs = 0
  /\ pc = "init"
  /\ sock = NoSocket
  /\ udp_sock = NoSocket
  /\ sentThrough = "none"

init_udp ==
  \/ InitUdpBegin \/ OpenSocket \/ SocketFails \/ BindSocket \/ BindFails
  \/ AddAddress \/ JoinGroup \/ Cleanup
udp_rx_runloop ==
  init_udp \/ UdpRxCheck \/ UdpRxRetry \/ RecvFails \/ UdpRxClose \/ UdpRxForget

Next == init_network \/ handler_cb \/ udp_rx_runloop \/ UdpTxSend
Spec == Init /\ [][Next]_vars

(* udp_rx gets on, but for recv, which may wait for ever; a socket can be   *)
(* opened and bound at last if the code tries again and again.              *)
FairSpec ==
  /\ Spec
  /\ WF_vars(init_network)
  /\ WF_vars(udp_rx_runloop /\ pc # "recv")
  /\ SF_vars(OpenSocket)
  /\ SF_vars(BindSocket)

-------------------------------------------------------------------------------
TypeOK ==
  /\ mainpc \in {"callback", "interface", "dhcp", "done"}
  /\ listening \in BOOLEAN /\ iface \in BOOLEAN /\ network_ready \in BOOLEAN
  /\ dhcp \in {"off", "asking", "bound"}
  /\ sockets \in [Fds -> {"closed", "open", "bound", "member"}]
  /\ maddrs \in 0 .. McastSlots
  /\ pc \in {"init", "socket", "bind", "maddr_add", "join", "cleanup", "check",
             "sleep", "recv", "close", "forget"}
  /\ sock \in Fds \cup {NoSocket}
  /\ udp_sock \in Fds \cup {NoSocket}
  /\ sentThrough \in {"none", "closed", "open", "bound", "member"}

(* No path through init_udp and udp_rx, and no sequence of failures, leaves *)
(* a socket behind: one that is open is in udp_sock, or on its way there or *)
(* to err_cleanup.                                                          *)
NoSocketLeak ==
  \A fd \in Fds : sockets[fd] # "closed" =>
    \/ fd = udp_sock /\ pc \in {"check", "recv", "close"}
    \/ fd = sock /\ udp_sock = NoSocket /\ pc \in {"bind", "maddr_add", "join", "cleanup"}

(* While udp_rx waits for datagrams, the socket that it waits on and that   *)
(* udp_tx sends through is open.                                            *)
ReceivesOnOpenSocket == pc = "recv" => udp_sock # NoSocket /\ sockets[udp_sock] = "member"

(* What udp_rx knows of its sockets is what the network stack has: all that *)
(* are open are in its hands, and the one it receives on is open.           *)
SocketsInHand == TypeOK /\ NoSocketLeak /\ ReceivesOnOpenSocket

(* udp_tx, which can run between any two steps of udp_rx, never sends       *)
(* through a socket that is not bound and does not have its address yet; at *)
(* worst through one that has just been closed, which fails.                *)
SendsOnlyWhenReady == sentThrough \in {"none", "closed", "member"}

(* The bridge comes up on its own: once the interface has a lease, however  *)
(* early or late that comes, and as long as there is room for the address,  *)
(* there will be a socket.                                                  *)
ComesUp == dhcp = "bound" /\ maddrs < McastSlots ~> udp_sock # NoSocket

(* "retry if we need to" (udp_rx_runloop): after recv has failed there will *)
(* be a socket again.                                                       *)
ReopensAfterError == dhcp = "bound" /\ udp_sock = NoSocket ~> udp_sock # NoSocket
===============================================================================
