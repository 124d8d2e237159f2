---------------------------- MODULE UdpSocketProofs ----------------------------
(***************************************************************************)
(* Theorems about UdpSocket, for any descriptors and any number of slots   *)
(* for multicast addresses.                                                *)
(***************************************************************************)
EXTENDS UdpSocket, TLAPS

Opening == {"bind", "maddr_add", "join", "cleanup"}
Using == {"check", "recv", "close", "forget"}

(* How far the socket is that init_udp is opening.                          *)
SockProgress ==
  /\ pc \in Opening => sock \in Fds /\ udp_sock = NoSocket
  /\ pc = "bind" => sockets[sock] = "open"
  /\ pc = "maddr_add" => sockets[sock] = "bound"
  /\ pc = "join" => sockets[sock] = "member"

(* Where udp_rx can be while others can see its socket, and that this is    *)
(* open until it is closed.                                                 *)
UdpSockPlace ==
  /\ udp_sock # NoSocket => pc \in Using
  /\ pc \in {"recv", "close", "forget"} => udp_sock # NoSocket
  /\ udp_sock # NoSocket /\ pc # "forget" => sockets[udp_sock] = "member"
  /\ pc = "forget" => sockets[udp_sock] = "closed"

SocketInv ==
  /\ TypeOK
  /\ NoSocketLeak
  /\ SockProgress
  /\ UdpSockPlace
  /\ SendsOnlyWhenReady

(* NoSocket is the number of no socket.                                     *)
LEMMA NoSocketIsNone == NoSocket \notin Fds
BY SocketAssumption DEF SocketAssumption, NoSocket

(* The part of SocketInv that is about sockets and udp_rx.                  *)
SocketsOK ==
  /\ sockets \in [Fds -> {"closed", "open", "bound", "member"}]
  /\ maddrs \in 0 .. McastSlots
  /\ sock \in Fds \cup {NoSocket} /\ udp_sock \in Fds \cup {NoSocket}
  /\ pc \in {"init", "socket", "sleep"} \cup Opening \cup Using
  /\ sentThrough \in {"none", "closed", "open", "bound", "member"}
  /\ NoSocketLeak /\ SockProgress /\ UdpSockPlace /\ SendsOnlyWhenReady

(* And the rest of it.                                                      *)
NetworkOK ==
  /\ mainpc \in {"callback", "interface", "dhcp", "done"}
  /\ listening \in BOOLEAN /\ iface \in BOOLEAN /\ network_ready \in BOOLEAN
  /\ dhcp \in {"off", "asking", "bound"}

LEMMA SocketInvParts == SocketInv <=> SocketsOK /\ NetworkOK
BY DEF SocketInv, TypeOK, SocketsOK, NetworkOK, Opening, Using

LEMMA InitSocketInv == Init => SocketInv
<1> SUFFICES ASSUME Init PROVE SocketsOK /\ NetworkOK
  BY SocketInvParts
<1>1. NetworkOK
  BY DEF Init, NetworkOK
<1>2. maddrs \in 0 .. McastSlots
  BY SocketAssumption DEF Init, SocketAssumption
<1>3. SocketsOK
  BY <1>2 DEF Init, SocketsOK, NoSocketLeak, SockProgress, UdpSockPlace,
              SendsOnlyWhenReady, Opening, Using
<1> QED  BY <1>1, <1>3

(* network.c has nothing to do with sockets.                                *)
LEMMA NetworkKeepsSocketInv ==
  ASSUME SocketInv, init_network \/ handler_cb
  PROVE  SocketInv'
<1>1. SocketsOK /\ NetworkOK
  BY SocketInvParts
<1>2. UNCHANGED <<sockets, maddrs, pc, sock, udp_sock, sentThrough>>
  BY DEF init_network, handler_cb
<1>3. SocketsOK'
  BY <1>1, <1>2 DEF SocketsOK, NoSocketLeak, SockProgress, UdpSockPlace, SendsOnlyWhenReady
<1>4. NetworkOK'
  <2>1. CASE init_network
    <3>1. network_ready' = network_ready  BY <2>1 DEF init_network
    <3> QED  BY <1>1, <2>1, <3>1, Zenon DEF NetworkOK, init_network
  <2>2. CASE handler_cb  BY <1>1, <2>2, Zenon DEF NetworkOK, handler_cb
  <2> QED  BY <2>1, <2>2
<1>5. SocketInv' <=> SocketsOK' /\ NetworkOK'
  BY SocketInvParts, PTL
<1> QED  BY <1>3, <1>4, <1>5

LEMMA InitUdpKeepsSocketInv ==
  ASSUME SocketInv, init_udp
  PROVE  SocketInv'
<1> USE NoSocketIsNone
        DEF SocketInv, TypeOK, NoSocketLeak, SockProgress, UdpSockPlace,
            SendsOnlyWhenReady, Opening, Using, network
<1>1. CASE InitUdpBegin  BY <1>1 DEF InitUdpBegin
<1>2. CASE OpenSocket
  <2>1. PICK fd \in FreeFds : sock' = fd /\ sockets' = [sockets EXCEPT ![fd] = "open"]
    BY <1>2 DEF OpenSocket
  <2>2. fd \in Fds  BY <2>1 DEF FreeFds
  <2> QED  BY <1>2, <2>1, <2>2 DEF OpenSocket
<1>3. CASE SocketFails   BY <1>3 DEF SocketFails
<1>4. CASE BindSocket    BY <1>4 DEF BindSocket
<1>5. CASE BindFails     BY <1>5 DEF BindFails
<1>6. CASE AddAddress    BY <1>6, SocketAssumption DEF AddAddress, SocketAssumption
<1>7. CASE JoinGroup     BY <1>7 DEF JoinGroup
<1>8. CASE Cleanup       BY <1>8 DEF Cleanup
<1> QED  BY <1>1, <1>2, <1>3, <1>4, <1>5, <1>6, <1>7, <1>8 DEF init_udp

LEMMA UdpRxKeepsSocketInv ==
  ASSUME SocketInv, UdpRxCheck \/ UdpRxRetry \/ RecvFails \/ UdpRxClose \/ UdpRxForget
  PROVE  SocketInv'
<1> USE NoSocketIsNone
        DEF SocketInv, TypeOK, NoSocketLeak, SockProgress, UdpSockPlace,
            SendsOnlyWhenReady, Opening, Using, network
<1>1. CASE UdpRxCheck   BY <1>1 DEF UdpRxCheck
<1>2. CASE UdpRxRetry   BY <1>2 DEF UdpRxRetry
<1>3. CASE RecvFails    BY <1>3 DEF RecvFails
<1>4. CASE UdpRxClose   BY <1>4 DEF UdpRxClose
<1>5. CASE UdpRxForget  BY <1>5 DEF UdpRxForget
<1> QED  BY <1>1, <1>2, <1>3, <1>4, <1>5

LEMMA UdpTxKeepsSocketInv ==
  ASSUME SocketInv, UdpTxSend
  PROVE  SocketInv'
BY NoSocketIsNone
DEF SocketInv, TypeOK, NoSocketLeak, SockProgress, UdpSockPlace,
    SendsOnlyWhenReady, Opening, Using, UdpTxSend, network

LEMMA NextKeepsSocketInv == SocketInv /\ [Next]_vars => SocketInv'
<1> SUFFICES ASSUME SocketInv, [Next]_vars PROVE SocketInv'
  OBVIOUS
<1>1. CASE init_network \/ handler_cb  BY <1>1, NetworkKeepsSocketInv
<1>2. CASE init_udp  BY <1>2, InitUdpKeepsSocketInv
<1>3. CASE UdpRxCheck \/ UdpRxRetry \/ RecvFails \/ UdpRxClose \/ UdpRxForget
  BY <1>3, UdpRxKeepsSocketInv
<1>4. CASE UdpTxSend  BY <1>4, UdpTxKeepsSocketInv
<1>5. CASE UNCHANGED vars
  BY <1>5 DEF vars, network, SocketInv, TypeOK, NoSocketLeak, SockProgress,
              UdpSockPlace, SendsOnlyWhenReady, Opening, Using
<1> QED  BY <1>1, <1>2, <1>3, <1>4, <1>5 DEF Next, udp_rx_runloop

LEMMA SpecSocketInv == Spec => []SocketInv
BY InitSocketInv, NextKeepsSocketInv, PTL DEF Spec

(* init_udp and udp_rx leak no socket, whatever fails and however often,    *)
(* and udp_rx receives on open sockets only.                                *)
THEOREM SocketsAreInHand == Spec => []SocketsInHand
<1>1. SocketInv => SocketsInHand
  BY NoSocketIsNone
  DEF SocketInv, SocketsInHand, ReceivesOnOpenSocket, UdpSockPlace
<1> QED  BY <1>1, SpecSocketInv, PTL

(* udp_tx sends through no socket that is open but not ready.               *)
THEOREM OnlyReadySends == Spec => []SendsOnlyWhenReady
<1>1. SocketInv => SendsOnlyWhenReady
  BY DEF SocketInv
<1> QED  BY <1>1, SpecSocketInv, PTL
===============================================================================
