-------------------------------- MODULE MCPackets --------------------------------
(* Packets with short names: "AP" for "AirTalkAP" and "set" for "airtalk    *)
(* setap", and frames that miss what is looked for in one respect each.     *)
EXTENDS Packets

AP == <<65, 80>>
Set == <<115, 101, 116>>

Tuple(what) ==
  [network |-> 258, node |-> 3, socket |-> 4, enumerator |-> 5,
   object |-> <<61>>, type |-> what, zone |-> <<42>>]
TypeNames == {AP, <<65>>, <<65, 112>>, AP \o <<0>>, AP \o <<0, 1>>, AP \o <<1>>, <<>>}

Plain == [src |-> 9, high |-> 0, routing |-> <<0, 0, 0, 0, 0, 0>>, srcNode |-> 9,
          srcSocket |-> 254, raw |-> FALSE, flags |-> 0, atp |-> <<0, 0, 77, 0, 0, 0, 0>>,
          id |-> 77, tuples |-> <<>>, payload |-> <<>>]
Nbp(type, node, function, tuples) ==
  [dst |-> node, type |-> type, node |-> node, socket |-> 2, ddpType |-> 2,
   function |-> function] @@ [Plain EXCEPT !.tuples = tuples]
Atp(type, node, function, socket, payload) ==
  [dst |-> node, type |-> type, node |-> node, socket |-> socket, ddpType |-> 3,
   function |-> function] @@ [Plain EXCEPT !.payload = payload]
Other(type, ddpType, payload) == [Atp(type, 255, 1, 4, payload) EXCEPT !.ddpType = ddpType]

(* Fields that nobody looks at, with all their bits set.                    *)
Routed(f) == [f EXCEPT !.high = 63, !.routing = <<255, 254, 1, 2, 3, 4>>, !.srcNode = 255,
                       !.srcSocket = 1, !.flags = 63, !.atp = <<255, 1, 2, 3, 4, 5, 255>>]

(* NBP and ATP in name only, with bytes that ask for too much or too little. *)
Raw(f, payload) == [f EXCEPT !.raw = TRUE, !.payload = payload]
RawBytes == {<<>>, <<33>>, <<47, 1, 1, 2, 3, 4, 5, 255>>, <<64, 255, 3, 115>>}

(* Control frames for every node, which take feed through all of the table. *)
Control(dst, type) == [Other(type, 0, <<>>) EXCEPT !.dst = dst]

Details == <<1, 80, 0>>  \* an SSID and an empty password

(* Requests short of a byte or two of the name, which their FCS begins with. *)
ShortRequests ==
  {[Atp(1, 255, 1, 4, <<3, 115, 101>>) EXCEPT !.atp[3] = 125],
   [Atp(1, 255, 1, 4, <<119, 115>>) EXCEPT !.atp[3] = 56]}

SomeFrames ==
  {Control(dst, 129) : dst \in 0 .. 255} \cup {Control(1, type) : type \in {130, 132, 133}}
  \cup {Nbp(type, 255, 2, <<Tuple(what)>>) : type \in {1, 2}, what \in TypeNames}
  \cup {Nbp(type, node, function, <<Tuple(AP), Tuple(<<65>>)>>) :
          type \in {1, 2}, node \in {1, 255}, function \in {1, 2, 3}}
  \cup {Nbp(type, 255, 2, <<>>) : type \in {1, 2}}
  \cup {[Nbp(2, 255, 2, <<Tuple(AP)>>) EXCEPT !.dst = 1]}
  \cup {Atp(type, node, function, socket, <<3>> \o Set \o Details) :
          type \in {1, 2}, node \in {1, 255}, function \in {1, 2}, socket \in {4, 5}}
  \cup {Atp(1, 255, 1, 4, payload) : payload \in {<<>>, <<3>> \o Set, <<2, 115, 101>>}}
  \cup ShortRequests
  \cup {Other(1, 4, <<1, 2, 3>>), Other(2, 4, <<>>)}
  \cup {Other(type, 0, payload) : type \in {0, 3, 127}, payload \in {<<>>, <<7>>, <<2, 1>>}}
  \cup {Routed(f) : f \in {Nbp(2, 255, 2, <<Tuple(AP)>>), Atp(2, 255, 1, 4, <<3>> \o Set),
                           Atp(1, 255, 2, 4, <<3>> \o Set), Other(5, 0, <<>>), Other(130, 0, <<>>)}}
  \cup {Raw(f, payload) : f \in {Nbp(1, 255, 2, <<>>), Atp(2, 255, 1, 4, <<>>)}, payload \in RawBytes}
===============================================================================
