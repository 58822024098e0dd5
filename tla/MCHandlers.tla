------------------------------ MODULE MCHandlers ------------------------------
(***************************************************************************)
(* Instances of Handlers for TLC: a vault with five paths, a token for     *)
(* some of them that may write, and one for all of them that may not and   *)
(* is bound to a subnet.                                                   *)
(***************************************************************************)
EXTENDS Handlers, TLC

A == <<"a">>
AB == <<"a", "b">>

ThePaths == {<<A>>, <<AB>>, <<A, <<>>>>, <<A, A>>, <<A, A, AB>>}
TheAsked == ThePaths \cup {Root, <<A, A, <<>>, <<>>>>}

ThePatterns ==
  [t \in {"writer", "reader"} |->
     IF t = "writer"
     THEN {[kind |-> "glob", path |-> <<A, <<>>>>],
           [kind |-> "exact", path |-> <<AB>>]}
     ELSE {}]

Inside == <<1, 0>>
Proxy == <<0, 0>>
Outside == <<0, 1>>
TheProxies == {Proxy}
TheSubnets ==
  [t \in {"writer", "reader"} |->
     IF t = "writer" THEN {} ELSE {[address |-> <<1, 1>>, length |-> 1]}]

\* The requests from inside and outside that a listed proxy forwards, with and
\* without a second one in front of it, and those whose client wrote a header or
\* that a careless proxy forwards.
Arrival(client, sent, way, via, proxy) ==
  [client |-> client, sent |-> sent, way |-> way, via |-> via, proxy |-> proxy]
TheArrivals ==
  {Arrival(Inside, NoHeader, "direct", <<>>, Proxy),
   Arrival(Outside, <<Inside>>, "direct", <<>>, Proxy),
   Arrival(Inside, <<Outside>>, "overwritten", <<Outside>>, Proxy),
   Arrival(Outside, <<Inside>>, "overwritten", <<Inside>>, Proxy),
   Arrival(Outside, NoHeader, "appended", <<Inside>>, Proxy),
   Arrival(Outside, <<Inside>>, "appended", <<>>, Proxy),
   Arrival(Inside, <<Garbled>>, "appended", <<>>, Proxy),
   Arrival(Inside, NoHeader, "dropped", <<>>, Proxy),
   Arrival(Outside, NoHeader, "overwritten", <<>>, Inside)}
===============================================================================
