-------------------------------- MODULE MCParser -------------------------------
(* Parser for TLC: every operation, with and without its optional arguments,    *)
(* ended by CR LF or LF alone, payloads with line ends of their own, beyond the *)
(* scratch buffer, and beyond the maximum; followed by one that notices         *)
(* leftovers.                                                                   *)
EXTENDS Parser

Op(kind, args, payload, eol) == [kind |-> kind, args |-> args, payload |-> payload, eol |-> eol]
Line1 == <<CR, LF>>
Line2 == <<LF>>

Plain == {Op("PING", <<>>, <<>>, Line1), Op("PONG", <<>>, <<>>, Line2), Op("OK", <<>>, <<>>, Line1),
          Op("CONNECT", << <<"{", "}">> >>, <<>>, Line1), Op("ERR", << <<"e", "f">> >>, <<>>, Line1)}
Client == Plain \union
  {Op("SUB", << <<"s", "t">>, <<"1">> >>, <<>>, Line1),
   Op("SUB", << <<"s">>, <<"q">>, <<"2">> >>, <<>>, Line2),
   Op("UNSUB", << <<"1">>, <<"2">> >>, <<>>, Line1),
   Op("PUB", << <<"s", "t">>, <<"0">> >>, <<>>, Line1),
   Op("PUB", << <<"s">>, <<"r">>, <<"2">> >>, <<LF, "x">>, Line1),
   Op("PUB", << <<"s">>, <<"1", "0">> >>, [n \in 1..10 |-> "x"], Line2),
   Op("PUB", << <<"s">>, <<"1", "1">> >>, [n \in 1..11 |-> "x"], Line1)}
Route == Plain \union
  {Op("INFO", << <<"{", "}">> >>, <<>>, Line1),
   Op("MSG", << <<"s", "t">>, <<"1">>, <<"2">> >>, <<CR, LF>>, Line1),
   Op("MSG", << <<"s">>, <<"1">>, <<"r">>, <<"4">> >>, <<"x", "y", "x", "y">>, Line1)}

ClientNext == {Op("SUB", << <<"u">>, <<"3">> >>, <<>>, Line2),
               Op("PUB", << <<"u">>, <<"1">> >>, <<"z">>, Line1)}
RouteNext == {Op("MSG", << <<"u">>, <<"3">>, <<"1">> >>, <<"z">>, Line1)}

MCInputs ==
  {[typ |-> "CLIENT", auth |-> FALSE, ops |-> <<o, p>>] : o \in Client, p \in ClientNext}
  \union {[typ |-> "ROUTER", auth |-> FALSE, ops |-> <<o, p>>] : o \in Route, p \in RouteNext}
  \union {[typ |-> "CLIENT", auth |-> TRUE, ops |-> <<o, p>>] : o \in Plain, p \in ClientNext}
================================================================================
