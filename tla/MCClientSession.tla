--------------------------- MODULE MCClientSession ---------------------------
(* ClientSession for TLC: the URI of OPC UA, that of the application and two *)
(* nodesets a server may load in either order, or leave out.                 *)
EXTENDS ClientSession

CONSTANTS ua, app, ns1, ns2

ServerArrays ==
  {<<ua, app>>, <<ua, app, ns1>>, <<ua, app, ns1, ns2>>, <<ua, app, ns2, ns1>>}
=============================================================================
