----------------------------- MODULE MCHubData -----------------------------
EXTENDS HubData

MCIdOf == ("d1" :> "t") @@ ("d2" :> "t") @@ ("d3" :> "u")

Service(instance, ip, v6, port, params) ==
  [instance |-> instance, service |-> "idprov", ip |-> ip, v6 |-> v6, host |-> "host",
   port |-> port, params |-> params]

MCServices ==
  {Service("i1", "ip1", FALSE, 1, [path |-> <<"p">>, query |-> <<"q", "v">>]),
   Service("i2", "ip2", TRUE, 2, [path |-> <<"r">>]),
   Service("i3", "ip3", FALSE, 0, <<>>),
   Service("", "ip3", FALSE, 3, <<>>),
   Service("i4", "unknown", FALSE, 4, <<>>),
   [Service("i5", "ip5", FALSE, 5, <<>>) EXCEPT !.service = "directory"],
   [Service("i6", "ip6", FALSE, 6, <<>>) EXCEPT !.service = ""]}
=============================================================================
