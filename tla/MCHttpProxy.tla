----------------------------- MODULE MCHttpProxy -----------------------------
(***************************************************************************)
(* The instances of HttpProxy that TLC checks.  Names are short: "x" is a  *)
(* name on the list, "X" the same in capitals, "y.X" a subdomain of it,    *)
(* "yx" a name that merely ends like it, "xy" one that the list has in     *)
(* capitals.                                                               *)
(***************************************************************************)
EXTENDS HttpProxy

Alphabet == {"x", "X", "y", "."}

AllHosts ==
  { <<"x">>, <<"X">>, <<"y">>, <<"y", "x">>, <<"x", "y">>, <<"y", ".", "X">> }

Request(kind, host, large) == [kind |-> kind, host |-> host, large |-> large]

\* Every host by either handler, and every request that is turned down early.
AllRequests ==
  {Request(kind, host, FALSE) : kind \in {"connect", "http"}, host \in AllHosts}
  \cup {Request(kind, <<"x">>, FALSE) : kind \in {"relative", "short", "garbage"}}
  \cup {Request("http", <<"x">>, TRUE)}

TunnelRequests == {Request("connect", <<"x">>, FALSE)}

Exact(name) == [wild |-> FALSE, name |-> name]
Wild(name)  == [wild |-> TRUE, name |-> name]

\* ["x", "*.x", "Xy"]
SomeNames == {Exact(<<"x">>), Wild(<<"x">>), Exact(<<"X", "y">>)}

=============================================================================
