--------------------------- MODULE MCBridgeSetup ---------------------------
(* BridgeSetup with the networks and files that make a difference to it.    *)
EXTENDS BridgeSetup, TLC

Line(dev, via) == [dev |-> dev, via |-> via]

Link(bridge, oper, uplink, routes) ==
    [bridge |-> bridge, oper |-> oper, uplink |-> uplink, others |-> FALSE,
     carrier |-> uplink, routes |-> routes]

CONSTANTS gw1, gw2

\* Before the setup; the bridge without its uplink, and down; in order, beside
\* another default route that comes first; and with a default route that has no
\* gateway after one that has.
MCNetworks ==
    {Link(FALSE, "unknown", FALSE, <<Line("other", gw1)>>),
     Link(TRUE, "lowerlayerdown", FALSE, <<Line("bridge", gw1)>>),
     Link(TRUE, "down", TRUE, <<Line("bridge", gw1)>>),
     Link(TRUE, "up", TRUE, <<Line("other", gw1), Line("bridge", gw2)>>),
     Link(TRUE, "up", TRUE, <<Line("other", gw1), Line("bridge", NoGateway)>>)}

\* None, or nothing that helps; complete; complete, without its last newline.
MCConfs ==
    {[lines |-> <<>>, terminated |-> TRUE],
     [lines |-> <<"longer">>, terminated |-> TRUE],
     [lines |-> <<"allow", "other">>, terminated |-> TRUE],
     [lines |-> <<"other", "allow">>, terminated |-> FALSE]}

\* As an editor may leave it.
UnterminatedConfs == {[lines |-> <<"other">>, terminated |-> FALSE]}

Symmetry == Permutations(Scripts)
=============================================================================
