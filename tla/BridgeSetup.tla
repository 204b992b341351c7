---------------------------- MODULE BridgeSetup ----------------------------
(***************************************************************************)
(* The script br_setup, which creates the host bridge, attaches the uplink *)
(* to it, lets QEMU use it and tests the result.  Under "set -e" it ends   *)
(* at the first command that fails, and is run again, over whatever the    *)
(* earlier runs left; nothing keeps two of them from running at once.      *)
(*                                                                         *)
(* All scripts are about one bridge and one uplink.  NetworkManager, the   *)
(* kernel and DHCP are the network, which changes while it is looked at.   *)
(***************************************************************************)
EXTENDS Naturals, Sequences

CONSTANTS
    Scripts,    \* the terminals from which br_setup is run
    Gateways,   \* the addresses of gateways
    NoGateway,  \* a default route without "via"; an empty $gateway
    Networks,   \* bound: the states of the network
    Confs       \* bound: what bridge.conf holds before the first script

VARIABLES
    profiles,   \* how many connections of each name NetworkManager has
    conf,       \* /etc/qemu/bridge.conf
    network,    \* the bridge device and the default routes
    script,     \* each script: where it is, its options and its variables
    overlapped  \* were two scripts ever under way at once?

world == <<profiles, conf, network>>
vars == <<profiles, conf, network, script, overlapped>>

\* The con-names "br0" and "br0-eno1".
Names == {"bridge", "slave"}

\* "longer" is a line that has "allow br0" as its beginning; "glued" is what
\* becomes of an unterminated last line when something is appended.
Lines == {"allow", "longer", "other", "glued"}

\* terminated: the file is empty or ends with a newline.
Conf == [lines : Seq(Lines), terminated : BOOLEAN]

\* bridge: the device is there and a bridge; uplink, others: members of it;
\* routes: "ip route show default", in its order.
Network ==
    [bridge : BOOLEAN, uplink : BOOLEAN, others : BOOLEAN, carrier : BOOLEAN,
     oper : {"up", "down", "dormant", "lowerlayerdown", "unknown"},
     routes : Seq([dev : {"bridge", "other"}, via : Gateways \cup {NoGateway}])]

LinesOf(c, line) == {i \in DOMAIN c.lines : c.lines[i] = line}

AtMostOnce(c) == \A i, j \in LinesOf(c, "allow") : i = j

ASSUME NetworksAssumption == Networks \subseteq Network
ASSUME ConfsAssumption == \A c \in Confs : c \in Conf /\ AtMostOnce(c)
ASSUME NoGatewayAssumption == NoGateway \notin Gateways

Labels == {"idle", "show bridge", "add bridge", "modify", "show slave", "add slave",
           "conf", "grep", "append", "up", "end of setup", "is bridge", "operstate",
           "member", "route", "gateway", "ping", "report", "done", "failed"}

\* found: the outcome of the last connection_exists or grep; steady: the
\* network has not changed since the sanity test began.
Script == [pc : Labels, check : BOOLEAN, dry : BOOLEAN, skip : BOOLEAN,
           found : BOOLEAN, gateway : Gateways \cup {NoGateway}, steady : BOOLEAN]

Started(label, check, dry, skip) ==
    [pc |-> label, check |-> check, dry |-> dry, skip |-> skip,
     found |-> FALSE, gateway |-> NoGateway, steady |-> FALSE]

Busy(s) == script[s].pc \notin {"idle", "done", "failed"}

Init ==
    /\ profiles \in [Names -> {0, 1}]
    /\ conf \in Confs
    /\ network \in Networks
    /\ script = [s \in Scripts |-> Started("idle", FALSE, FALSE, FALSE)]
    /\ overlapped = FALSE

-----------------------------------------------------------------------------
\* A command that only looks, and decides how the script goes on.
Test(s, at, holds, then, else) ==
    /\ script[s].pc = at
    /\ script' = [script EXCEPT ![s].pc = IF holds THEN then ELSE else]
    /\ UNCHANGED <<world, overlapped>>

\* A command whose outcome the next one acts on.
Look(s, at, holds, then) ==
    /\ script[s].pc = at
    /\ script' = [script EXCEPT ![s].pc = then, ![s].found = holds]
    /\ UNCHANGED <<world, overlapped>>

\* main up to the first step: options, required commands, root, interface.
Begin(s) ==
    /\ ~Busy(s)
    /\ \E check, dry, skip \in BOOLEAN :
          script' = [script EXCEPT ![s] =
             Started(IF check THEN "end of setup" ELSE "show bridge", check, dry, skip)]
    /\ overlapped' = (overlapped \/ \E t \in Scripts \ {s} : Busy(t))
    /\ UNCHANGED world

\* set -e, die, Ctrl-C.
Fail(s) ==
    /\ Busy(s)
    /\ script' = [script EXCEPT ![s].pc = "failed"]
    /\ UNCHANGED <<world, overlapped>>

-----------------------------------------------------------------------------
(***************************************************************************)
(* The setup.                                                              *)
(***************************************************************************)

\* connection_exists
Show(s) ==
    \/ Look(s, "show bridge", profiles["bridge"] > 0, "add bridge")
    \/ Look(s, "show slave", profiles["slave"] > 0, "add slave")

\* Variant: the connection is added without asking what is there.
AddAnyway(s, name, at, then) ==
    /\ script[s].pc = at
    /\ profiles' = IF script[s].dry THEN profiles ELSE [profiles EXCEPT ![name] = @ + 1]
    /\ script' = [script EXCEPT ![s].pc = then]
    /\ UNCHANGED <<conf, network, overlapped>>

\* nmcli connection add: a second connection of the same name is no error.
Add(s, name, at, then) ==
    /\ script[s].pc = at
    /\ profiles' = IF script[s].found \/ script[s].dry THEN profiles
                   ELSE [profiles EXCEPT ![name] = @ + 1]
    /\ script' = [script EXCEPT ![s].pc = then]
    /\ UNCHANGED <<conf, network, overlapped>>

\* The bridge asks for its addresses; how it does is not modelled.
Modify(s) ==
    Test(s, "modify", script[s].dry \/ profiles["bridge"] > 0, "show slave", "failed")

\* mkdir and touch; an empty file is as good as none.
MakeConf(s) == Test(s, "conf", script[s].dry, "up", "grep")

\* Variant: grep without -x.
GrepPart(s) ==
    Look(s, "grep", LinesOf(conf, "allow") \cup LinesOf(conf, "longer") # {}, "append")

Grep(s) == Look(s, "grep", LinesOf(conf, "allow") # {}, "append")

\* Variant: the line is written without the name of the bridge.
AppendedBare(c) == [lines |-> Append(c.lines, "allow "), terminated |-> TRUE]

\* What is appended becomes a line of its own.
Ended(c) == c.terminated \/ c.lines = <<>>

\* printf >>, which goes on behind a last line that has no newline.
Appended(c) ==
    [lines |-> IF Ended(c) THEN Append(c.lines, "allow")
               ELSE [c.lines EXCEPT ![Len(c.lines)] = "glued"],
     terminated |-> TRUE]

AppendLine(s) ==
    /\ script[s].pc = "append"
    /\ conf' = IF script[s].found THEN conf ELSE Appended(conf)
    /\ script' = [script EXCEPT ![s].pc = "up"]
    /\ UNCHANGED <<profiles, network, overlapped>>

Unsteady(scripts) == [s \in Scripts |-> [scripts[s] EXCEPT !.steady = FALSE]]

\* nmcli connection up: there is a device now; whether the uplink and an
\* address come with it is up to NetworkManager and DHCP.
Up(s) ==
    /\ script[s].pc = "up"
    /\ LET then == [script EXCEPT ![s].pc = "end of setup"] IN
       IF script[s].dry THEN script' = then /\ UNCHANGED network
       ELSE /\ profiles["bridge"] > 0
            /\ \E n \in Networks : n.bridge /\ network' = n
            /\ script' = Unsteady(then)
    /\ UNCHANGED <<profiles, conf, overlapped>>

\* A dry run is over here; so is a check-only dry run, before any check.
EndSetup(s) ==
    /\ script[s].pc = "end of setup"
    /\ script' = [script EXCEPT ![s].pc = IF script[s].dry THEN "done" ELSE "is bridge",
                                ![s].steady = TRUE]
    /\ UNCHANGED <<world, overlapped>>

-----------------------------------------------------------------------------
(***************************************************************************)
(* sanity_test: one look after the other.                                  *)
(***************************************************************************)
IsBridge(s) == Test(s, "is bridge", network.bridge, "operstate", "failed")

\* Variant: a bridge that is down will do.
OperStateIgnored(s) == Test(s, "operstate", TRUE, "member", "failed")

\* An operstate that cannot be read is not "down".
OperState(s) ==
    Test(s, "operstate", ~network.bridge \/ network.oper # "down", "member", "failed")

Member(s) == Test(s, "member", network.bridge /\ network.uplink, "route", "failed")

OfBridge == {i \in DOMAIN network.routes : network.routes[i].dev = "bridge"}

\* Some default route, not necessarily the first.
DefaultRoute(s) ==
    Test(s, "route", OfBridge # {}, IF script[s].skip THEN "report" ELSE "gateway", "failed")

\* In the awk program of gateway_for_bridge: the value that $gateway has after
\* line i was set in line k.
SetIn(k, i) ==
    /\ k <= i /\ network.routes[k].via # NoGateway
    /\ \A j \in (k + 1)..i : network.routes[j].via = NoGateway

\* Variant: has_bridge is not asked for.
PrintedFirst(k, i) == SetIn(k, i)

Printed(k, i) == SetIn(k, i) /\ i \in OfBridge

GatewayForBridge(s) ==
    /\ script[s].pc = "gateway"
    /\ LET n == DOMAIN network.routes IN
       \/ \E i, k \in n :
             /\ Printed(k, i) /\ \A j, l \in n : Printed(l, j) => j >= i
             /\ script' = [script EXCEPT ![s].pc = "ping",
                                         ![s].gateway = network.routes[k].via]
       \/ /\ \A i, k \in n : ~Printed(k, i)
          /\ script' = [script EXCEPT ![s].pc = "failed"]
    /\ UNCHANGED <<world, overlapped>>

\* The gateway may answer, or Fail.
Ping(s) == Test(s, "ping", TRUE, "report", "failed")

\* The link and the routes are shown; ip fails without the device.
Report(s) == Test(s, "report", network.bridge, "done", "failed")

-----------------------------------------------------------------------------
NetworkChanges ==
    /\ \E n \in Networks \ {network} : network' = n
    /\ script' = Unsteady(script)
    /\ UNCHANGED <<profiles, conf, overlapped>>

Step(s) ==
    \/ Begin(s) \/ Fail(s) \/ Show(s)
    \/ Add(s, "bridge", "add bridge", "modify") \/ Add(s, "slave", "add slave", "conf")
    \/ Modify(s) \/ MakeConf(s) \/ Grep(s) \/ AppendLine(s) \/ Up(s) \/ EndSetup(s)
    \/ IsBridge(s) \/ OperState(s) \/ Member(s) \/ DefaultRoute(s)
    \/ GatewayForBridge(s) \/ Ping(s) \/ Report(s)

Next == NetworkChanges \/ \E s \in Scripts : Step(s)

Spec == Init /\ [][Next]_vars

-----------------------------------------------------------------------------
\* Every variable has its type.
TypeOK ==
    /\ profiles \in [Names -> Nat]
    /\ conf \in Conf
    /\ network \in Networks
    /\ script \in [Scripts -> Script]
    /\ overlapped \in BOOLEAN

\* However many scripts failed or were cut short half way, the next ones add
\* no connection and no line a second time, as long as no two run at once.
NoDuplicates ==
    ~overlapped => (\A name \in Names : profiles[name] <= 1) /\ AtMostOnce(conf)

\* A setup that passed its sanity test left everything kernelvm and QEMU
\* need, also when other scripts ran at the same time: both connections, and
\* the line that allows QEMU the bridge in bridge.conf (README: br_setup
\* "creates br0, attaches an uplink, updates /etc/qemu/bridge.conf").
PassedIsSetUp ==
    \A s \in Scripts : script[s].pc = "done" /\ ~script[s].check /\ ~script[s].dry =>
       /\ \A name \in Names : profiles[name] > 0
       /\ LinesOf(conf, "allow") # {}

\* validate_host_requirements and diagnose_bridge have nothing to say about
\* the bridge.
KernelvmAccepts ==
    /\ network.bridge
    /\ network.oper # "down"
    /\ ~(/\ ~network.uplink /\ ~network.others
         /\ ~network.carrier /\ network.oper \in {"dormant", "lowerlayerdown"})

\* A bridge that passed the sanity test, in a network that did not change
\* meanwhile, is one that kernelvm create accepts.
PassedIsAccepted ==
    \A s \in Scripts :
       script[s].pc = "done" /\ ~script[s].dry /\ script[s].steady => KernelvmAccepts

\* The gateway that is pinged is that of a default route of the bridge, if
\* all default routes of the bridge have one.
PingsBridge ==
    [][\A s \in Scripts :
          /\ script[s].pc = "gateway" /\ script'[s].pc = "ping"
          /\ \A i \in OfBridge : network.routes[i].via # NoGateway
          => \E i \in OfBridge : script'[s].gateway = network.routes[i].via]_vars
=============================================================================
