------------------------- MODULE BridgeSetupProofs -------------------------
(***************************************************************************)
(* What br_setup leaves behind, for any number of scripts, any network and *)
(* any bridge.conf that does not allow the bridge twice already.           *)
(***************************************************************************)
EXTENDS BridgeSetup, SequenceTheorems, TLAPS

Adds(s) ==
    \/ Add(s, "bridge", "add bridge", "modify")
    \/ Add(s, "slave", "add slave", "conf")

\* What an appended line makes of bridge.conf, whose last line has an end.
LEMMA AppendedToEnded ==
  ASSUME NEW c \in Conf, Ended(c)
  PROVE  /\ Appended(c) \in Conf
         /\ LinesOf(Appended(c), "allow") # {}
         /\ LinesOf(c, "allow") = {} => AtMostOnce(Appended(c))
<1> DEFINE l == c.lines
<1>0. l \in Seq(Lines)
  BY DEF Conf
<1>1. Appended(c) = [lines |-> Append(l, "allow"), terminated |-> TRUE]
  BY DEF Appended
<1>2. /\ Append(l, "allow") \in Seq(Lines)
      /\ DOMAIN Append(l, "allow") = 1..(Len(l) + 1)
      /\ Append(l, "allow")[Len(l) + 1] = "allow"
      /\ \A i \in 1..Len(l) : Append(l, "allow")[i] = l[i]
      /\ Len(l) \in Nat
  BY <1>0 DEF Lines
<1>3. LinesOf(c, "allow") = {} => \A i \in 1..Len(l) : l[i] # "allow"
  BY <1>0 DEF LinesOf
<1> QED
  BY <1>1, <1>2, <1>3 DEF Conf, LinesOf, AtMostOnce

\* And of any other.
LEMMA AppendedConf ==
  ASSUME NEW c \in Conf
  PROVE  /\ Appended(c) \in Conf
         /\ Appended(c).terminated = TRUE
         /\ LinesOf(c, "allow") = {} => AtMostOnce(Appended(c))
<1> DEFINE l == c.lines
<1>0. l \in Seq(Lines)
  BY DEF Conf
<1>1. CASE Ended(c)
  BY <1>1, AppendedToEnded DEF Appended
<1>2. CASE ~Ended(c)
  <2> DEFINE m == [l EXCEPT ![Len(l)] = "glued"]
  <2>1. Appended(c) = [lines |-> m, terminated |-> TRUE]
    BY <1>2 DEF Appended
  <2>2. Len(l) \in Nat \ {0}
    BY <1>0, <1>2, EmptySeq DEF Ended
  <2>3. m \in Seq(Lines) /\ DOMAIN m = DOMAIN l /\ m[Len(l)] = "glued" /\ Len(l) \in DOMAIN l
    BY <1>0, <2>2, ExceptSeq DEF Lines
  <2>4. \A i \in DOMAIN m : m[i] = "allow" => l[i] = "allow"
    BY <1>0, <2>3
  <2> QED
    BY <2>1, <2>3, <2>4 DEF Conf, LinesOf, AtMostOnce
<1> QED
  BY <1>1, <1>2

-----------------------------------------------------------------------------
(***************************************************************************)
(* Types.                                                                  *)
(***************************************************************************)
LEMMA ScriptTypes ==
  ASSUME NEW f \in [Scripts -> Script], NEW s \in Scripts, NEW label \in Labels,
         NEW b \in BOOLEAN, NEW g \in Gateways \cup {NoGateway}
  PROVE  /\ [f EXCEPT ![s].pc = label] \in [Scripts -> Script]
         /\ [f EXCEPT ![s].pc = label, ![s].found = b] \in [Scripts -> Script]
         /\ [f EXCEPT ![s].pc = label, ![s].steady = b] \in [Scripts -> Script]
         /\ [f EXCEPT ![s].pc = label, ![s].gateway = g] \in [Scripts -> Script]
         /\ Unsteady(f) \in [Scripts -> Script]
<1>1. /\ [f EXCEPT ![s].pc = label] \in [Scripts -> Script]
      /\ [f EXCEPT ![s].pc = label, ![s].found = b] \in [Scripts -> Script]
  BY DEF Script
<1>2. /\ [f EXCEPT ![s].pc = label, ![s].steady = b] \in [Scripts -> Script]
      /\ [f EXCEPT ![s].pc = label, ![s].gateway = g] \in [Scripts -> Script]
  BY DEF Script
<1>3. Unsteady(f) \in [Scripts -> Script]
  BY DEF Script, Unsteady
<1> QED
  BY <1>1, <1>2, <1>3

LEMMA StartedTypes ==
  ASSUME NEW label \in Labels, NEW check \in BOOLEAN, NEW dry \in BOOLEAN, NEW skip \in BOOLEAN
  PROVE  Started(label, check, dry, skip) \in Script
  BY DEF Started, Script

LEMMA AllLabels ==
  /\ {"idle", "show bridge", "add bridge", "modify", "show slave", "add slave", "conf",
      "grep", "append", "up", "end of setup", "is bridge"} \subseteq Labels
  /\ {"operstate", "member", "route", "gateway", "ping", "report", "done", "failed"} \subseteq Labels
  BY DEF Labels

LEMMA InitTypes == Init => TypeOK
<1> SUFFICES ASSUME Init PROVE TypeOK
  OBVIOUS
<1>1. script \in [Scripts -> Script]
  BY StartedTypes, AllLabels DEF Init
<1>2. profiles \in [Names -> Nat] /\ conf \in Conf
  BY ConfsAssumption DEF Init
<1> QED
  BY <1>1, <1>2 DEF Init, TypeOK

LEMMA NextTypes == TypeOK /\ [Next]_vars => TypeOK'
<1> SUFFICES ASSUME TypeOK, [Next]_vars PROVE TypeOK'
  OBVIOUS
<1> USE DEF TypeOK
<1>1. CASE UNCHANGED vars
  BY <1>1 DEF vars
<1>2. CASE NetworkChanges
  <2>1. script' \in [Scripts -> Script]
    BY <1>2 DEF NetworkChanges, Unsteady, Script
  <2> QED
    BY <1>2, <2>1 DEF NetworkChanges
<1>3. ASSUME NEW s \in Scripts, Step(s)
      PROVE  TypeOK'
  <2>1. script' \in [Scripts -> Script]
    <3>a. \A label \in Labels :
             /\ [script EXCEPT ![s].pc = label] \in [Scripts -> Script]
             /\ \A b \in BOOLEAN :
                   /\ [script EXCEPT ![s].pc = label, ![s].found = b] \in [Scripts -> Script]
                   /\ [script EXCEPT ![s].pc = label, ![s].steady = b] \in [Scripts -> Script]
             /\ \A g \in Gateways \cup {NoGateway} :
                   [script EXCEPT ![s].pc = label, ![s].gateway = g] \in [Scripts -> Script]
      BY ScriptTypes
    <3>1. CASE Begin(s)
      <4>1. PICK check \in BOOLEAN, dry \in BOOLEAN, skip \in BOOLEAN :
               script' = [script EXCEPT ![s] =
                  Started(IF check THEN "end of setup" ELSE "show bridge", check, dry, skip)]
        BY <3>1 DEF Begin
      <4>2. Started(IF check THEN "end of setup" ELSE "show bridge", check, dry, skip) \in Script
        BY StartedTypes, AllLabels
      <4> QED
        BY <4>1, <4>2
    <3>2. CASE Fail(s) \/ Adds(s) \/ AppendLine(s)
      <4>1. \E label \in Labels : script' = [script EXCEPT ![s].pc = label]
        BY <3>2, AllLabels DEF Fail, Adds, Add, AppendLine
      <4> QED
        BY <3>a, <4>1
    <3>3. CASE Show(s) \/ Grep(s)
      <4>1. ASSUME NEW at, NEW holds \in BOOLEAN, NEW then \in Labels, Look(s, at, holds, then)
            PROVE  script' \in [Scripts -> Script]
        <5>1. [script EXCEPT ![s].pc = then, ![s].found = holds] \in [Scripts -> Script]
          BY ScriptTypes
        <5> QED
          BY <4>1, <5>1, Zenon DEF Look
      <4>a. \A name \in Names : (profiles[name] > 0) \in BOOLEAN
        <5>1. \A n \in Nat : (n > 0) \in BOOLEAN
          OBVIOUS
        <5> QED
          BY <5>1, Zenon
      <4>b. /\ "add bridge" \in Labels /\ "add slave" \in Labels
            /\ "bridge" \in Names /\ "slave" \in Names
        BY AllLabels DEF Names
      <4>2. CASE Look(s, "show bridge", profiles["bridge"] > 0, "add bridge")
        BY <4>1, <4>2, <4>a, <4>b, Zenon
      <4>3. CASE Look(s, "show slave", profiles["slave"] > 0, "add slave")
        BY <4>1, <4>3, <4>a, <4>b, Zenon
      <4>4. CASE Grep(s)
        BY <4>1, <4>4, AllLabels DEF Grep
      <4> QED
        BY <3>3, <4>2, <4>3, <4>4 DEF Show
    <3>4. CASE EndSetup(s)
      BY <3>4, <3>a, AllLabels DEF EndSetup
    <3>5. CASE Up(s)
      <4>1. [script EXCEPT ![s].pc = "end of setup"] \in [Scripts -> Script]
        BY <3>a, AllLabels
      <4>2. Unsteady([script EXCEPT ![s].pc = "end of setup"]) \in [Scripts -> Script]
        BY <4>1, ScriptTypes, AllLabels
      <4> QED
        BY <3>5, <4>1, <4>2 DEF Up
    <3>7. CASE \/ Modify(s) \/ MakeConf(s) \/ IsBridge(s) \/ OperState(s) \/ Member(s)
               \/ DefaultRoute(s) \/ Ping(s) \/ Report(s)
      <4>1. \E label \in Labels : script' = [script EXCEPT ![s].pc = label]
        BY <3>7, AllLabels DEF Test,
           Modify, MakeConf, IsBridge, OperState, Member, DefaultRoute, Ping, Report
      <4> QED
        BY <3>a, <4>1
    <3>6. CASE GatewayForBridge(s)
      <4>1. network.routes \in Seq([dev : {"bridge", "other"}, via : Gateways \cup {NoGateway}])
        BY NetworksAssumption DEF Network
      <4>2. \A k \in DOMAIN network.routes : network.routes[k].via \in Gateways \cup {NoGateway}
        <5> DEFINE R == [dev : {"bridge", "other"}, via : Gateways \cup {NoGateway}]
        <5>1. \A k \in DOMAIN network.routes : network.routes[k] \in R
          <6> HIDE DEF R
          <6>1. network.routes \in Seq(R)
            BY <4>1 DEF R
          <6> QED
            BY <6>1
        <5>2. \A r \in R : r.via \in Gateways \cup {NoGateway}
          OBVIOUS
        <5> QED
          BY <5>1, <5>2
      <4>3. CASE script' = [script EXCEPT ![s].pc = "failed"]
        BY <3>a, <4>3, AllLabels
      <4>4. ASSUME NEW k \in DOMAIN network.routes,
                   script' = [script EXCEPT ![s].pc = "ping", ![s].gateway = network.routes[k].via]
            PROVE  script' \in [Scripts -> Script]
        BY <4>2, <4>4, ScriptTypes, AllLabels
      <4> QED
        BY <3>6, <4>3, <4>4 DEF GatewayForBridge
    <3> QED
      BY <1>3, <3>1, <3>2, <3>3, <3>4, <3>5, <3>6, <3>7 DEF Step, Adds
  <2>2. profiles' \in [Names -> Nat]
    <3>1. CASE Adds(s)
      <4>1. \A name \in Names : [profiles EXCEPT ![name] = @ + 1] \in [Names -> Nat]
        OBVIOUS
      <4> QED
        BY <3>1, <4>1 DEF Adds, Add, Names
    <3>2. CASE ~Adds(s)
      BY <1>3, <3>2 DEF Step, Begin, Fail, Show, Look, Adds, Modify, MakeConf, Grep, AppendLine,
         Up, EndSetup, IsBridge, OperState, Member, DefaultRoute, GatewayForBridge, Ping,
         Report, Test, world
    <3> QED
      BY <3>1, <3>2
  <2>3. conf' \in Conf
    <3>1. CASE AppendLine(s)
      BY <3>1, AppendedConf DEF AppendLine
    <3>2. CASE ~AppendLine(s)
      BY <1>3, <3>2 DEF Step, Begin, Fail, Show, Look, Add, Modify, MakeConf, Grep,
         Up, EndSetup, IsBridge, OperState, Member, DefaultRoute, GatewayForBridge, Ping,
         Report, Test, world
    <3> QED
      BY <3>1, <3>2
  <2>4. network' \in Networks /\ overlapped' \in BOOLEAN
    BY <1>3 DEF Step, Begin, Fail, Show, Look, Add, Modify, MakeConf, Grep, AppendLine,
       Up, EndSetup, IsBridge, OperState, Member, DefaultRoute, GatewayForBridge, Ping,
       Report, Test, world
  <2> QED
    BY <2>1, <2>2, <2>3, <2>4
<1> QED
  BY <1>1, <1>2, <1>3 DEF Next

\* Every variable has its type in every behaviour.
THEOREM BridgeTypes == Spec => []TypeOK
  BY InitTypes, NextTypes, PTL DEF Spec

-----------------------------------------------------------------------------
(***************************************************************************)
(* What one step leaves alone.                                             *)
(***************************************************************************)
Has(name) == profiles[name] > 0

Permitted == LinesOf(conf, "allow") # {}

\* A step of a script touches no other script, except that nmcli up and
\* changes of the network end what they were steady about.
LEMMA Others ==
  ASSUME TypeOK, NEW s \in Scripts, Step(s), NEW t \in Scripts, t # s
  PROVE  script'[t] = script[t] \/ script'[t] = [script[t] EXCEPT !.steady = FALSE]
<1> USE DEF TypeOK
<1>1. CASE Up(s)
  BY <1>1 DEF Up, Unsteady
<1>2. CASE \/ Begin(s) \/ Fail(s) \/ Show(s) \/ Adds(s) \/ Grep(s) \/ AppendLine(s)
           \/ EndSetup(s) \/ GatewayForBridge(s)
  BY <1>2 DEF Begin, Fail, Show, Look, Adds, Add, Grep, AppendLine, EndSetup, GatewayForBridge
<1>3. CASE \/ Modify(s) \/ MakeConf(s) \/ IsBridge(s) \/ OperState(s) \/ Member(s)
           \/ DefaultRoute(s) \/ Ping(s) \/ Report(s)
  BY <1>3 DEF Modify, MakeConf, IsBridge, OperState, Member, DefaultRoute, Ping, Report, Test
<1> QED
  BY <1>1, <1>2, <1>3 DEF Step, Adds

\* Connections are only added, and only by Add.
LEMMA ProfilesGrow ==
  ASSUME TypeOK, [Next]_vars
  PROVE  \A name \in Names : profiles[name] > 0 => profiles'[name] > 0
<1>1. ASSUME NEW s \in Scripts, Adds(s)
      PROVE  \A name \in Names : profiles[name] > 0 => profiles'[name] > 0
  <2>1. \/ profiles' = profiles
        \/ \E n \in Names : profiles' = [profiles EXCEPT ![n] = @ + 1]
    BY <1>1 DEF Adds, Add, Names
  <2> QED
    BY <2>1 DEF TypeOK
<1>2. CASE ~\E s \in Scripts : Adds(s)
  <2>1. profiles' = profiles
    BY <1>2 DEF Next, NetworkChanges, vars, Step, Begin, Fail, Show, Look, Adds, Modify, MakeConf,
       Grep, AppendLine, Up, EndSetup, IsBridge, OperState, Member, DefaultRoute,
       GatewayForBridge, Ping, Report, Test, world
  <2> QED
    BY <2>1
<1> QED
  BY <1>1, <1>2

\* Only the grep leads to the append.
LEMMA StepLabels ==
  ASSUME TypeOK, NEW t \in Scripts, Step(t), ~Grep(t)
  PROVE  script'[t].pc # "append"
<1>0. script \in [Scripts -> Script]
  BY DEF TypeOK
<1>1. CASE Begin(t)
  <2>1. PICK check \in BOOLEAN, dry \in BOOLEAN, skip \in BOOLEAN :
           script'[t] = Started(IF check THEN "end of setup" ELSE "show bridge", check, dry, skip)
    BY <1>0, <1>1 DEF Begin
  <2>2. \A l : Started(l, check, dry, skip).pc = l
    BY DEF Started
  <2>3. (IF check THEN "end of setup" ELSE "show bridge") # "append"
    OBVIOUS
  <2> QED
    BY <2>1, <2>2, <2>3, Zenon
<1>2. CASE Fail(t) \/ Show(t) \/ Adds(t) \/ AppendLine(t) \/ GatewayForBridge(t)
  BY <1>0, <1>2 DEF Fail, Show, Look, Adds, Add, AppendLine, GatewayForBridge, Script
<1>3. CASE Up(t)
  BY <1>0, <1>3 DEF Up, Unsteady, Script
<1>4. CASE EndSetup(t)
  BY <1>0, <1>4 DEF EndSetup, Script
<1>5. CASE \/ Modify(t) \/ MakeConf(t) \/ IsBridge(t) \/ OperState(t) \/ Member(t)
           \/ DefaultRoute(t) \/ Ping(t) \/ Report(t)
  BY <1>0, <1>5 DEF Modify, MakeConf, IsBridge, OperState, Member, DefaultRoute, Ping, Report,
                    Test, Script
<1> QED
  BY <1>1, <1>2, <1>3, <1>4, <1>5 DEF Step, Adds

\* Where the bridge.conf of before the first script either ends with a newline
\* or has the line already, nothing is ever glued to its last line: no script
\* appends to a file that does not end.
NothingToGlue == \A c \in Confs : Ended(c) \/ LinesOf(c, "allow") # {}

EndedInv ==
    \/ Ended(conf)
    \/ Permitted /\ \A s \in Scripts : script[s].pc = "append" => script[s].found

LEMMA InitEnded == NothingToGlue /\ Init => EndedInv
BY DEF NothingToGlue, Init, EndedInv, Permitted, LinesOf, Started

\* bridge.conf is only appended to, and only by AppendLine.
LEMMA ConfSteps ==
  ASSUME [Next]_vars
  PROVE  \/ UNCHANGED conf
         \/ conf' = Appended(conf)
            /\ \E s \in Scripts : script[s].pc = "append" /\ ~script[s].found
<1>1. ASSUME NEW s \in Scripts, AppendLine(s)
      PROVE  conf' = conf \/ (conf' = Appended(conf) /\ script[s].pc = "append" /\ ~script[s].found)
  BY <1>1 DEF AppendLine
<1>2. CASE ~\E s \in Scripts : AppendLine(s)
  <2>1. conf' = conf
    BY <1>2 DEF Next, NetworkChanges, vars, Step, Begin, Fail, Show, Look, Add, Modify, MakeConf,
       Grep, AppendLine, Up, EndSetup, IsBridge, OperState, Member, DefaultRoute,
       GatewayForBridge, Ping, Report, Test, world
  <2> QED
    BY <2>1
<1> QED
  BY <1>1, <1>2

\* The line, once it is there, stays.
LEMMA ConfGrows ==
  ASSUME TypeOK, EndedInv, [Next]_vars
  PROVE  Permitted => Permitted'
<1>1. CASE UNCHANGED conf
  BY <1>1 DEF Permitted, LinesOf
<1>2. CASE conf' = Appended(conf) /\ \E s \in Scripts : script[s].pc = "append" /\ ~script[s].found
  <2>1. Ended(conf)
    BY <1>2 DEF EndedInv
  <2> QED
    BY <1>2, <2>1, AppendedToEnded DEF TypeOK, Permitted
<1> QED
  BY <1>1, <1>2, ConfSteps

\* A script comes to the append only from the grep.
LEMMA NextEnded == TypeOK /\ EndedInv /\ [Next]_vars => EndedInv'
<1> SUFFICES ASSUME TypeOK, EndedInv, [Next]_vars PROVE EndedInv'
  OBVIOUS
<1>0. script \in [Scripts -> Script]
  BY DEF TypeOK
<1>1. CASE conf' = Appended(conf)
  BY <1>1, AppendedConf DEF TypeOK, EndedInv, Ended
<1>2. CASE UNCHANGED conf /\ Ended(conf)
  BY <1>2 DEF EndedInv
<1>3. CASE UNCHANGED conf /\ ~Ended(conf)
  <2>1. Permitted /\ Permitted' /\ ~Ended(conf)'
    BY <1>3, ConfGrows DEF EndedInv
  <2>2. ASSUME NEW t \in Scripts, script[t].pc = "append" => script[t].found
        PROVE  script'[t].pc = "append" => script'[t].found
    <3>1. ASSUME script'[t] = script[t] \/ script'[t] = [script[t] EXCEPT !.steady = FALSE]
          PROVE  script'[t].pc = "append" => script'[t].found
      BY <1>0, <2>2, <3>1 DEF Script
    <3>2. CASE UNCHANGED vars \/ NetworkChanges
      BY <3>1, <3>2 DEF vars, NetworkChanges, Unsteady
    <3>3. ASSUME NEW s \in Scripts, Step(s), s # t
          PROVE  script'[t].pc = "append" => script'[t].found
      BY <3>1, <3>3, Others
    <3>4. CASE Grep(t)
      BY <1>0, <2>1, <3>4 DEF Grep, Look, Permitted, Script
    <3>5. ASSUME Step(t), ~Grep(t)
          PROVE  script'[t].pc # "append"
      BY <1>0, <3>5, StepLabels
    <3> QED
      BY <3>2, <3>3, <3>4, <3>5 DEF Next
  <2> QED
    BY <1>3, <2>1, <2>2 DEF EndedInv
<1> QED
  BY <1>1, <1>2, <1>3, ConfSteps

-----------------------------------------------------------------------------
(***************************************************************************)
(* A setup that is over has set up everything.                             *)
(***************************************************************************)
BeforeBridge == {"idle", "failed", "show bridge", "add bridge"}
BeforeSlave == BeforeBridge \cup {"modify", "show slave", "add slave"}
BeforeConf == BeforeSlave \cup {"conf", "grep", "append"}

\* What a script that sets up knows where it is, and keeps knowing whatever
\* the others do.
KnowsBridge(s) ==
    ~script[s].check /\ ~script[s].dry =>
       \/ script[s].pc \in BeforeBridge \ {"add bridge"}
       \/ script[s].pc = "add bridge" /\ ~script[s].found
       \/ Has("bridge")

KnowsSlave(s) ==
    ~script[s].check /\ ~script[s].dry =>
       \/ script[s].pc \in BeforeSlave \ {"add slave"}
       \/ script[s].pc = "add slave" /\ ~script[s].found
       \/ Has("slave")

KnowsConf(s) ==
    ~script[s].check /\ ~script[s].dry =>
       \/ script[s].pc \in BeforeConf \ {"append"}
       \/ script[s].pc = "append" /\ ~script[s].found
       \/ Permitted

SetUpInv == \A s \in Scripts : KnowsBridge(s) /\ KnowsSlave(s) /\ KnowsConf(s)

LEMMA InitSetUp == Init => SetUpInv
<1> SUFFICES ASSUME Init, NEW s \in Scripts
             PROVE  KnowsBridge(s) /\ KnowsSlave(s) /\ KnowsConf(s)
  BY DEF SetUpInv
<1>1. script[s].pc = "idle"
  BY DEF Init, Started
<1> QED
  BY <1>1 DEF KnowsBridge, KnowsSlave, KnowsConf, BeforeBridge, BeforeSlave, BeforeConf

LEMMA NextSetUp == TypeOK /\ EndedInv /\ SetUpInv /\ [Next]_vars => SetUpInv'
<1> SUFFICES ASSUME TypeOK, EndedInv, SetUpInv, [Next]_vars, NEW t \in Scripts
             PROVE  KnowsBridge(t)' /\ KnowsSlave(t)' /\ KnowsConf(t)'
  BY DEF SetUpInv
<1> DEFINE r == script[t]
<1>1. KnowsBridge(t) /\ KnowsSlave(t) /\ KnowsConf(t) /\ r \in Script
  BY DEF SetUpInv, TypeOK
<1>2. /\ Has("bridge") => Has("bridge")'
      /\ Has("slave") => Has("slave")'
      /\ Permitted => Permitted'
  BY ProfilesGrow, ConfGrows DEF Names, Has
<1> USE DEF KnowsBridge, KnowsSlave, KnowsConf, BeforeBridge, BeforeSlave, BeforeConf
<1>3. ASSUME r' = r \/ r' = [r EXCEPT !.steady = FALSE]
      PROVE  KnowsBridge(t)' /\ KnowsSlave(t)' /\ KnowsConf(t)'
  BY <1>1, <1>2, <1>3 DEF Script
<1>4. CASE UNCHANGED vars
  BY <1>3, <1>4 DEF vars
<1>5. CASE NetworkChanges
  BY <1>3, <1>5 DEF NetworkChanges, Unsteady
<1>6. ASSUME NEW s \in Scripts, Step(s), s # t
      PROVE  KnowsBridge(t)' /\ KnowsSlave(t)' /\ KnowsConf(t)'
  BY <1>3, <1>6, Others
<1>7. ASSUME Step(t)
      PROVE  KnowsBridge(t)' /\ KnowsSlave(t)' /\ KnowsConf(t)'
  <2>0. script \in [Scripts -> Script]
    BY DEF TypeOK
  <2>1. CASE Begin(t)
    <3>1. PICK check \in BOOLEAN, dry \in BOOLEAN, skip \in BOOLEAN :
             r' = Started(IF check THEN "end of setup" ELSE "show bridge", check, dry, skip)
      BY <2>0, <2>1 DEF Begin
    <3>2. r'.check = TRUE \/ r'.pc = "show bridge"
      <4>1. \A l : Started(l, check, dry, skip).pc = l /\ Started(l, check, dry, skip).check = check
        BY DEF Started
      <4>2. check = TRUE \/ (IF check THEN "end of setup" ELSE "show bridge") = "show bridge"
        OBVIOUS
      <4> QED
        BY <3>1, <4>1, <4>2, Zenon
    <3> QED
      BY <3>2
  <2>2. CASE Fail(t)
    BY <2>2 DEF Fail, TypeOK
  <2>3. CASE Show(t)
    <3>1. CASE Look(t, "show bridge", profiles["bridge"] > 0, "add bridge")
      <4>1. /\ r.pc = "show bridge" /\ Has("bridge") = Has("bridge")'
            /\ r'.pc = "add bridge" /\ r'.found = Has("bridge")
            /\ r'.check = r.check /\ r'.dry = r.dry
        BY <2>0, <3>1 DEF Look, Script, world, Has
      <4> QED
        BY <4>1
    <3>2. CASE Look(t, "show slave", profiles["slave"] > 0, "add slave")
      <4>1. /\ r.pc = "show slave" /\ Has("slave") = Has("slave")'
            /\ r'.pc = "add slave" /\ r'.found = Has("slave")
            /\ r'.check = r.check /\ r'.dry = r.dry
        BY <2>0, <3>2 DEF Look, Script, world, Has
      <4> QED
        BY <1>1, <1>2, <4>1
    <3> QED
      BY <2>3, <3>1, <3>2 DEF Show
  <2>4. CASE Adds(t)
    <3>0. profiles["bridge"] \in Nat /\ profiles["slave"] \in Nat
      BY DEF TypeOK, Names
    <3>1. CASE Add(t, "bridge", "add bridge", "modify")
      <4>1. /\ r.pc = "add bridge" /\ r'.pc = "modify"
            /\ r'.check = r.check /\ r'.dry = r.dry
            /\ r.found \/ r.dry \/ Has("bridge")'
        <5>1. r.found \/ r.dry \/ profiles' = [profiles EXCEPT !["bridge"] = @ + 1]
          BY <3>1 DEF Add
        <5>2. profiles' = [profiles EXCEPT !["bridge"] = @ + 1] => Has("bridge")'
          BY <3>0 DEF TypeOK, Names, Has
        <5> QED
          BY <2>0, <3>1, <5>1, <5>2 DEF Add, Script
      <4> QED
        BY <1>1, <1>2, <3>0, <4>1
    <3>2. CASE Add(t, "slave", "add slave", "conf")
      <4>1. /\ r.pc = "add slave" /\ r'.pc = "conf"
            /\ r'.check = r.check /\ r'.dry = r.dry
            /\ r.found \/ r.dry \/ Has("slave")'
        <5>1. r.found \/ r.dry \/ profiles' = [profiles EXCEPT !["slave"] = @ + 1]
          BY <3>2 DEF Add
        <5>2. profiles' = [profiles EXCEPT !["slave"] = @ + 1] => Has("slave")'
          BY <3>0 DEF TypeOK, Names, Has
        <5> QED
          BY <2>0, <3>2, <5>1, <5>2 DEF Add, Script
      <4> QED
        BY <1>1, <1>2, <3>0, <4>1
    <3> QED
      BY <2>4, <3>1, <3>2 DEF Adds
  <2>5. CASE Modify(t) \/ MakeConf(t)
    <3>1. \/ r.pc = "modify" /\ r' = [r EXCEPT !.pc = "show slave"]
          \/ r' = [r EXCEPT !.pc = "failed"]
          \/ r.pc = "conf" /\ ~r.dry /\ r' = [r EXCEPT !.pc = "grep"]
          \/ r.pc = "conf" /\ r.dry /\ r' = [r EXCEPT !.pc = "up"]
      BY <2>0, <2>5 DEF Modify, MakeConf, Test
    <3> QED
      BY <1>1, <1>2, <3>1 DEF Script
  <2>6. CASE Grep(t)
    BY <2>6, <1>1, <1>2 DEF Grep, Look, Permitted, Script, TypeOK
  <2>7. CASE AppendLine(t)
    <3>1. /\ r.pc = "append" /\ r'.pc = "up" /\ r'.check = r.check /\ r'.dry = r.dry
          /\ r.found \/ conf' = Appended(conf)
      BY <2>0, <2>7 DEF AppendLine, Script
    <3>2. ~r.found => Permitted'
      BY <3>1, AppendedToEnded DEF TypeOK, EndedInv, Permitted
    <3> QED
      BY <1>1, <1>2, <3>1, <3>2
  <2>8. CASE Up(t)
    <3> DEFINE then == [script EXCEPT ![t].pc = "end of setup"]
    <3>0. /\ then[t].pc = "end of setup" /\ then[t].check = r.check /\ then[t].dry = r.dry
          /\ r.pc = "up" /\ (script' = then \/ script' = Unsteady(then))
      BY <2>0, <2>8 DEF Up, Script
    <3>1. /\ r.pc = "up" /\ r'.pc = "end of setup"
          /\ r'.check = r.check /\ r'.dry = r.dry
      <4>1. then \in [Scripts -> Script]
        BY <2>0, ScriptTypes, AllLabels
      <4>2. Unsteady(then)[t] = [then[t] EXCEPT !.steady = FALSE]
        BY DEF Unsteady
      <4> HIDE DEF then
      <4>3. then[t] \in Script
        BY <4>1
      <4>4. r' = then[t] \/ r' = [then[t] EXCEPT !.steady = FALSE]
        BY <3>0, <4>2
      <4> QED
        BY <3>0, <4>3, <4>4 DEF Script
    <3> QED
      BY <1>1, <1>2, <3>1
  <2>9. CASE EndSetup(t)
    BY <2>9, <1>1, <1>2 DEF EndSetup, Script, TypeOK
  <2>10. CASE \/ IsBridge(t) \/ OperState(t) \/ Member(t)
              \/ DefaultRoute(t) \/ Ping(t) \/ Report(t)
    <3>1. /\ r.pc \in {"is bridge", "operstate", "member", "route", "ping", "report"}
          /\ \E label : r' = [r EXCEPT !.pc = label]
      BY <2>0, <2>10 DEF IsBridge, OperState, Member, DefaultRoute, Ping, Report, Test
    <3> QED
      BY <1>1, <1>2, <3>1 DEF Script
  <2>11. CASE GatewayForBridge(t)
    <3>1. /\ r.pc = "gateway"
          /\ r'.check = r.check /\ r'.dry = r.dry
      BY <2>0, <2>11 DEF GatewayForBridge, Script
    <3> QED
      BY <1>1, <1>2, <3>1
  <2> QED
    BY <1>7, <2>1, <2>2, <2>3, <2>4, <2>5, <2>6, <2>7, <2>8, <2>9, <2>10, <2>11 DEF Step, Adds
<1> QED
  BY <1>4, <1>5, <1>6, <1>7 DEF Next

\* A setup that passed its sanity test left both connections and the line in
\* bridge.conf, if that file did not end in the middle of a line
\* (ensure_bridge_connection to ensure_qemu_bridge_conf).
THEOREM PassedIsSetUpHolds ==
  ASSUME NothingToGlue PROVE Spec => []PassedIsSetUp
<1>1. SetUpInv => PassedIsSetUp
  BY DEF SetUpInv, KnowsBridge, KnowsSlave, KnowsConf, PassedIsSetUp,
     BeforeBridge, BeforeSlave, BeforeConf, Names, Permitted, Has
<1>2. Init => EndedInv
  BY InitEnded
<1> QED
  BY <1>1, <1>2, InitTypes, NextTypes, NextEnded, InitSetUp, NextSetUp, PTL DEF Spec

-----------------------------------------------------------------------------
(***************************************************************************)
(* A bridge that passed the sanity test is one kernelvm accepts.           *)
(***************************************************************************)
Untested == {"operstate", "member", "route", "gateway", "ping", "report", "done"}

\* What the looks of the sanity test found, while the network is steady.
Tested(s) ==
    script[s].steady /\ ~script[s].dry =>
       /\ script[s].pc \in Untested => network.bridge
       /\ script[s].pc \in Untested \ {"operstate"} => network.oper # "down"
       /\ script[s].pc \in Untested \ {"operstate", "member"} => network.uplink

TestedInv == \A s \in Scripts : Tested(s)

LEMMA InitTested == Init => TestedInv
<1> SUFFICES ASSUME Init, NEW s \in Scripts
             PROVE  Tested(s)
  BY DEF TestedInv
<1>1. script[s].steady = FALSE
  BY DEF Init, Started
<1> QED
  BY <1>1 DEF Tested

\* The network changes only with Up and NetworkChanges, which leave no script steady.
LEMMA SteadyNetwork ==
  ASSUME TypeOK, [Next]_vars, NEW t \in Scripts
  PROVE  network' = network \/ script'[t].steady = FALSE
<1> USE DEF TypeOK
<1>1. \A f \in [Scripts -> Script] : Unsteady(f)[t].steady = FALSE
  BY DEF Unsteady, Script
<1>2. CASE NetworkChanges
  BY <1>1, <1>2 DEF NetworkChanges
<1>3. ASSUME NEW s \in Scripts, Up(s)
      PROVE  network' = network \/ script'[t].steady = FALSE
  <2>1. [script EXCEPT ![s].pc = "end of setup"] \in [Scripts -> Script]
    BY ScriptTypes, AllLabels
  <2> QED
    BY <1>1, <1>3, <2>1 DEF Up
<1>4. CASE ~NetworkChanges /\ ~\E s \in Scripts : Up(s)
  BY <1>4 DEF Next, vars, Step, Begin, Fail, Show, Look, Add, Modify, MakeConf,
       Grep, AppendLine, EndSetup, IsBridge, OperState, Member, DefaultRoute,
       GatewayForBridge, Ping, Report, Test, world
<1> QED
  BY <1>2, <1>3, <1>4

LEMMA NextTested == TypeOK /\ TestedInv /\ [Next]_vars => TestedInv'
<1> SUFFICES ASSUME TypeOK, TestedInv, [Next]_vars, NEW t \in Scripts
             PROVE  Tested(t)'
  BY DEF TestedInv
<1> DEFINE r == script[t]
<1>1. Tested(t) /\ r \in Script /\ script \in [Scripts -> Script]
  BY DEF TestedInv, TypeOK
<1>2. network' = network \/ r'.steady = FALSE
  BY SteadyNetwork
<1> USE DEF Tested, Untested
<1>3. ASSUME r' = r \/ r' = [r EXCEPT !.steady = FALSE]
      PROVE  Tested(t)'
  BY <1>1, <1>2, <1>3 DEF Script
<1>4. CASE UNCHANGED vars
  BY <1>3, <1>4 DEF vars
<1>5. CASE NetworkChanges
  BY <1>3, <1>5 DEF NetworkChanges, Unsteady
<1>6. ASSUME NEW s \in Scripts, Step(s), s # t
      PROVE  Tested(t)'
  BY <1>3, <1>6, Others
<1>7. ASSUME Step(t)
      PROVE  Tested(t)'
  <2>1. ASSUME r'.pc \notin Untested
        PROVE  Tested(t)'
    BY <2>1
  <2>2. CASE Begin(t)
    <3>2. r'.steady = FALSE
      <4>1. PICK l \in {"end of setup", "show bridge"}, check \in BOOLEAN, dry \in BOOLEAN,
                 skip \in BOOLEAN : r' = Started(l, check, dry, skip)
        BY <1>1, <2>2 DEF Begin
      <4>2. Started(l, check, dry, skip).steady = FALSE
        BY DEF Started
      <4> QED
        BY <4>1, <4>2, Zenon
    <3> QED
      BY <3>2
  <2>3. CASE \/ Fail(t) \/ Show(t) \/ Adds(t) \/ Modify(t) \/ MakeConf(t) \/ Grep(t)
             \/ AppendLine(t) \/ Up(t)
    <3>1. CASE Fail(t) \/ Show(t) \/ Adds(t) \/ Modify(t) \/ MakeConf(t) \/ Grep(t) \/ AppendLine(t)
      <4> DEFINE Setup == {"failed", "add bridge", "add slave", "modify", "conf", "show slave",
                           "up", "grep", "append"}
      <4>0. \A label \in Setup : label \notin Untested
        OBVIOUS
      <4>1. \A label : [script EXCEPT ![t].pc = label][t].pc = label
        BY <1>1 DEF Script
      <4>2. ASSUME NEW label \in Setup, r'.pc = label
            PROVE  Tested(t)'
        <5>1. r'.pc \notin Untested
          BY <4>0, <4>2, Zenon
        <5> QED
          BY <2>1, <5>1, Zenon
      <4>3. CASE Show(t) \/ Grep(t)
        <5>1. PICK label \in Setup, found \in BOOLEAN : script' = [script EXCEPT ![t].pc = label, ![t].found = found]
          <6>1. (profiles["bridge"] > 0) \in BOOLEAN /\ (profiles["slave"] > 0) \in BOOLEAN
                /\ (LinesOf(conf, "allow") # {}) \in BOOLEAN
            OBVIOUS
          <6>2. CASE Look(t, "show bridge", profiles["bridge"] > 0, "add bridge")
            BY <6>1, <6>2 DEF Look
          <6>3. CASE Look(t, "show slave", profiles["slave"] > 0, "add slave")
            BY <6>1, <6>3 DEF Look
          <6>4. CASE Look(t, "grep", LinesOf(conf, "allow") # {}, "append")
            BY <6>1, <6>4 DEF Look
          <6> QED
            BY <4>3, <6>2, <6>3, <6>4 DEF Show, Grep
        <5>2. r' = [r EXCEPT !.pc = label, !.found = found]
          BY <1>1, <5>1
        <5>3. r'.pc = label
          BY <1>1, <5>2 DEF Script
        <5> QED
          BY <4>2, <5>3, Zenon
      <4>4. CASE Fail(t) \/ Adds(t) \/ AppendLine(t) \/ Modify(t) \/ MakeConf(t)
        <5>1. PICK label \in Setup : script' = [script EXCEPT ![t].pc = label]
          <6>1. CASE Fail(t) \/ AppendLine(t)
            BY <6>1 DEF Fail, AppendLine
          <6>2. CASE Adds(t)
            BY <6>2 DEF Adds, Add
          <6>3. CASE Modify(t) \/ MakeConf(t)
            BY <6>3 DEF Modify, MakeConf, Test
          <6> QED
            BY <4>4, <6>1, <6>2, <6>3
        <5>2. r'.pc = label
          BY <4>1, <5>1, Zenon
        <5> QED
          BY <4>2, <5>2, Zenon
      <4> QED
        BY <3>1, <4>3, <4>4, Zenon
    <3>2. CASE Up(t)
      <4>1. [script EXCEPT ![t].pc = "end of setup"][t].pc = "end of setup"
        BY <1>1 DEF Script
      <4>2. \A f : Unsteady(f)[t] = [f[t] EXCEPT !.steady = FALSE]
        BY DEF Unsteady
      <4>3. [script EXCEPT ![t].pc = "end of setup"][t] \in Script
        <5>1. [script EXCEPT ![t].pc = "end of setup"] \in [Scripts -> Script]
          BY <1>1, ScriptTypes, AllLabels
        <5> QED
          BY <5>1
      <4>4. \A q \in Script : [q EXCEPT !.steady = FALSE].pc = q.pc
        BY DEF Script
      <4>5. r'.pc = "end of setup"
        BY <3>2, <4>1, <4>2, <4>3, <4>4 DEF Up
      <4> QED
        BY <2>1, <4>5
    <3> QED
      BY <2>3, <3>1, <3>2
  <2>4. CASE EndSetup(t)
    <3>1. \/ r'.pc = "is bridge"
          \/ r.dry /\ r'.dry = r.dry
      BY <1>1, <2>4 DEF EndSetup, Script
    <3> QED
      BY <2>1, <3>1
  <2>5. CASE \/ IsBridge(t) \/ OperState(t) \/ Member(t)
             \/ DefaultRoute(t) \/ Ping(t) \/ Report(t)
    <3>1. /\ r'.steady = r.steady /\ r'.dry = r.dry /\ network' = network
          /\ \/ r'.pc = "failed"
             \/ r'.pc = "operstate" /\ network.bridge
             \/ r.pc = "operstate" /\ r'.pc = "member" /\ (~network.bridge \/ network.oper # "down")
             \/ r.pc = "member" /\ network.uplink
             \/ r.pc \in {"route", "ping", "report"}
      <4>1. PICK label : r' = [r EXCEPT !.pc = label]
        BY <1>1, <2>5 DEF IsBridge, OperState, Member, DefaultRoute, Ping, Report, Test
      <4>2. r'.steady = r.steady /\ r'.dry = r.dry /\ r'.pc = label
        BY <1>1, <4>1 DEF Script
      <4>3. network' = network
        BY <2>5 DEF IsBridge, OperState, Member, DefaultRoute, Ping, Report, Test, world
      <4>4. \A l : [script EXCEPT ![t].pc = l][t].pc = l
        BY <1>1 DEF Script
      <4>5. \/ r'.pc = "failed"
            \/ r'.pc = "operstate" /\ network.bridge
            \/ r.pc = "operstate" /\ r'.pc = "member" /\ (~network.bridge \/ network.oper # "down")
            \/ r.pc = "member" /\ network.uplink
            \/ r.pc \in {"route", "ping", "report"}
        BY <2>5, <4>4 DEF IsBridge, OperState, Member, DefaultRoute, Ping, Report, Test
      <4> QED
        BY <4>2, <4>3, <4>5
    <3> QED
      BY <1>1, <3>1
  <2>6. CASE GatewayForBridge(t)
    <3>1. /\ r.pc = "gateway" /\ network' = network
          /\ r'.steady = r.steady /\ r'.dry = r.dry
      BY <1>1, <2>6 DEF GatewayForBridge, Script, world
    <3> QED
      BY <1>1, <3>1
  <2> QED
    BY <1>7, <2>2, <2>3, <2>4, <2>5, <2>6 DEF Step, Adds
<1> QED
  BY <1>4, <1>5, <1>6, <1>7 DEF Next

\* sanity_test and validate_host_requirements agree: what the script passes in
\* a steady network, kernelvm create accepts.
THEOREM PassedIsAcceptedHolds == Spec => []PassedIsAccepted
<1>1. TestedInv => PassedIsAccepted
  BY DEF TestedInv, Tested, Untested, PassedIsAccepted, KernelvmAccepts
<1> QED
  BY <1>1, InitTypes, NextTypes, InitTested, NextTested, PTL DEF Spec

-----------------------------------------------------------------------------
(***************************************************************************)
(* One script at a time adds nothing twice.                                *)
(***************************************************************************)
NotYet(s) ==
    /\ script[s].pc = "add bridge" /\ ~script[s].found => ~Has("bridge")
    /\ script[s].pc = "add slave" /\ ~script[s].found => ~Has("slave")
    /\ script[s].pc = "append" /\ ~script[s].found => LinesOf(conf, "allow") = {}

Single == \A name \in Names : profiles[name] <= 1

OneAtATimeInv ==
    ~overlapped =>
       /\ \A s, t \in Scripts : Busy(s) /\ Busy(t) => s = t
       /\ Single /\ AtMostOnce(conf)
       /\ \A s \in Scripts : NotYet(s)

LEMMA InitOneAtATime == Init => OneAtATimeInv
<1> SUFFICES ASSUME Init
             PROVE  OneAtATimeInv
  OBVIOUS
<1>1. \A s \in Scripts : script[s].pc = "idle"
  BY DEF Init, Started
<1>2. Single
  BY DEF Init, Single
<1>3. AtMostOnce(conf)
  BY ConfsAssumption DEF Init
<1> QED
  BY <1>1, <1>2, <1>3 DEF OneAtATimeInv, Busy, NotYet

\* Who steps was, or begins, alone; the others do nothing.
LEMMA NextAlone ==
  ASSUME TypeOK, OneAtATimeInv, NEW s \in Scripts, Step(s), ~overlapped'
  PROVE  /\ ~overlapped
         /\ \A t \in Scripts : t # s => ~Busy(t) /\ ~Busy(t)'
<1>1. CASE Begin(s)
  <2>1. overlapped' = (overlapped \/ \E t \in Scripts \ {s} : Busy(t))
    BY <1>1 DEF Begin
  <2>2. ~overlapped /\ \A t \in Scripts : t # s => ~Busy(t)
    BY <2>1 DEF TypeOK
  <2>3. \A t \in Scripts : t # s => script'[t] = script[t]
    BY <1>1 DEF Begin, TypeOK
  <2> QED
    BY <2>2, <2>3 DEF Busy
<1>2. CASE ~Begin(s)
  <2>1. overlapped' = overlapped /\ Busy(s)
    BY <1>2 DEF Step, Fail, Show, Look, Add, Modify, MakeConf, Grep, AppendLine, Up, EndSetup,
       IsBridge, OperState, Member, DefaultRoute, GatewayForBridge, Ping, Report, Test, Busy
  <2>2. \A t \in Scripts : t # s => ~Busy(t)
    BY <2>1 DEF OneAtATimeInv
  <2>3. \A t \in Scripts : t # s => script'[t].pc = script[t].pc
    <3>1. \A q \in Script : [q EXCEPT !.steady = FALSE].pc = q.pc
      BY DEF Script
    <3>2. \A t \in Scripts : script[t] \in Script
      BY DEF TypeOK
    <3> QED
      BY <3>1, <3>2, Others
  <2> QED
    BY <2>1, <2>2, <2>3 DEF Busy
<1> QED
  BY <1>1, <1>2

LEMMA NextOneAtATime == TypeOK /\ OneAtATimeInv /\ [Next]_vars => OneAtATimeInv'
<1> SUFFICES ASSUME TypeOK, OneAtATimeInv, [Next]_vars, ~overlapped'
             PROVE  OneAtATimeInv'
  BY DEF OneAtATimeInv
<1>1. CASE UNCHANGED vars
  BY <1>1 DEF vars, OneAtATimeInv, Busy, Single, NotYet, Has, AtMostOnce, LinesOf
<1>2. CASE NetworkChanges
  <2>1. /\ ~overlapped /\ UNCHANGED <<profiles, conf>>
        /\ \A s \in Scripts : script'[s].pc = script[s].pc /\ script'[s].found = script[s].found
    BY <1>2 DEF NetworkChanges, Unsteady, TypeOK, Script
  <2> QED
    BY <2>1 DEF OneAtATimeInv, Busy, Single, NotYet, Has, AtMostOnce, LinesOf
<1>3. ASSUME NEW s \in Scripts, Step(s)
      PROVE  OneAtATimeInv'
  <2> DEFINE r == script[s]
  <2>1. ~overlapped /\ \A t \in Scripts : t # s => ~Busy(t) /\ ~Busy(t)'
    BY <1>3, NextAlone
  <2>2. /\ Single /\ AtMostOnce(conf) /\ NotYet(s)
        /\ script \in [Scripts -> Script] /\ r \in Script
    BY <2>1 DEF OneAtATimeInv, TypeOK
  <2>3. \A t \in Scripts : ~Busy(t)' => NotYet(t)'
    BY DEF Busy, NotYet
  <2>4. SUFFICES Single' /\ AtMostOnce(conf)' /\ NotYet(s)'
    BY <2>1, <2>3 DEF OneAtATimeInv
  <2>5. ASSUME UNCHANGED <<profiles, conf>>
        PROVE  Single' /\ AtMostOnce(conf)'
    BY <2>2, <2>5 DEF Single, AtMostOnce, LinesOf
  <2>6. ASSUME r'.pc \notin {"add bridge", "add slave", "append"}
        PROVE  NotYet(s)'
    BY <2>6 DEF NotYet
  <2>7. CASE Begin(s) \/ Fail(s)
    <3>2. r'.pc \in {"end of setup", "show bridge", "failed"}
      <4>1. CASE Begin(s)
        <5>1. PICK l \in {"end of setup", "show bridge"}, check \in BOOLEAN, dry \in BOOLEAN,
                   skip \in BOOLEAN : r' = Started(l, check, dry, skip)
          BY <2>2, <4>1 DEF Begin
        <5>3. Started(l, check, dry, skip).pc = l
          BY DEF Started
        <5>2. r'.pc = l
          BY <5>1, <5>3, Zenon
        <5> QED
          BY <5>2
      <4>2. CASE Fail(s)
        BY <2>2, <4>2 DEF Fail, Script
      <4> QED
        BY <2>7, <4>1, <4>2
    <3> QED
      BY <2>5, <2>6, <2>7, <3>2 DEF Begin, Fail, world
  <2>8. CASE Show(s)
    <3>1. UNCHANGED <<profiles, conf>>
      BY <2>8 DEF Show, Look, world
    <3>2. \/ r'.pc = "add bridge" /\ r'.found = Has("bridge")
          \/ r'.pc = "add slave" /\ r'.found = Has("slave")
      <4>1. CASE Look(s, "show bridge", profiles["bridge"] > 0, "add bridge")
        BY <2>2, <4>1 DEF Look, Script, Has
      <4>2. CASE Look(s, "show slave", profiles["slave"] > 0, "add slave")
        BY <2>2, <4>2 DEF Look, Script, Has
      <4> QED
        BY <2>8, <4>1, <4>2 DEF Show
    <3>3. Has("bridge")' = Has("bridge") /\ Has("slave")' = Has("slave")
      BY <3>1 DEF Has
    <3> QED
      BY <2>5, <3>1, <3>2, <3>3 DEF NotYet
  <2>9. CASE Adds(s)
    <3>1. /\ r'.pc \in {"modify", "conf"} /\ conf' = conf
      BY <2>2, <2>9 DEF Adds, Add, Script
    <3>2. \/ profiles' = profiles
          \/ \E n \in Names : ~Has(n) /\ profiles' = [profiles EXCEPT ![n] = @ + 1]
      <4>1. CASE Add(s, "bridge", "add bridge", "modify")
        BY <2>2, <4>1 DEF Add, NotYet, Names
      <4>2. CASE Add(s, "slave", "add slave", "conf")
        BY <2>2, <4>2 DEF Add, NotYet, Names
      <4> QED
        BY <2>9, <4>1, <4>2 DEF Adds
    <3>3. Single'
      BY <2>2, <3>2 DEF Single, Has, TypeOK
    <3> QED
      BY <2>2, <2>6, <3>1, <3>3 DEF AtMostOnce, LinesOf
  <2>10. CASE Grep(s)
    <3>1. UNCHANGED <<profiles, conf>>
      BY <2>10 DEF Grep, Look, world
    <3>2. r'.pc = "append" /\ r'.found = (LinesOf(conf, "allow") # {})
      BY <2>2, <2>10 DEF Grep, Look, Script
    <3> QED
      BY <2>5, <3>1, <3>2 DEF NotYet, LinesOf
  <2>11. CASE AppendLine(s)
    <3>1. r.pc = "append" /\ r'.pc = "up" /\ profiles' = profiles
      BY <2>2, <2>11 DEF AppendLine
    <3>2. \/ conf' = conf
          \/ conf' = Appended(conf) /\ ~r.found
      BY <2>11 DEF AppendLine
    <3>3. AtMostOnce(conf')
      BY <2>2, <3>1, <3>2, AppendedConf DEF NotYet, TypeOK
    <3> QED
      BY <2>2, <2>6, <3>1, <3>3 DEF Single, AtMostOnce, LinesOf
  <2>12. CASE Up(s) \/ EndSetup(s) \/ GatewayForBridge(s)
    <3>1. UNCHANGED <<profiles, conf>>
      BY <2>12 DEF Up, EndSetup, GatewayForBridge, world
    <3>2. CASE EndSetup(s) \/ GatewayForBridge(s)
      <4>1. r'.pc \in {"done", "is bridge", "ping", "failed"}
        <5>1. CASE EndSetup(s)
          BY <2>2, <5>1 DEF EndSetup, Script
        <5>2. CASE GatewayForBridge(s)
          BY <2>2, <5>2 DEF GatewayForBridge, Script
        <5> QED
          BY <3>2, <5>1, <5>2
      <4> QED
        BY <2>5, <2>6, <3>1, <4>1
    <3>3. CASE Up(s)
      <4>1. [script EXCEPT ![s].pc = "end of setup"][s].pc = "end of setup"
        BY <2>2 DEF Script
      <4>2. \A f : Unsteady(f)[s] = [f[s] EXCEPT !.steady = FALSE]
        BY DEF Unsteady
      <4>3. [script EXCEPT ![s].pc = "end of setup"][s] \in Script
        <5>1. [script EXCEPT ![s].pc = "end of setup"] \in [Scripts -> Script]
          BY <2>2, ScriptTypes, AllLabels
        <5> QED
          BY <5>1
      <4>4. \A q \in Script : [q EXCEPT !.steady = FALSE].pc = q.pc
        BY DEF Script
      <4>5. r'.pc = "end of setup"
        BY <3>3, <4>1, <4>2, <4>3, <4>4 DEF Up
      <4> QED
        BY <2>5, <2>6, <3>1, <4>5
    <3> QED
      BY <2>12, <3>2, <3>3
  <2>13. CASE \/ Modify(s) \/ MakeConf(s) \/ IsBridge(s) \/ OperState(s) \/ Member(s)
              \/ DefaultRoute(s) \/ Ping(s) \/ Report(s)
    <3>1. UNCHANGED <<profiles, conf>>
      BY <2>13 DEF Modify, MakeConf, IsBridge, OperState, Member, DefaultRoute, Ping, Report,
         Test, world
    <3>2. r'.pc \notin {"add bridge", "add slave", "append"}
      <4>1. \A l : [script EXCEPT ![s].pc = l][s].pc = l
        BY <2>2 DEF Script
      <4> QED
        BY <2>13, <4>1 DEF Modify, MakeConf, IsBridge, OperState, Member, DefaultRoute, Ping,
           Report, Test
    <3> QED
      BY <2>5, <2>6, <3>1, <3>2
  <2> QED
    BY <1>3, <2>7, <2>8, <2>9, <2>10, <2>11, <2>12, <2>13 DEF Step, Adds
<1> QED
  BY <1>1, <1>2, <1>3 DEF Next

\* As long as no two scripts run at once, connections and the allow line are
\* there at most once, whatever failed half way (set -e).
THEOREM NoDuplicatesHolds == Spec => []NoDuplicates
<1>1. OneAtATimeInv => NoDuplicates
  BY DEF OneAtATimeInv, NoDuplicates, Single
<1> QED
  BY <1>1, InitTypes, NextTypes, InitOneAtATime, NextOneAtATime, PTL DEF Spec

-----------------------------------------------------------------------------
(***************************************************************************)
(* The gateway that is pinged.                                             *)
(***************************************************************************)
LEMMA NextPings ==
  ASSUME TypeOK, [Next]_vars, NEW t \in Scripts,
         script[t].pc = "gateway", script'[t].pc = "ping",
         \A i \in OfBridge : network.routes[i].via # NoGateway
  PROVE  \E i \in OfBridge : script'[t].gateway = network.routes[i].via
<1> DEFINE r == script[t]
<1>1. r \in Script /\ script \in [Scripts -> Script]
  BY DEF TypeOK
<1>2. CASE GatewayForBridge(t)
  <2>1. PICK i \in DOMAIN network.routes, k \in DOMAIN network.routes :
           Printed(k, i) /\ r'.gateway = network.routes[k].via
    BY <1>1, <1>2 DEF GatewayForBridge, Script
  <2>2. DOMAIN network.routes \subseteq Nat
    <3>1. network.routes \in Seq([dev : {"bridge", "other"}, via : Gateways \cup {NoGateway}])
      BY NetworksAssumption DEF Network, TypeOK
    <3> QED
      BY <3>1
  <2>3. network.routes[i].via # NoGateway /\ i \in OfBridge
    BY <2>1 DEF Printed
  <2>4. k = i
    BY <2>1, <2>2, <2>3 DEF Printed, SetIn
  <2> QED
    BY <2>1, <2>3, <2>4
<1>3. CASE ~GatewayForBridge(t)
  <2>1. ASSUME r' = r \/ r' = [r EXCEPT !.steady = FALSE]
        PROVE  FALSE
    BY <1>1, <2>1 DEF Script
  <2>2. CASE UNCHANGED vars
    BY <2>1, <2>2 DEF vars
  <2>3. CASE NetworkChanges
    BY <2>1, <2>3 DEF NetworkChanges, Unsteady
  <2>4. ASSUME NEW s \in Scripts, Step(s), s # t
        PROVE  FALSE
    BY <2>1, <2>4, Others
  <2>5. CASE Step(t)
    <3>1. Begin(t) \/ Fail(t)
      BY <1>3, <2>5 DEF Step, Show, Look, Add, Modify, MakeConf, Grep, AppendLine,
         Up, EndSetup, IsBridge, OperState, Member, DefaultRoute, Ping, Report, Test
    <3>2. ~Begin(t)
      BY DEF Begin, Busy
    <3> QED
      BY <1>1, <3>1, <3>2 DEF Fail, Script
  <2> QED
    BY <2>2, <2>3, <2>4, <2>5 DEF Next
<1> QED
  BY <1>2, <1>3

\* gateway_for_bridge gives the gateway of a default route of the bridge when
\* every default route of the bridge has one.
THEOREM PingsBridgeHolds == Spec => PingsBridge
<1>1. TypeOK /\ [Next]_vars =>
        [\A s \in Scripts :
          /\ script[s].pc = "gateway" /\ script'[s].pc = "ping"
          /\ \A i \in OfBridge : network.routes[i].via # NoGateway
          => \E i \in OfBridge : script'[s].gateway = network.routes[i].via]_vars
  BY NextPings
<1> QED
  BY <1>1, InitTypes, NextTypes, PTL DEF Spec, PingsBridge
=============================================================================
