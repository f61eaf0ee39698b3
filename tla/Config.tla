------------------------------- MODULE Config -------------------------------
(***************************************************************************)
(* normalize_config in scripts/testbed/config.py: a document is taken      *)
(* section by section, in the order of the code, and the first check that  *)
(* fails ends it with an exception.  The nodes are normalised one at a     *)
(* time, each compared with those before it.                               *)
(*                                                                         *)
(* doc[s][f] is the value of field f of section s, one section per node;   *)
(* doc.config[s] is the value of the whole section, and field "?" of a     *)
(* section stands for a key the testbed does not know.  The documents are  *)
(* those that differ from Base in at most two values.  Addresses are       *)
(* numbered from the start of the only subnet; the names, addresses and    *)
(* files of these documents are tabulated below with what the code asks of *)
(* them.                                                                   *)
(***************************************************************************)
EXTENDS Values, FiniteSets

None      == "none"
NodeNames == <<"node0", "node1", "node2">>     \* nodes[0], nodes[1], nodes[2]
MaxPort   == 65535

\* The fields of the sections that are checked alike, in the order of the code.
ExperimentChecks ==
  << <<"duration_seconds", "positive">>,
     <<"receiver_startup_seconds", "positive">>,
     <<"shutdown_timeout_seconds", "positive">>,
     <<"network_ready_timeout_seconds", "positive">>,
     <<"drain_seconds", "non-negative">> >>
WirelessChecks ==
  << <<"ssid", "string">>, <<"mode", "string">>, <<"channel", "positive int">>,
     <<"ht_cap", "string">>, <<"noise_threshold_dbm", "number">>,
     <<"fading_coefficient", "number">>, <<"propagation_model", "string">>,
     <<"propagation_exponent", "number">>, <<"interface", "string">>,
     <<"batman_bridge_loop_avoidance", "bool">>,
     <<"batman_orig_interval_ms", "positive int">> >>
NodeChecks ==
  << <<"image", "string">>, <<"memory", "string">>, <<"txpower", "number">> >>

Names(checks) == {checks[k][1] : k \in DOMAIN checks}

Fields(s) ==
  CASE s = "experiment" -> {"id"} \union Names(ExperimentChecks)
    [] s = "protocol" -> {"mode", "port", "sender", "receivers"}
    [] s = "wireless" -> {"subnet", "broadcast_ip"} \union Names(WirelessChecks)
    [] s = "binaries" -> {"sender", "receiver"}
    [] s = "capture"  -> {"filter"}
    [] s = "config"   ->
         {"experiment", "protocol", "wireless", "nodes", "binaries", "capture"}
    [] OTHER -> {"id", "container_name", "ip", "position"} \union Names(NodeChecks)

Sections == {"config", "experiment", "protocol", "wireless", "binaries",
             "capture"} \union {NodeNames[k] : k \in DOMAIN NodeNames}

\* Attributes of the texts used in the documents.
IllFormed == {"dr 1"}                     \* does not match _NODE_ID
NoDigit   == {"gcs", "dr 1"}
TooLong   == {"station010"}               \* with "-wlan0", over 15 characters
Address   ==
  [ a \in {"10.1.0.0/29", "10.1.0.1/29", "10.1.0.1", "10.1.0.2/29",
           "10.1.0.3/29", "10.1.0.7", "10.2.0.1/29"} |->
      CASE a = "10.1.0.0/29"                 -> 0
        [] a \in {"10.1.0.1/29", "10.1.0.1"} -> 1
        [] a = "10.1.0.2/29"                 -> 2
        [] a = "10.1.0.3/29"                 -> 3
        [] a = "10.1.0.7"                    -> 7
        [] a = "10.2.0.1/29"                 -> 256 ]
Subnets   == {"10.1.0.0/29", "fd00::/64"}
Network   == 0
Broadcast == 7
\* Files under the root, by the path given; a link has its target's real path.
RealPath  ==
  [ p \in {"bin/sender", "bin/receiver", "bin/notes", "bin/alias", "bin/away",
           "/usr/bin/away"} |->
      CASE p = "bin/alias" -> "bin/sender"
        [] p = "bin/away"  -> "/usr/bin/away"
        [] OTHER           -> p ]
Programs  == {"bin/sender", "bin/receiver", "/usr/bin/away"}
InBinDir  == (DOMAIN RealPath) \ {"/usr/bin/away"}

BaseNode(id, name, ip) ==
  [ id |-> Str(id), container_name |-> name, ip |-> Str(ip),
    position |-> List(<<Num(1), Num(0), Num(0)>>) ]

\* The repository's config.yml in small: the fields with a default are absent.
BaseValues ==
  [ experiment |-> [id |-> Str("exp")],
    protocol   |-> [mode |-> Str("unicast"), port |-> Num(5000),
                    sender |-> Str("dr1"), receivers |-> List(<<Str("gcs")>>)],
    wireless   |-> [subnet |-> Str("10.1.0.0/29")],
    binaries   |-> << >>,
    capture    |-> [filter |-> Str("")],
    config     |-> [s \in Fields("config") |->
                      IF s = "nodes" THEN List(<<Map, Map, Map>>) ELSE Map],
    node0      |-> BaseNode("gcs", Str("gcs0"), "10.1.0.1/29"),
    node1      |-> BaseNode("dr1", Missing, "10.1.0.2/29"),
    node2      |-> BaseNode("dr2", Missing, "10.1.0.3/29") ]

Base == [s \in Sections |-> [f \in Fields(s) \union {"?"} |->
          IF f \in DOMAIN BaseValues[s] THEN BaseValues[s][f] ELSE Missing]]

\* The other values a field may have in a document.
Alternatives(s, f) ==
  CASE f = "?" -> {Num(1)}
    [] f = "nodes"    -> {Missing, List(<< >>), List(<<Map, Null, Map>>),
                          List(<<Map, Map>>)}
    [] s = "config" /\ f \notin {"?", "nodes"} -> {Missing, Null, Str(""), Str("x")}
    [] f \in {"duration_seconds", "drain_seconds"} ->
         {Null, True, Num(0), Num(-1), Inf, NegInf, NaN, Huge, Str("5")}
    [] f = "mode" /\ s = "protocol" ->
         {Null, Str("broadcast"), Padded("broadcast"), Str("multicast")}
    [] f = "port"      -> {Missing, True, Num(0), Num(65535), Num(65536), Huge}
    [] f = "sender" /\ s = "protocol" ->
         {Missing, Padded("dr1"), Str("gcs"), Str("dr2"), Str("dr9")}
    [] f = "receivers" ->
         {Null, List(<< >>), List(<<Str("gcs"), Str("dr2")>>), List(<<Null>>),
          List(<<Str("gcs"), Padded("gcs")>>), List(<<Str("gcs"), Str("dr9")>>)}
    [] f = "subnet"    -> {Missing, Str("fd00::/64"), Str("x")}
    [] f = "broadcast_ip" -> {Null, Str("10.1.0.7"), Padded("10.1.0.7"), Str("10.1.0.1")}
    [] f = "fading_coefficient" -> {Null, NaN, Huge}
    [] f \in {"batman_bridge_loop_avoidance", "channel"} -> {Num(1), Num(0), True}
    [] s = "binaries" /\ f # "?" ->
         {Null, Str("bin/none")} \union {Str(p) : p \in DOMAIN RealPath}
    [] f = "filter"    -> {Missing, Num(0), Padded("udp")}
    [] f = "id"        -> {Null, Str("gcs"), Padded("dr1"), Str("dr 1")}
    [] f = "container_name" ->
         {Missing, Padded(""), Str("gcs"), Str("dr1"), Padded("gcs0"),
          Str("dr 1"), Str("station010")}
    [] f = "ip"        -> {Null, Str("x")} \union {Str(a) : a \in DOMAIN Address}
    [] f = "position"  -> {Missing, List(<<Num(1), Num(0)>>),
                           List(<<Num(1), Num(0), Null>>)}
    [] f \in {"txpower", "memory"} -> {Null, Inf}
    [] OTHER -> {}

Edited(d) ==
  {d} \union UNION { UNION { {[d EXCEPT ![s][f] = v] : v \in Alternatives(s, f)}
                             : f \in DOMAIN Base[s] } : s \in Sections }

VARIABLES
  pc,       \* the section at hand, then "accepted" or "rejected"
  doc,      \* the document
  nodes,    \* normalized_nodes: their ids, station names and addresses
  runs,     \* the executables' paths under CONTAINER_BIN_DIR
  error     \* what ends it: "ok" so far

vars == <<pc, doc, nodes, runs, error>>

Errors == {"ok", "ConfigError", "OverflowError"}

TypeOK ==
  /\ pc \in {"structure", "experiment", "protocol", "wireless", "node",
             "references", "binaries", "accepted", "rejected"}
  /\ Len(nodes) <= Len(NodeNames)
  /\ \A k \in DOMAIN nodes : nodes[k].address \in Network..Broadcast
  /\ DOMAIN runs \subseteq {"sender", "receiver"}
  /\ error \in Errors /\ (error # "ok" <=> pc = "rejected")

Init ==
  /\ pc = "structure" /\ \E once \in Edited(Base) : doc \in Edited(once)
  /\ nodes = << >> /\ runs = << >>
  /\ error = "ok"
-----------------------------------------------------------------------------
(* The value a section's get() finds, and the checks made on it.           *)

\* data.get(section, {}).get(field), or the node's.
Get(s, f) ==
  IF s \in DOMAIN doc.config /\ doc.config[s] # Map THEN Missing ELSE doc[s][f]

Mapping(s) == Unless(doc.config[s] \in {Missing, Map}, "ConfigError")

KnownInSections(s) ==                   \* mutant: not in the nodes
  Unless(s \in DOMAIN doc.config \union {"config"} => Get(s, "?") = Missing,
         "ConfigError")

KnownFields(s) == Unless(Get(s, "?") = Missing, "ConfigError")

\* A field with a default is checked when it is there.
Optional(v, check) == IF v = Missing THEN "ok" ELSE check

Check(kind, v) ==
  CASE kind = "string"       -> RequireString(v)
    [] kind = "bool"         -> RequireBool(v)
    [] kind = "number"       -> RequireNumber(v)
    [] kind = "positive"     -> PositiveFloat(v)
    [] kind = "non-negative" -> NonNegativeFloat(v)
    [] kind = "positive int" -> PositiveInt(v)

Scalars(s, checks) ==
  First([k \in DOMAIN checks |->
          LET v == Get(s, checks[k][1]) IN Optional(v, Check(checks[k][2], v))])

Must(condition) == Unless(condition, "ConfigError")

Name(v) == First(<<RequireString(v), Must(v.text \notin IllFormed)>>)

\* A section is done: go on, or raise.
Then(result, next) ==
  /\ error' = result
  /\ pc' = IF result = "ok" THEN next ELSE "rejected"
-----------------------------------------------------------------------------
(* The sections.                                                           *)

Structure ==
  /\ pc = "structure"
  /\ LET filter == Get("capture", "filter") IN
     Then(First(<<Mapping("experiment"), Mapping("protocol"), Mapping("wireless"),
                  KnownFields("config"), KnownFields("experiment"),
                  KnownFields("protocol"), KnownFields("wireless"),
                  Must(doc.config.capture = Map \/ Falsy(doc.config.capture)),
                  KnownFields("capture"),
                  Must(filter \in {Missing, Null} \/ filter.type = "str")>>),
          "experiment")
  /\ UNCHANGED <<doc, nodes, runs>>

Experiment ==
  /\ pc = "experiment"
  /\ Then(First(<<Name(Get("experiment", "id")),
                  Scalars("experiment", ExperimentChecks)>>), "protocol")
  /\ UNCHANGED <<doc, nodes, runs>>

Mode == LET mode == Get("protocol", "mode") IN
        IF mode = Missing THEN "unicast" ELSE mode.text
Port      == Get("protocol", "port")
Sender    == Get("protocol", "sender").text
Receivers == LET items == Get("protocol", "receivers").items
             IN  [k \in DOMAIN items |-> items[k].text]

PortBelow == Port.num < MaxPort         \* mutant

ValidPort == Port.num <= MaxPort

NoDuplicateAsWritten ==                 \* mutant: compared before strip()
  LET items == Get("protocol", "receivers").items
  IN  Cardinality({items[k] : k \in DOMAIN items}) = Len(items)

NoDuplicate == Cardinality({Receivers[k] : k \in DOMAIN Receivers}) = Len(Receivers)

Protocol ==
  /\ pc = "protocol"
  /\ LET receivers == Get("protocol", "receivers") IN
     Then(First(<<Optional(Get("protocol", "mode"), RequireString(Get("protocol", "mode"))),
                  Must(Mode \in {"unicast", "broadcast"}),
                  PositiveInt(Port), Must(ValidPort),
                  RequireString(Get("protocol", "sender")),
                  Must(receivers.type = "list"),
                  First([k \in DOMAIN receivers.items |->
                           RequireString(receivers.items[k])]),
                  Must(NoDuplicate),
                  Must(\A k \in DOMAIN Receivers : Receivers[k] # Sender),
                  Must(Mode = "unicast" => Len(Receivers) = 1),
                  Must(Mode = "broadcast" => Receivers # << >>)>>),
          "wireless")
  /\ UNCHANGED <<doc, nodes, runs>>

\* The subnet, the broadcast address if given, the other fields, and whether
\* nodes is a list with something in it.
Wireless ==
  /\ pc = "wireless"
  /\ LET subnet    == Get("wireless", "subnet")
         broadcast == Get("wireless", "broadcast_ip") IN
     Then(First(<<RequireString(subnet), Must(subnet.text \in Subnets),
                  Must(subnet.text # "fd00::/64"),
                  Must(broadcast \in {Missing, Str("10.1.0.7"), Padded("10.1.0.7")}),
                  Scalars("wireless", WirelessChecks),
                  Must(doc.config.nodes.type = "list"),
                  Must(doc.config.nodes.items # << >>)>>),
          "node")
  /\ UNCHANGED <<doc, nodes, runs>>

Current == NodeNames[Len(nodes) + 1]    \* nodes[index]
Id      == Get(Current, "id").text

Station == LET name == Get(Current, "container_name") IN
           IF name = Missing THEN Id ELSE name.text

\* ip_interface(...).ip, the prefix left out; -1 is no address.
HostAddress == LET ip == Get(Current, "ip").text IN
               IF ip \in DOMAIN Address THEN Address[ip] ELSE -1

HavingIdOnly(f, x) ==                   \* mutant: only ids are compared
  {nodes[k].id : k \in {j \in DOMAIN nodes : f = "id" /\ nodes[j].id = x}}

\* The earlier nodes that already have what the node at hand asks for.
Having(f, x) == {nodes[k].id : k \in {j \in DOMAIN nodes : nodes[j][f] = x}}

AnyAddress == HostAddress # -1          \* mutant: the subnet is not looked at

InSubnet == HostAddress \in Network..Broadcast

NodeCheck ==
  LET position == Get(Current, "position")
  IN First(<<Must(doc.config.nodes.items[Len(nodes) + 1] = Map),
             KnownFields(Current),
             Name(Get(Current, "id")),
             Must(Having("id", Id) = {}),
             Optional(Get(Current, "container_name"), Name(Get(Current, "container_name"))),
             Must(Station \notin NoDigit),
             Must(Having("station", Station) = {}),
             Must(Station \notin TooLong),
             RequireString(Get(Current, "ip")),
             Must(InSubnet),
             Must(HostAddress \notin {Network, Broadcast}),
             Must(Having("address", HostAddress) = {}),
             Must(position.type = "list" /\ Len(position.items) = 3),
             First([k \in DOMAIN position.items |-> RequireNumber(position.items[k])]),
             Scalars(Current, NodeChecks)>>)

Node ==
  /\ pc = "node"
  /\ Then(NodeCheck, IF Len(nodes) + 1 = Len(doc.config.nodes.items)
                     THEN "references" ELSE "node")
  /\ nodes' = IF error' # "ok" THEN nodes
              ELSE Append(nodes, [id |-> Id, station |-> Station, address |-> HostAddress])
  /\ UNCHANGED <<doc, runs>>

References ==
  /\ pc = "references"
  /\ Then(First(<<Must(Having("id", Sender) # {}),
                  Must(\A k \in DOMAIN Receivers : Having("id", Receivers[k]) # {})>>),
          "binaries")
  /\ UNCHANGED <<doc, nodes, runs>>

DefaultPath == [sender |-> "bin/sender", receiver |-> "bin/receiver"]

\* _executable: resolve() follows links before the file is judged and placed.
Given(role) == LET v == Get("binaries", role) IN
               IF v = Missing THEN DefaultPath[role] ELSE v.text

RealAsGiven(role) ==                    \* mutant: links are not followed
  IF Given(role) \in DOMAIN RealPath THEN Given(role) ELSE None

Real(role) == IF Given(role) \in DOMAIN RealPath THEN RealPath[Given(role)] ELSE None

Executable(role) ==
  First(<<Optional(Get("binaries", role), RequireString(Get("binaries", role))),
          Must(Real(role) # None),
          Must(Real(role) # None => RealPath[Real(role)] \in Programs),
          Must(Real(role) \in InBinDir)>>)

Binaries ==
  /\ pc = "binaries"
  /\ Then(First(<<Mapping("binaries"), KnownFields("binaries"),
                  Executable("sender"), Executable("receiver")>>), "accepted")
  /\ runs' = IF error' # "ok" THEN runs
             ELSE [role \in {"sender", "receiver"} |-> Real(role)]
  /\ UNCHANGED <<doc, nodes>>

Done == pc \in {"accepted", "rejected"} /\ UNCHANGED vars

Next == Structure \/ Experiment \/ Protocol \/ Wireless \/ Node
        \/ References \/ Binaries \/ Done

Spec == Init /\ [][Next]_vars
-----------------------------------------------------------------------------
(* What the runner makes of an accepted document.                          *)

Position(id) == CHOOSE k \in DOMAIN nodes : nodes[k].id = id

SelectDestination ==
  IF Mode = "broadcast" THEN Broadcast
  ELSE nodes[Position(Receivers[1])].address
-----------------------------------------------------------------------------
(* Properties.                                                             *)

(* Two nodes of an accepted configuration never share what must be their   *)
(* own on the network: station (container and interface) name or address,  *)
(* however it is written: with blanks, by default, with or without prefix. *)
(* Each station can be built: its name holds a digit and leaves room for   *)
(* "-wlan0", and its address is a host's.                                  *)
NodesDoNotCollide ==
  pc = "accepted" =>
    /\ Len(nodes) = Len(doc.config.nodes.items)
    /\ \A j, k \in DOMAIN nodes : j # k =>
         /\ nodes[j].id # nodes[k].id
         /\ nodes[j].station # nodes[k].station
         /\ nodes[j].address # nodes[k].address
    /\ \A k \in DOMAIN nodes :
         /\ nodes[k].station \notin NoDigit \union TooLong
         /\ nodes[k].address \in (Network + 1)..(Broadcast - 1)

(* In an accepted configuration the sender has somewhere to send to: it    *)
(* and the receivers are different nodes, each listed once, the port is a  *)
(* UDP port and no boolean, which Python counts among its integers, and    *)
(* the destination is the address of the one receiver or, in broadcast     *)
(* mode only, an address no node has.  Of the durations this says nothing: *)
(* .inf and .nan are accepted, and sleep() and communicate() raise on them *)
(* when the experiment runs.                                               *)
DestinationIsRight ==
  pc = "accepted" =>
    LET ids == {nodes[k].id : k \in DOMAIN nodes} IN
    /\ Sender \in ids /\ \A k \in DOMAIN Receivers : Receivers[k] \in ids \ {Sender}
    /\ \A j, k \in DOMAIN Receivers : Receivers[j] = Receivers[k] => j = k
    /\ Port.type # "bool" /\ Port.num \in 1..MaxPort
    /\ {id \in ids : nodes[Position(id)].address = SelectDestination} =
         (IF Mode = "unicast" THEN {Receivers[1]} ELSE {})

(* The path run in a container, which sees nothing of the host but the     *)
(* directory bin, leads there to the very file that was checked: no link   *)
(* out of bin is accepted, even to a program.                              *)
ContainerRunsWhatWasChecked ==
  pc = "accepted" =>
    \A role \in DOMAIN runs :
      /\ runs[role] \in InBinDir /\ RealPath[runs[role]] \in InBinDir \intersect Programs
      /\ RealPath[runs[role]] = RealPath[Given(role)]

\* Other ways to write Base, or values at the edge of what the fields accept.
Harmless(s, f) ==
  CASE s = "protocol" /\ f = "port"   -> {Num(65535)}
    [] s = "protocol" /\ f = "mode"   -> {Padded("broadcast"), Str("broadcast")}
    [] s = "protocol" /\ f = "sender" -> {Padded("dr1"), Str("dr2")}
    [] s = "experiment" /\ f = "drain_seconds" -> {Num(0)}
    [] s = "wireless" /\ f = "broadcast_ip"    -> {Str("10.1.0.7"), Padded("10.1.0.7")}
    [] s = "binaries" /\ f # "?"      -> {Str("bin/alias"), Str("bin/receiver")}
    [] s = "capture" /\ f = "filter"  -> {Missing, Padded("udp")}
    [] s = "config" /\ f \in {"binaries", "capture"} -> {Missing}
    [] s = "node0" /\ f = "container_name" -> {Padded("gcs0")}
    [] s = "node0" /\ f = "ip"        -> {Str("10.1.0.1")}
    [] s = "node1" /\ f = "id"        -> {Padded("dr1")}
    [] s = "node1" /\ f = "container_name" -> {Str("dr1")}
    [] OTHER                          -> {}

\* Any number of such changes.
IsHarmless(d) ==
  \A s \in Sections : \A f \in DOMAIN d[s] : d[s][f] \in {Base[s][f]} \union Harmless(s, f)

(* No document is refused that only writes the same things in another way, *)
(* or goes to the edge of what the fields accept.                          *)
HarmlessIsAccepted == IsHarmless(doc) => pc # "rejected"

(* A key the testbed does not know is never ignored, in whichever section  *)
(* it stands: "a typo never runs silently ignored".                        *)
NothingIgnored ==
  pc = "accepted" =>
    \A s \in Sections \ {NodeNames[k] : k \in (Len(nodes) + 1)..3} : Get(s, "?") = Missing
=============================================================================
