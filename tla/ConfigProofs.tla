---------------------------- MODULE ConfigProofs ----------------------------
(***************************************************************************)
(* Proofs about Config, for any document of at most three nodes: the runs  *)
(* take the documents at most two edits away from config.yml in small, the *)
(* theorems take any whose lists are lists and whose port has a number.    *)
(*                                                                         *)
(* The invariant says what each section, once it is done, has left true of *)
(* the document and of the nodes taken so far; each lemma <Section>Keeps   *)
(* takes First apart into the checks of that section.  The second part     *)
(* goes the other way: a document that differs from config.yml in small    *)
(* only harmlessly has sections that all pass (<Section>Passes).           *)
(***************************************************************************)
EXTENDS Config, FiniteSetTheorems, WellFoundedInduction, TLAPS

IsList(items) == \E S : items \in Seq(S)

NodeSections == {"node0", "node1", "node2"}

\* A document of any values: the port has a number, the items of receivers, nodes
\* and positions make lists, and the model has a section for each node.
IsDocument(d) ==
  /\ DOMAIN d = Sections
  /\ \A s \in Sections : DOMAIN d[s] = Fields(s) \union {"?"}
  /\ d.protocol.port.num \in Int
  /\ IsList(d.protocol.receivers.items)
  /\ IsList(d.config.nodes.items)
  /\ Len(d.config.nodes.items) <= Len(NodeNames)
  /\ \A s \in NodeSections : IsList(d[s].position.items)

\* The first exception is one of the checks', and there is none if all pass.
LEMMA FirstIs ==
  ASSUME NEW checks, DOMAIN checks \subseteq Nat
  PROVE  \/ First(checks) = "ok" /\ \A k \in DOMAIN checks : checks[k] = "ok"
         \/ \E k \in DOMAIN checks : First(checks) = checks[k] /\ checks[k] # "ok"
<1> DEFINE bad == {k \in DOMAIN checks : checks[k] # "ok"}
<1>1. CASE bad = {}
  BY <1>1 DEF First
<1>2. CASE bad # {}
  <2>1. \E k \in bad : \A j \in bad : k <= j
    <3> DEFINE R == OpToRel(<, Nat)
    <3>1. IsWellFoundedOn(R, Nat)
      BY NatLessThanWellFounded, Zenon
    <3>2. \A j, k \in Nat : <<j, k>> \notin R => k <= j
      BY DEF OpToRel
    <3> HIDE DEF R
    <3>3. \E k \in bad : \A j \in bad : <<j, k>> \notin R
      BY <1>2, <3>1, WFMin, Zenon
    <3> QED
      BY <3>2, <3>3
  <2>2. First(checks) = checks[CHOOSE k \in bad : \A j \in bad : k <= j]
    BY <1>2 DEF First
  <2> QED
    BY <2>1, <2>2
<1> QED
  BY <1>1, <1>2

\* A Must that raises nothing held.
LEMMA MustHold == ASSUME NEW condition, Must(condition) = "ok" PROVE condition
  BY DEF Must, Unless

\* What an edit may put in the fields that IsDocument speaks of.
LEMMA PortsAre ==
  ASSUME NEW v \in Alternatives("protocol", "port") PROVE v.num \in Int
<1>1. v \in {Missing, True, Num(0), Num(65535), Num(65536), Huge}
  BY DEF Alternatives
<1>2. \A n \in Int : Num(n).num \in Int
  BY DEF Num, Value
<1>3. Missing.num \in Int /\ True.num \in Int
  BY DEF Missing, True, Value
<1>4. Huge.num \in Int
  BY SMT DEF Huge, Value
<1> QED
  BY <1>1, <1>2, <1>3, <1>4, SMT

\* The items that the documents are made of.
LEMMA ListsAre ==
  /\ \A x : List(x).items = x
  /\ Null.items = << >> /\ Missing.items = << >>
  /\ IsList(<< >>) /\ Len(<< >>) <= 3
  /\ \A x : IsList(<<x>>)
  /\ \A x, y : IsList(<<x, y>>) /\ Len(<<x, y>>) <= 3
  /\ \A x, y, z : IsList(<<x, y, z>>) /\ Len(<<x, y, z>>) <= 3
<1>1. \A x : List(x).items = x
  BY DEF List, Value
<1>2. Null.items = << >> /\ Missing.items = << >>
  BY DEF Null, Missing, Value
<1>3. /\ << >> \in Seq({}) /\ Len(<< >>) <= 3
      /\ \A x : <<x>> \in Seq({x})
  OBVIOUS
<1>4. \A x, y : <<x, y>> \in Seq({x, y}) /\ Len(<<x, y>>) <= 3
  OBVIOUS
<1>5. \A x, y, z : <<x, y, z>> \in Seq({x, y, z}) /\ Len(<<x, y, z>>) <= 3
  OBVIOUS
<1> QED
  BY <1>1, <1>2, <1>3, <1>4, <1>5, Zenon DEF IsList

\* What an edit may put in receivers.
LEMMA ReceiversAre ==
  ASSUME NEW v \in Alternatives("protocol", "receivers") PROVE IsList(v.items)
<1>1. v \in {Null, List(<< >>), List(<<Str("gcs"), Str("dr2")>>), List(<<Null>>),
             List(<<Str("gcs"), Padded("gcs")>>), List(<<Str("gcs"), Str("dr9")>>)}
  BY DEF Alternatives
<1> QED
  BY <1>1, ListsAre, Zenon

\* What an edit may put in nodes.
LEMMA NodesAre ==
  ASSUME NEW v \in Alternatives("config", "nodes")
  PROVE  IsList(v.items) /\ Len(v.items) <= 3
<1>1. v \in {Missing, List(<< >>), List(<<Map, Null, Map>>), List(<<Map, Map>>)}
  BY SMT DEF Alternatives
<1>2. v.items \in {<< >>, <<Map, Null, Map>>, <<Map, Map>>}
  BY <1>1, ListsAre, Zenon
<1>3. CASE v.items = << >>
  BY <1>3, ListsAre, Zenon
<1>4. CASE v.items = <<Map, Null, Map>>
  BY <1>4, ListsAre, Zenon
<1>5. CASE v.items = <<Map, Map>>
  BY <1>5, ListsAre, Zenon
<1> QED
  BY <1>2, <1>3, <1>4, <1>5, Zenon

\* What an edit may put in a node's position.
LEMMA PositionsAre ==
  ASSUME NEW s \in NodeSections, NEW v \in Alternatives(s, "position")
  PROVE  IsList(v.items)
<1>1. v \in {Missing, List(<<Num(1), Num(0)>>), List(<<Num(1), Num(0), Null>>)}
  BY SMT DEF Alternatives, NodeSections
<1>2. v.items \in {<< >>, <<Num(1), Num(0)>>, <<Num(1), Num(0), Null>>}
  BY <1>1, ListsAre, Zenon
<1>3. \A x, y : /\ v.items = << >> => IsList(v.items)
                /\ v.items = <<x, y>> => IsList(v.items)
  BY ListsAre, Zenon
<1>4. \A x, y, z : v.items = <<x, y, z>> => IsList(v.items)
  BY ListsAre, Zenon
<1> QED
  BY <1>2, <1>3, <1>4, Zenon

\* An edit of a document gives a document.
LEMMA ShapeIsKept ==
  ASSUME NEW d, IsDocument(d), NEW e \in Edited(d) PROVE IsDocument(e)
<1>1. CASE e = d
  BY <1>1
<1>2. ASSUME NEW s \in Sections, NEW f \in DOMAIN Base[s],
             NEW v \in Alternatives(s, f), e = [d EXCEPT ![s][f] = v]
      PROVE  IsDocument(e)
  <2>1. /\ {"config", "protocol"} \subseteq Sections
        /\ {"port", "receivers"} \subseteq Fields("protocol")
        /\ "nodes" \in Fields("config")
        /\ NodeSections \subseteq Sections
        /\ \A t \in NodeSections : "position" \in Fields(t)
    BY DEF Sections, Fields, NodeSections, NodeNames
  <2>2. DOMAIN e = Sections /\ \A t \in Sections : DOMAIN e[t] = Fields(t) \union {"?"}
    BY <1>2 DEF IsDocument
  <2>3. \A t \in Sections : \A g \in Fields(t) :
          e[t][g] = IF t = s /\ g = f THEN v ELSE d[t][g]
    BY <1>2 DEF IsDocument
  <2>4. s = "protocol" /\ f = "port" => v.num \in Int
    BY PortsAre
  <2>5. s = "protocol" /\ f = "receivers" => IsList(v.items)
    BY ReceiversAre
  <2>6. s = "config" /\ f = "nodes" => IsList(v.items) /\ Len(v.items) <= 3
    BY NodesAre
  <2>7. s \in NodeSections /\ f = "position" => IsList(v.items)
    BY PositionsAre
  <2> QED
    BY <2>1, <2>2, <2>3, <2>4, <2>5, <2>6, <2>7 DEF IsDocument, NodeNames
<1> QED
  BY <1>1, <1>2 DEF Edited

\* The port of config.yml is a number.
LEMMA BasePort == BaseValues.protocol.port.num \in Int
<1>1. BaseValues.protocol.port = Num(5000)
  BY Zenon DEF BaseValues
<1>2. \A n \in Int : Num(n).num \in Int
  BY DEF Num, Value
<1>3. 5000 \in Int
  BY SMT
<1>4. Num(5000).num \in Int
  BY <1>2, <1>3, SMTT(60)
<1> QED
  BY <1>1, <1>4

\* config.yml in small is a document.
LEMMA BaseIsDocument == IsDocument(Base)
<1>1. /\ DOMAIN Base = Sections
      /\ \A s \in Sections : DOMAIN Base[s] = Fields(s) \union {"?"}
  BY DEF Base
<1>2. \A s \in Sections : \A f \in Fields(s) :
        f \in DOMAIN BaseValues[s] => Base[s][f] = BaseValues[s][f]
  BY DEF Base
<1>3. Base.config.nodes = List(<<Map, Map, Map>>)
  BY DEF Base, BaseValues, Fields, Sections
<1>4. Base.protocol.port = BaseValues.protocol.port
  <2>1. "port" \in DOMAIN BaseValues.protocol
    BY Zenon DEF BaseValues
  <2>2. "protocol" \in Sections /\ "port" \in Fields("protocol")
    BY DEF Sections, Fields
  <2> QED
    BY <1>2, <2>1, <2>2
<1>5. Base.protocol.receivers = List(<<Str("gcs")>>)
  BY DEF Base, BaseValues, Fields, Sections
<1>6. IsList(Base.protocol.receivers.items)
  BY <1>5, ListsAre, Zenon
<1>7. IsList(Base.config.nodes.items) /\ Len(Base.config.nodes.items) <= 3
  <2>1. Base.config.nodes.items = <<Map, Map, Map>>
    BY <1>3, ListsAre, Zenon
  <2> QED
    BY <2>1, ListsAre, SMT
<1>8. ASSUME NEW s \in NodeSections PROVE IsList(Base[s].position.items)
  <2>1. s \in Sections /\ "position" \in Fields(s)
    BY DEF Sections, Fields, NodeSections, NodeNames
  <2>2. \E id, name, ip : BaseValues[s] = BaseNode(id, name, ip)
    <3>1. /\ BaseValues["node0"] = BaseNode("gcs", Str("gcs0"), "10.1.0.1/29")
          /\ BaseValues["node1"] = BaseNode("dr1", Missing, "10.1.0.2/29")
          /\ BaseValues["node2"] = BaseNode("dr2", Missing, "10.1.0.3/29")
      BY Zenon DEF BaseValues
    <3> QED
      BY <3>1, Zenon DEF NodeSections
  <2>3. \A id, name, ip : /\ "position" \in DOMAIN BaseNode(id, name, ip)
                         /\ \E x, y, z : BaseNode(id, name, ip).position = List(<<x, y, z>>)
    BY Zenon DEF BaseNode
  <2>4. \E x, y, z : Base[s].position = List(<<x, y, z>>)
    <3>1. /\ "position" \in DOMAIN BaseValues[s]
          /\ \E x, y, z : BaseValues[s].position = List(<<x, y, z>>)
      <4>1. PICK id, name, ip : BaseValues[s] = BaseNode(id, name, ip)
        BY <2>2
      <4>2. /\ "position" \in DOMAIN BaseNode(id, name, ip)
            /\ \E x, y, z : BaseNode(id, name, ip).position = List(<<x, y, z>>)
        BY <2>3, Zenon
      <4> QED
        BY <4>1, <4>2, Zenon
    <3> QED
      BY <1>2, <2>1, <3>1
  <2>5. PICK x, y, z : Base[s].position = List(<<x, y, z>>)
    BY <2>4
  <2>6. Base[s].position.items = <<x, y, z>>
    BY <2>5, ListsAre, Zenon
  <2>7. IsList(<<x, y, z>>)
    BY ListsAre, Zenon
  <2> QED
    BY <2>6, <2>7, Zenon
<1> QED
  BY <1>1, <1>4, <1>6, <1>7, <1>8, BasePort DEF IsDocument, NodeNames

\* The documents the runs start from are documents.
LEMMA InitIsDocument == ASSUME Init PROVE IsDocument(doc)
  BY BaseIsDocument, ShapeIsKept DEF Init
-----------------------------------------------------------------------------
\* Checks that raise nothing all passed.
LEMMA FirstIsOk ==
  ASSUME NEW checks, DOMAIN checks \subseteq Nat, First(checks) = "ok"
  PROVE  \A k \in DOMAIN checks : checks[k] = "ok"
  BY FirstIs

\* Checks that raise only the exceptions of Errors do so in sequence.
LEMMA FirstIsError ==
  ASSUME NEW checks, DOMAIN checks \subseteq Nat,
         \A k \in DOMAIN checks : checks[k] \in Errors
  PROVE  First(checks) \in Errors
  BY FirstIs DEF Errors

\* Each check on a value raises one of Errors, or nothing.
LEMMA ChecksAreErrors ==
  /\ \A c : Must(c) \in Errors
  /\ \A s : Mapping(s) \in Errors /\ KnownFields(s) \in Errors
  /\ \A v : /\ RequireString(v) \in Errors /\ RequireBool(v) \in Errors
            /\ RequireNumber(v) \in Errors /\ PositiveInt(v) \in Errors
            /\ PositiveFloat(v) \in Errors /\ NonNegativeFloat(v) \in Errors
            /\ Name(v) \in Errors
<1>1. \A c, e : e \in Errors => Unless(c, e) \in Errors
  BY DEF Unless, Errors
<1>2. {"ConfigError", "OverflowError"} \subseteq Errors
  BY DEF Errors
<1>3. \A c : Must(c) \in Errors
  BY <1>1, <1>2 DEF Must
<1>4. \A s : Mapping(s) \in Errors /\ KnownFields(s) \in Errors
  BY <1>1, <1>2 DEF Mapping, KnownFields
<1>5. \A v : /\ RequireString(v) \in Errors /\ RequireBool(v) \in Errors
             /\ RequireNumber(v) \in Errors /\ PositiveInt(v) \in Errors
  BY <1>1, <1>2 DEF RequireString, RequireBool, RequireNumber, PositiveInt
<1>6. \A a, b : a \in Errors /\ b \in Errors => First(<<a, b>>) \in Errors
  <2> TAKE a, b
  <2> HAVE a \in Errors /\ b \in Errors
  <2>1. /\ DOMAIN <<a, b>> \subseteq Nat
        /\ \A k \in DOMAIN <<a, b>> : <<a, b>>[k] \in Errors
    OBVIOUS
  <2> QED
    BY <2>1, FirstIsError
<1>7. \A v : /\ PositiveFloat(v) \in Errors /\ NonNegativeFloat(v) \in Errors
             /\ Name(v) \in Errors
  BY <1>1, <1>2, <1>3, <1>5, <1>6 DEF PositiveFloat, NonNegativeFloat, Name
<1> QED
  BY <1>3, <1>4, <1>5, <1>7

\* The kinds of check that the tables ask for.
Kinds == {"string", "bool", "number", "positive", "non-negative", "positive int"}

IsTable(checks) ==
  DOMAIN checks \subseteq Nat /\ \A k \in DOMAIN checks : checks[k][2] \in Kinds

\* The tables ask for checks that there are.
LEMMA TablesAre ==
  IsTable(ExperimentChecks) /\ IsTable(WirelessChecks) /\ IsTable(NodeChecks)
<1>1. IsTable(ExperimentChecks)
  <2>1. DOMAIN ExperimentChecks = 1..5
    BY DEF ExperimentChecks
  <2>2. \A k \in 1..5 : ExperimentChecks[k][2] \in Kinds
    <3>1. /\ ExperimentChecks[1][2] = "positive"
        /\ ExperimentChecks[2][2] = "positive"
        /\ ExperimentChecks[3][2] = "positive"
        /\ ExperimentChecks[4][2] = "positive"
        /\ ExperimentChecks[5][2] = "non-negative"
      BY DEF ExperimentChecks
    <3>2. \A k \in 1..5 : k = 1 \/ k = 2 \/ k = 3 \/ k = 4 \/ k = 5
      OBVIOUS
    <3> QED
      BY <3>1, <3>2, Zenon DEF Kinds
  <2> QED
    BY <2>1, <2>2 DEF IsTable
<1>2. IsTable(WirelessChecks)
  <2>1. DOMAIN WirelessChecks = 1..11
    BY DEF WirelessChecks
  <2>2. \A k \in 1..11 : WirelessChecks[k][2] \in Kinds
    <3>1. /\ WirelessChecks[1][2] = "string"
        /\ WirelessChecks[2][2] = "string"
        /\ WirelessChecks[3][2] = "positive int"
        /\ WirelessChecks[4][2] = "string"
        /\ WirelessChecks[5][2] = "number"
        /\ WirelessChecks[6][2] = "number"
        /\ WirelessChecks[7][2] = "string"
        /\ WirelessChecks[8][2] = "number"
        /\ WirelessChecks[9][2] = "string"
        /\ WirelessChecks[10][2] = "bool"
        /\ WirelessChecks[11][2] = "positive int"
      BY DEF WirelessChecks
    <3>2. \A k \in 1..11 : k = 1 \/ k = 2 \/ k = 3 \/ k = 4 \/ k = 5 \/ k = 6
                             \/ k = 7 \/ k = 8 \/ k = 9 \/ k = 10 \/ k = 11
      OBVIOUS
    <3> QED
      BY <3>1, <3>2, Zenon DEF Kinds
  <2> QED
    BY <2>1, <2>2 DEF IsTable
<1>3. IsTable(NodeChecks)
  <2>1. DOMAIN NodeChecks = 1..3
    BY DEF NodeChecks
  <2>2. \A k \in 1..3 : NodeChecks[k][2] \in Kinds
    <3>1. /\ NodeChecks[1][2] = "string"
        /\ NodeChecks[2][2] = "string"
        /\ NodeChecks[3][2] = "number"
      BY DEF NodeChecks
    <3>2. \A k \in 1..3 : k = 1 \/ k = 2 \/ k = 3
      OBVIOUS
    <3> QED
      BY <3>1, <3>2, Zenon DEF Kinds
  <2> QED
    BY <2>1, <2>2 DEF IsTable
<1> QED
  BY <1>1, <1>2, <1>3

\* A table of checks raises one of Errors, or nothing.
LEMMA ScalarsAreErrors ==
  ASSUME NEW s, NEW checks, IsTable(checks) PROVE Scalars(s, checks) \in Errors
<1>1. \A v, c : c \in Errors => Optional(v, c) \in Errors
  BY DEF Optional, Errors
<1>2. \A kind \in Kinds : \A v : Check(kind, v) \in Errors
  BY ChecksAreErrors DEF Kinds, Check
<1> DEFINE all == [k \in DOMAIN checks |->
                    LET v == Get(s, checks[k][1]) IN Optional(v, Check(checks[k][2], v))]
<1>3. \A k \in DOMAIN all : all[k] \in Errors
  BY <1>1, <1>2 DEF IsTable
<1>4. DOMAIN all \subseteq Nat
  BY DEF IsTable
<1>5. First(all) \in Errors
  <2> HIDE DEF all
  <2> QED
    BY <1>3, <1>4, FirstIsError
<1> QED
  BY <1>5 DEF Scalars
-----------------------------------------------------------------------------
\* The sections whose keys Structure has looked at.
TopSections == {"config", "experiment", "protocol", "wireless", "capture"}

AfterStructure == {"experiment", "protocol", "wireless", "node", "references",
                   "binaries", "accepted"}
AfterProtocol  == {"wireless", "node", "references", "binaries", "accepted"}
AfterNodes     == {"references", "binaries", "accepted"}

\* The normalised nodes are a list, complete once the last has been taken.
Counted ==
  /\ nodes \in Seq({nodes[k] : k \in DOMAIN nodes})
  /\ pc = "node" => Len(nodes) < Len(doc.config.nodes.items)
  /\ pc \in AfterNodes => Len(nodes) = Len(doc.config.nodes.items)
  /\ pc \in {"structure", "experiment", "protocol", "wireless"} => nodes = << >>
  /\ Len(nodes) <= Len(doc.config.nodes.items)

\* The nodes taken so far are apart from one another, and each can be built.
Apart ==
  /\ \A j, k \in DOMAIN nodes : j # k =>
       /\ nodes[j].id # nodes[k].id
       /\ nodes[j].station # nodes[k].station
       /\ nodes[j].address # nodes[k].address
  /\ \A k \in DOMAIN nodes :
       /\ nodes[k].station \notin NoDigit \union TooLong
       /\ nodes[k].address \in (Network + 1)..(Broadcast - 1)

\* No section looked at has an unknown key.
Known ==
  /\ pc \in AfterStructure => \A s \in TopSections : Get(s, "?") = Missing
  /\ \A k \in DOMAIN nodes : Get(NodeNames[k], "?") = Missing
  /\ pc = "accepted" => Get("binaries", "?") = Missing

\* What Protocol has checked.
Runnable ==
  pc \in AfterProtocol =>
    /\ Mode \in {"unicast", "broadcast"}
    /\ Port.type # "bool" /\ Port.num \in 1..MaxPort
    /\ \A j, k \in DOMAIN Receivers : Receivers[j] = Receivers[k] => j = k
    /\ \A k \in DOMAIN Receivers : Receivers[k] # Sender
    /\ Mode = "unicast" => 1 \in DOMAIN Receivers

\* What References has checked.
Named ==
  pc \in {"binaries", "accepted"} =>
    LET ids == {nodes[k].id : k \in DOMAIN nodes} IN
    Sender \in ids /\ \A k \in DOMAIN Receivers : Receivers[k] \in ids

\* What Binaries has checked of the path it stores.
Placed ==
  /\ pc = "accepted" =>
       /\ runs = [role \in {"sender", "receiver"} |-> Real(role)]
       /\ \A role \in {"sender", "receiver"} :
            /\ Given(role) \in DOMAIN RealPath
            /\ Real(role) \in InBinDir /\ RealPath[Real(role)] \in Programs
  /\ DOMAIN runs \subseteq {"sender", "receiver"}

Progress ==
  /\ pc \in {"structure", "experiment", "protocol", "wireless", "node",
             "references", "binaries", "accepted", "rejected"}
  /\ error \in Errors /\ (error # "ok" <=> pc = "rejected")

CInv == /\ Progress /\ Counted /\ Apart /\ Known /\ Runnable /\ Named /\ Placed

\* A check that passes goes on, one that fails ends the normalisation.
LEMMA ThenIs ==
  ASSUME NEW r \in Errors, NEW next, Then(r, next)
  PROVE  \/ r = "ok" /\ error' = "ok" /\ pc' = next
         \/ r # "ok" /\ error' = r /\ pc' = "rejected"
  BY DEF Then

\* What is read of the document changes only with it.
LEMMA SameDocument ==
  ASSUME doc' = doc
  PROVE  /\ \A s, f : Get(s, f)' = Get(s, f)
         /\ Mode' = Mode /\ Port' = Port /\ Sender' = Sender /\ Receivers' = Receivers
         /\ \A role : Given(role)' = Given(role) /\ Real(role)' = Real(role)
<1>1. \A s, f : Get(s, f)' = Get(s, f)
  BY DEF Get
<1>2. \A role : Given(role)' = Given(role)
  BY <1>1 DEF Given
<1>3. \A role : Real(role)' = Real(role)
  BY <1>2 DEF Real
<1>4. Mode' = Mode /\ Port' = Port /\ Sender' = Sender /\ Receivers' = Receivers
  BY <1>1 DEF Mode, Port, Sender, Receivers
<1> QED
  BY <1>1, <1>2, <1>3, <1>4

\* A check that fails keeps what was known, and no more is claimed.
LEMMA RejectionKeeps ==
  ASSUME CInv, UNCHANGED <<doc, nodes, runs>>,
         pc' = "rejected", error' \in Errors, error' # "ok"
  PROVE  CInv'
<1>1. Progress'
  BY DEF Progress
<1>2. Counted'
  BY DEF CInv, Counted, AfterNodes
<1>3. Apart'
  BY DEF CInv, Apart
<1>4. Known'
  BY SameDocument DEF CInv, Known, AfterStructure
<1>5. Runnable' /\ Named'
  BY DEF Runnable, Named, AfterProtocol
<1>6. Placed'
  BY DEF CInv, Placed
<1> QED
  BY <1>1, <1>2, <1>3, <1>4, <1>5, <1>6 DEF CInv

\* The unknown keys of the five sections are refused.
LEMMA StructureKeeps == ASSUME CInv, Structure PROVE CInv'
<1> DEFINE filter == Get("capture", "filter")
           checks == <<Mapping("experiment"), Mapping("protocol"), Mapping("wireless"),
                       KnownFields("config"), KnownFields("experiment"),
                       KnownFields("protocol"), KnownFields("wireless"),
                       Must(doc.config.capture = Map \/ Falsy(doc.config.capture)),
                       KnownFields("capture"),
                       Must(filter \in {Missing, Null} \/ filter.type = "str")>>
<1>1. /\ pc = "structure" /\ Then(First(checks), "experiment")
      /\ UNCHANGED <<doc, nodes, runs>>
  BY DEF Structure
<1>2. \A k \in 1..10 : checks[k] \in Errors
  BY ChecksAreErrors
<1>3. DOMAIN checks = 1..10
  OBVIOUS
<1>4. First(checks) \in Errors
  <2> HIDE DEF checks
  <2> QED
    BY <1>2, <1>3, FirstIsError
<1>5. CASE First(checks) # "ok"
  BY <1>1, <1>4, <1>5, ThenIs, RejectionKeeps
<1>6. CASE First(checks) = "ok"
  <2>1. \A k \in 1..10 : checks[k] = "ok"
    <3> HIDE DEF checks
    <3> QED
      BY <1>3, <1>6, FirstIsOk
  <2>2. \A s \in TopSections : KnownFields(s) = "ok"
    BY <2>1 DEF TopSections
  <2>3. \A s \in TopSections : Get(s, "?") = Missing
    BY <2>2 DEF KnownFields, Unless
  <2>4. pc' = "experiment" /\ error' = "ok"
    <3> HIDE DEF checks
    <3> QED
      BY <1>1, <1>4, <1>6, ThenIs
  <2>5. Progress'
    BY <2>4 DEF Progress, Errors
  <2>6. Counted'
    BY <1>1, <2>4 DEF CInv, Counted, AfterNodes
  <2>7. Apart'
    BY <1>1 DEF CInv, Apart
  <2>8. Known'
    BY <1>1, <2>3, <2>4, SameDocument DEF CInv, Known
  <2>9. Runnable' /\ Named'
    BY <2>4 DEF Runnable, Named, AfterProtocol
  <2>10. Placed'
    BY <1>1, <2>4 DEF CInv, Placed
  <2> QED
    BY <2>5, <2>6, <2>7, <2>8, <2>9, <2>10 DEF CInv
<1> QED
  BY <1>5, <1>6

\* The experiment section is checked, and nothing else is claimed.
LEMMA ExperimentKeeps == ASSUME CInv, Experiment PROVE CInv'
<1> DEFINE checks == <<Name(Get("experiment", "id")),
                       Scalars("experiment", ExperimentChecks)>>
<1>1. /\ pc = "experiment" /\ Then(First(checks), "protocol")
      /\ UNCHANGED <<doc, nodes, runs>>
  BY DEF Experiment
<1>2. \A k \in 1..2 : checks[k] \in Errors
  BY ChecksAreErrors, ScalarsAreErrors, TablesAre
<1>3. DOMAIN checks = 1..2
  OBVIOUS
<1> HIDE DEF checks
<1>4. First(checks) \in Errors
  BY <1>2, <1>3, FirstIsError
<1>5. CASE First(checks) # "ok"
  BY <1>1, <1>4, <1>5, ThenIs, RejectionKeeps
<1>6. CASE First(checks) = "ok"
  <2>1. pc' = "protocol" /\ error' = "ok"
    BY <1>1, <1>4, <1>6, ThenIs
  <2>2. Progress' /\ Runnable' /\ Named'
    BY <2>1 DEF Progress, Errors, Runnable, Named, AfterProtocol
  <2>3. Counted' /\ Apart'
    BY <1>1, <2>1 DEF CInv, Counted, AfterNodes, Apart
  <2>4. Known'
    BY <1>1, <2>1, SameDocument DEF CInv, Known, AfterStructure
  <2>5. Placed'
    BY <1>1, <2>1 DEF CInv, Placed
  <2> QED
    BY <2>2, <2>3, <2>4, <2>5 DEF CInv
<1> QED
  BY <1>5, <1>6

\* A list with no duplicate: as many members as places.
LEMMA NoDuplicateMeansApart ==
  ASSUME NEW s, IsList(s), Cardinality({s[k] : k \in DOMAIN s}) = Len(s)
  PROVE  \A j, k \in DOMAIN s : s[j] = s[k] => j = k
<1> DEFINE T == {s[k] : k \in DOMAIN s}
<1>1. Len(s) \in Nat /\ DOMAIN s = 1..Len(s) /\ s = [k \in 1..Len(s) |-> s[k]]
  BY DEF IsList
<1>2. IsFiniteSet(1..Len(s)) /\ Cardinality(1..Len(s)) = Len(s)
  <2>1. \A n \in Int : /\ IsFiniteSet(1..n)
                      /\ Cardinality(1..n) = IF 1 > n THEN 0 ELSE n - 1 + 1
    BY FS_Interval, SMT
  <2>2. \A n \in Nat : IsFiniteSet(1..n) /\ Cardinality(1..n) = n
    BY <2>1, SMT
  <2> QED
    BY <1>1, <2>2
<1>3. s \in Surjection(1..Len(s), T)
  BY <1>1 DEF Surjection
<1>4. /\ IsFiniteSet(T)
      /\ Cardinality(T) = Cardinality(1..Len(s)) <=> s \in Injection(1..Len(s), T)
  BY <1>2, <1>3, FS_Surjection
<1> QED
  BY <1>1, <1>2, <1>4 DEF Injection, IsInjective

\* The receivers are a list.
LEMMA ReceiversList == ASSUME IsDocument(doc) PROVE IsList(Receivers)
<1>1. IsList(Get("protocol", "receivers").items)
  BY ListsAre DEF Get, IsDocument
<1> DEFINE items == Get("protocol", "receivers").items
<1>2. PICK S : items \in Seq(S)
  BY <1>1 DEF IsList
<1>3. Receivers = [k \in DOMAIN items |-> items[k].text]
  BY DEF Receivers
<1> HIDE DEF items
<1>4. Len(items) \in Nat /\ DOMAIN items = 1..Len(items)
  BY <1>2
<1>5. Receivers \in Seq({items[k].text : k \in DOMAIN items})
  BY <1>3, <1>4
<1> QED
  BY <1>5 DEF IsList

\* The largest port is a number.
LEMMA MaxPortIs == MaxPort \in Nat
  BY SMT DEF MaxPort

\* The protocol section is left only when the runner can execute it.
LEMMA ProtocolKeeps == ASSUME IsDocument(doc), CInv, Protocol PROVE CInv'
<1> DEFINE receivers == Get("protocol", "receivers")
           mode   == Optional(Get("protocol", "mode"),
                              RequireString(Get("protocol", "mode")))
           known  == Must(Mode \in {"unicast", "broadcast"})
           port   == PositiveInt(Port)
           bound  == Must(ValidPort)
           sender == RequireString(Get("protocol", "sender"))
           list   == Must(receivers.type = "list")
           items  == First([k \in DOMAIN receivers.items |->
                              RequireString(receivers.items[k])])
           once   == Must(NoDuplicate)
           other  == Must(\A k \in DOMAIN Receivers : Receivers[k] # Sender)
           one    == Must(Mode = "unicast" => Len(Receivers) = 1)
           some   == Must(Mode = "broadcast" => Receivers # << >>)
           checks == <<mode, known, port, bound, sender, list, items, once,
                       other, one, some>>
<1>1. /\ pc = "protocol" /\ Then(First(checks), "wireless")
      /\ UNCHANGED <<doc, nodes, runs>>
  BY DEF Protocol
<1>2. Port.num \in Int /\ IsList(receivers.items)
  BY ListsAre DEF Port, Get, IsDocument, Missing, Value
<1>3. items \in Errors
  <2> DEFINE all == [k \in DOMAIN receivers.items |-> RequireString(receivers.items[k])]
  <2>1. DOMAIN all \subseteq Nat
    BY <1>2 DEF IsList
  <2>2. \A k \in DOMAIN all : all[k] \in Errors
    BY ChecksAreErrors
  <2> HIDE DEF all
  <2>3. First(all) \in Errors
    BY <2>1, <2>2, FirstIsError
  <2> QED
    BY <2>3 DEF all
<1>4. /\ mode \in Errors /\ port \in Errors /\ sender \in Errors
      /\ {known, bound, list, once, other, one, some} \subseteq Errors
  <2>1. \A v, c : c \in Errors => Optional(v, c) \in Errors
    BY DEF Optional, Errors
  <2>2. mode \in Errors
    BY <2>1, ChecksAreErrors
  <2>3. port \in Errors /\ sender \in Errors
    BY ChecksAreErrors
  <2>4. known \in Errors /\ bound \in Errors /\ list \in Errors /\ once \in Errors
    BY DEF Must, Unless, Errors
  <2>5. other \in Errors /\ one \in Errors /\ some \in Errors
    BY DEF Must, Unless, Errors
  <2> QED
    BY <2>2, <2>3, <2>4, <2>5
<1>5. /\ port = "ok" /\ bound = "ok" => Port.type # "bool" /\ Port.num \in 1..MaxPort
      /\ once = "ok" => NoDuplicate
      /\ known = "ok" => Mode \in {"unicast", "broadcast"}
      /\ other = "ok" => \A k \in DOMAIN Receivers : Receivers[k] # Sender
      /\ one = "ok" => (Mode = "unicast" => Len(Receivers) = 1)
  <2>1. PositiveInt(Port) = "ok" => Port.type # "bool" /\ Port.num > 0
    BY DEF PositiveInt, Unless
  <2>2. Must(ValidPort) = "ok" => Port.num <= MaxPort
    BY SMT DEF ValidPort, Must, Unless
  <2>3. Port.num > 0 /\ Port.num <= MaxPort => Port.num \in 1..MaxPort
    BY <1>2, MaxPortIs
  <2>4. port = "ok" /\ bound = "ok" => Port.type # "bool" /\ Port.num \in 1..MaxPort
    BY <2>1, <2>2, <2>3
  <2>5. once = "ok" => NoDuplicate
    BY DEF Must, Unless
  <2>6. known = "ok" => Mode \in {"unicast", "broadcast"}
    BY DEF Must, Unless
  <2>7. other = "ok" => \A k \in DOMAIN Receivers : Receivers[k] # Sender
    BY DEF Must, Unless
  <2>8. one = "ok" => (Mode = "unicast" => Len(Receivers) = 1)
    BY DEF Must, Unless
  <2> QED
    BY <2>4, <2>5, <2>6, <2>7, <2>8
<1> HIDE DEF mode, known, port, bound, sender, list, items, once, other, one, some
<1>6. /\ DOMAIN checks = 1..11
      /\ \A k \in 1..11 : checks[k] \in Errors
  BY <1>3, <1>4
<1>7. (\A k \in 1..11 : checks[k] = "ok") =>
        /\ known = "ok" /\ port = "ok" /\ bound = "ok" /\ once = "ok"
        /\ other = "ok" /\ one = "ok"
  OBVIOUS
<1> HIDE DEF checks
<1>8. First(checks) \in Errors
  BY <1>6, FirstIsError
<1>9. CASE First(checks) # "ok"
  BY <1>1, <1>8, <1>9, ThenIs, RejectionKeeps
<1>10. CASE First(checks) = "ok"
  <2>1. pc' = "wireless" /\ error' = "ok"
    BY <1>1, <1>8, <1>10, ThenIs
  <2>2. Progress' /\ Named'
    BY <2>1 DEF Progress, Errors, Named
  <2>3. Counted' /\ Apart'
    BY <1>1, <2>1 DEF CInv, Counted, AfterNodes, Apart
  <2>4. Known'
    BY <1>1, <2>1, SameDocument DEF CInv, Known, AfterStructure
  <2>5. Runnable'
    <3>1. /\ known = "ok" /\ port = "ok" /\ bound = "ok" /\ once = "ok"
          /\ other = "ok" /\ one = "ok"
      BY <1>6, <1>7, <1>10, FirstIsOk
    <3>2. \A j, k \in DOMAIN Receivers : Receivers[j] = Receivers[k] => j = k
      BY <1>5, <3>1, ReceiversList, NoDuplicateMeansApart DEF NoDuplicate
    <3>3. Mode = "unicast" => 1 \in DOMAIN Receivers
      BY <1>5, <3>1, ReceiversList DEF IsList
    <3>4. /\ Mode \in {"unicast", "broadcast"}
          /\ Port.type # "bool" /\ Port.num \in 1..MaxPort
          /\ \A k \in DOMAIN Receivers : Receivers[k] # Sender
      BY <1>5, <3>1
    <3>5. Mode' = Mode /\ Port' = Port /\ Sender' = Sender /\ Receivers' = Receivers
      BY <1>1, SameDocument
    <3> QED
      BY <3>2, <3>3, <3>4, <3>5 DEF Runnable
  <2>6. Placed'
    BY <1>1, <2>1 DEF CInv, Placed
  <2> QED
    BY <2>2, <2>3, <2>4, <2>5, <2>6 DEF CInv
<1> QED
  BY <1>9, <1>10

\* The nodes are begun with a list of at least one.
LEMMA WirelessKeeps == ASSUME IsDocument(doc), CInv, Wireless PROVE CInv'
<1> DEFINE subnet    == Get("wireless", "subnet")
           broadcast == Get("wireless", "broadcast_ip")
           text    == RequireString(subnet)
           valid   == Must(subnet.text \in Subnets)
           four    == Must(subnet.text # "fd00::/64")
           last    == Must(broadcast \in {Missing, Str("10.1.0.7"), Padded("10.1.0.7")})
           others  == Scalars("wireless", WirelessChecks)
           list    == Must(doc.config.nodes.type = "list")
           some    == Must(doc.config.nodes.items # << >>)
           checks  == <<text, valid, four, last, others, list, some>>
<1>1. /\ pc = "wireless" /\ Then(First(checks), "node")
      /\ UNCHANGED <<doc, nodes, runs>>
  BY DEF Wireless
<1>2. {text, valid, four, last, others, list, some} \subseteq Errors
  BY ChecksAreErrors, ScalarsAreErrors, TablesAre
<1>3. some = "ok" => doc.config.nodes.items # << >>
  BY DEF Must, Unless
<1> HIDE DEF text, valid, four, last, others, list, some
<1>4. /\ DOMAIN checks = 1..7
      /\ \A k \in 1..7 : checks[k] \in Errors
  BY <1>2
<1>5. (\A k \in 1..7 : checks[k] = "ok") => some = "ok"
  OBVIOUS
<1> HIDE DEF checks
<1>6. First(checks) \in Errors
  BY <1>4, FirstIsError
<1>7. CASE First(checks) # "ok"
  BY <1>1, <1>6, <1>7, ThenIs, RejectionKeeps
<1>8. CASE First(checks) = "ok"
  <2>1. pc' = "node" /\ error' = "ok"
    BY <1>1, <1>6, <1>8, ThenIs
  <2>2. Progress' /\ Named'
    BY <2>1 DEF Progress, Errors, Named
  <2>3. Counted'
    <3>1. doc.config.nodes.items # << >>
      BY <1>3, <1>4, <1>5, <1>8, FirstIsOk
    <3>2. Len(doc.config.nodes.items) > 0
      BY <3>1 DEF IsDocument, IsList
    <3>3. nodes = << >> /\ nodes' = << >> /\ doc' = doc
      BY <1>1 DEF CInv, Counted
    <3> QED
      BY <2>1, <3>2, <3>3 DEF CInv, Counted, AfterNodes
  <2>4. Apart'
    BY <1>1 DEF CInv, Apart
  <2>5. Known'
    BY <1>1, <2>1, SameDocument DEF CInv, Known, AfterStructure
  <2>6. Runnable'
    BY <1>1, <2>1, SameDocument DEF CInv, Runnable, AfterProtocol
  <2>7. Placed'
    BY <1>1, <2>1 DEF CInv, Placed
  <2> QED
    BY <2>2, <2>3, <2>4, <2>5, <2>6, <2>7 DEF CInv
<1> QED
  BY <1>7, <1>8

\* Sender and receivers are among the nodes.
LEMMA ReferencesKeeps == ASSUME CInv, References PROVE CInv'
<1> DEFINE named  == Must(Having("id", Sender) # {})
           all    == Must(\A k \in DOMAIN Receivers : Having("id", Receivers[k]) # {})
           checks == <<named, all>>
<1>1. /\ pc = "references" /\ Then(First(checks), "binaries")
      /\ UNCHANGED <<doc, nodes, runs>>
  BY DEF References
<1>2. named \in Errors /\ all \in Errors
  BY ChecksAreErrors
<1>3. \A x : Having("id", x) # {} => x \in {nodes[k].id : k \in DOMAIN nodes}
  BY DEF Having
<1>4. /\ named = "ok" => Having("id", Sender) # {}
      /\ all = "ok" => \A k \in DOMAIN Receivers : Having("id", Receivers[k]) # {}
  BY DEF Must, Unless
<1> HIDE DEF named, all
<1>5. DOMAIN checks = 1..2 /\ \A k \in 1..2 : checks[k] \in Errors
  BY <1>2
<1>6. (\A k \in 1..2 : checks[k] = "ok") => named = "ok" /\ all = "ok"
  OBVIOUS
<1> HIDE DEF checks
<1>7. First(checks) \in Errors
  BY <1>5, FirstIsError
<1>8. CASE First(checks) # "ok"
  BY <1>1, <1>7, <1>8, ThenIs, RejectionKeeps
<1>9. CASE First(checks) = "ok"
  <2>1. pc' = "binaries" /\ error' = "ok"
    BY <1>1, <1>7, <1>9, ThenIs
  <2>2. Progress'
    BY <2>1 DEF Progress, Errors
  <2>3. Counted' /\ Apart'
    BY <1>1, <2>1 DEF CInv, Counted, AfterNodes, Apart
  <2>4. Known'
    BY <1>1, <2>1, SameDocument DEF CInv, Known, AfterStructure
  <2>5. Runnable'
    BY <1>1, <2>1, SameDocument DEF CInv, Runnable, AfterProtocol
  <2>6. Named'
    <3>1. named = "ok" /\ all = "ok"
      BY <1>5, <1>6, <1>9, FirstIsOk
    <3> QED
      BY <1>1, <1>3, <1>4, <3>1, SameDocument DEF Named
  <2>7. Placed'
    BY <1>1, <2>1 DEF CInv, Placed
  <2> QED
    BY <2>2, <2>3, <2>4, <2>5, <2>6, <2>7 DEF CInv
<1> QED
  BY <1>8, <1>9

\* The stored path is the real path of a file that was judged.
LEMMA BinariesKeeps == ASSUME CInv, Binaries PROVE CInv'
<1> DEFINE mapping == Mapping("binaries")
           fields  == KnownFields("binaries")
           checks  == <<mapping, fields, Executable("sender"), Executable("receiver")>>
<1>1. /\ pc = "binaries" /\ Then(First(checks), "accepted")
      /\ UNCHANGED <<doc, nodes>>
      /\ runs' = IF error' # "ok" THEN runs
                 ELSE [role \in {"sender", "receiver"} |-> Real(role)]
  BY DEF Binaries
<1>2. ASSUME NEW role \in {"sender", "receiver"}
      PROVE  /\ Executable(role) \in Errors
             /\ Executable(role) = "ok" =>
                  /\ Given(role) \in DOMAIN RealPath
                  /\ Real(role) \in InBinDir /\ RealPath[Real(role)] \in Programs
  <2> DEFINE text  == Optional(Get("binaries", role),
                                RequireString(Get("binaries", role)))
             there == Must(Real(role) # None)
             runs1 == Must(Real(role) # None => RealPath[Real(role)] \in Programs)
             in    == Must(Real(role) \in InBinDir)
             four  == <<text, there, runs1, in>>
  <2>1. Executable(role) = First(four)
    BY DEF Executable
  <2>2. {text, there, runs1, in} \subseteq Errors
    <3>1. \A v, c : c \in Errors => Optional(v, c) \in Errors
      BY DEF Optional, Errors
    <3> QED
      BY <3>1, ChecksAreErrors
  <2>3. there = "ok" => Real(role) # None
    BY DEF Must, Unless
  <2>4. runs1 = "ok" /\ Real(role) # None => RealPath[Real(role)] \in Programs
    BY DEF Must, Unless
  <2>5. in = "ok" => Real(role) \in InBinDir
    BY DEF Must, Unless
  <2>6. Real(role) # None => Given(role) \in DOMAIN RealPath
    BY DEF Real
  <2> HIDE DEF text, there, runs1, in
  <2>7. DOMAIN four = 1..4 /\ \A k \in 1..4 : four[k] \in Errors
    BY <2>2
  <2>8. (\A k \in 1..4 : four[k] = "ok") => there = "ok" /\ runs1 = "ok" /\ in = "ok"
    OBVIOUS
  <2> HIDE DEF four
  <2>9. First(four) \in Errors
    BY <2>7, FirstIsError
  <2>10. First(four) = "ok" => there = "ok" /\ runs1 = "ok" /\ in = "ok"
    BY <2>7, <2>8, FirstIsOk
  <2> QED
    BY <2>1, <2>3, <2>4, <2>5, <2>6, <2>9, <2>10
<1>3. fields = "ok" => Get("binaries", "?") = Missing
  BY DEF KnownFields, Unless
<1>4. mapping \in Errors /\ fields \in Errors
  BY ChecksAreErrors
<1> HIDE DEF mapping, fields
<1>5. DOMAIN checks = 1..4 /\ \A k \in 1..4 : checks[k] \in Errors
  BY <1>2, <1>4
<1>6. (\A k \in 1..4 : checks[k] = "ok") =>
        fields = "ok" /\ \A role \in {"sender", "receiver"} : Executable(role) = "ok"
  OBVIOUS
<1> HIDE DEF checks
<1>7. First(checks) \in Errors
  BY <1>5, FirstIsError
<1>8. CASE First(checks) # "ok"
  <2>1. pc' = "rejected" /\ error' \in Errors /\ error' # "ok"
    BY <1>1, <1>7, <1>8, ThenIs
  <2> QED
    BY <1>1, <2>1, RejectionKeeps
<1>9. CASE First(checks) = "ok"
  <2>1. pc' = "accepted" /\ error' = "ok"
    BY <1>1, <1>7, <1>9, ThenIs
  <2>2. fields = "ok" /\ \A role \in {"sender", "receiver"} : Executable(role) = "ok"
    BY <1>5, <1>6, <1>9, FirstIsOk
  <2>3. Progress'
    BY <2>1 DEF Progress, Errors
  <2>4. Counted' /\ Apart'
    BY <1>1, <2>1 DEF CInv, Counted, AfterNodes, Apart
  <2>5. Known'
    BY <1>1, <1>3, <2>1, <2>2, SameDocument DEF CInv, Known, AfterStructure
  <2>6. Runnable' /\ Named'
    BY <1>1, <2>1, SameDocument DEF CInv, Runnable, AfterProtocol, Named
  <2>7. Placed'
    BY <1>1, <1>2, <2>1, <2>2, SameDocument DEF Placed
  <2> QED
    BY <2>3, <2>4, <2>5, <2>6, <2>7 DEF CInv
<1> QED
  BY <1>8, <1>9

\* What Append does to a list.
LEMMA AppendIs ==
  ASSUME NEW T, NEW s \in Seq(T), NEW x
  PROVE  /\ Append(s, x) \in Seq(T \union {x})
         /\ Len(Append(s, x)) = Len(s) + 1 /\ DOMAIN Append(s, x) = 1..(Len(s) + 1)
         /\ \A k \in DOMAIN s : Append(s, x)[k] = s[k]
         /\ Append(s, x)[Len(s) + 1] = x
         /\ Len(s) \in Nat /\ DOMAIN s = 1..Len(s)
<1>1. s \in Seq(T \union {x}) /\ x \in T \union {x}
  OBVIOUS
<1> QED
  BY <1>1

\* A list is a list of its own items.
LEMMA OwnList ==
  ASSUME NEW T, NEW s \in Seq(T) PROVE s \in Seq({s[k] : k \in DOMAIN s})
  OBVIOUS

\* What the checks of one node leave true of it.
LEMMA NodeCheckIs ==
  ASSUME IsDocument(doc), NEW n \in 0..2, n = Len(nodes)
  PROVE
  /\ NodeCheck \in Errors
  /\ NodeCheck = "ok" =>
       /\ Get(Current, "?") = Missing
       /\ Having("id", Id) = {} /\ Having("station", Station) = {}
       /\ Having("address", HostAddress) = {}
       /\ Station \notin NoDigit \union TooLong
       /\ HostAddress \in (Network + 1)..(Broadcast - 1)
<1> DEFINE position == Get(Current, "position")
           map      == Must(doc.config.nodes.items[Len(nodes) + 1] = Map)
           fields   == KnownFields(Current)
           name     == Name(Get(Current, "id"))
           newId    == Must(Having("id", Id) = {})
           station  == Optional(Get(Current, "container_name"),
                                Name(Get(Current, "container_name")))
           digit    == Must(Station \notin NoDigit)
           newName  == Must(Having("station", Station) = {})
           short    == Must(Station \notin TooLong)
           text     == RequireString(Get(Current, "ip"))
           in       == Must(InSubnet)
           host     == Must(HostAddress \notin {Network, Broadcast})
           newIp    == Must(Having("address", HostAddress) = {})
           three    == Must(position.type = "list" /\ Len(position.items) = 3)
           numbers  == First([k \in DOMAIN position.items |->
                                RequireNumber(position.items[k])])
           scalars  == Scalars(Current, NodeChecks)
           checks   == <<map, fields, name, newId, station, digit, newName, short,
                         text, in, host, newIp, three, numbers, scalars>>
<1>1. NodeCheck = First(checks)
  BY DEF NodeCheck
<1>2. numbers \in Errors
  <2> DEFINE all == [k \in DOMAIN position.items |-> RequireNumber(position.items[k])]
  <2>1. Current \in NodeSections
    <3>1. \A k \in 1..3 : NodeNames[k] \in NodeSections
      BY DEF NodeNames, NodeSections
    <3>2. n + 1 \in 1..3
      OBVIOUS
    <3>3. Current = NodeNames[n + 1]
      BY DEF Current
    <3> QED
      BY <3>1, <3>2, <3>3
  <2>2. IsList(position.items)
    BY <2>1, ListsAre DEF Get, IsDocument
  <2>3. DOMAIN all \subseteq Nat
    BY <2>2 DEF IsList
  <2>4. \A k \in DOMAIN all : all[k] \in Errors
    BY ChecksAreErrors
  <2> HIDE DEF all
  <2>5. First(all) \in Errors
    BY <2>3, <2>4, FirstIsError
  <2> QED
    BY <2>5 DEF all
<1>3. /\ {map, fields, name, newId, digit, newName, short} \subseteq Errors
      /\ station \in Errors
      /\ {text, in, host, newIp, three, scalars} \subseteq Errors
  <2>1. \A v, c : c \in Errors => Optional(v, c) \in Errors
    BY DEF Optional, Errors
  <2>2. station \in Errors
    BY <2>1, ChecksAreErrors
  <2>3. /\ {map, newId, digit, newName, short} \subseteq Errors
        /\ {in, host, newIp, three} \subseteq Errors
    BY ChecksAreErrors
  <2>4. {fields, name, text, scalars} \subseteq Errors
    BY ChecksAreErrors, ScalarsAreErrors, TablesAre
  <2> QED
    BY <2>2, <2>3, <2>4
<1>4. fields = "ok" => Get(Current, "?") = Missing
  BY DEF KnownFields, Unless
<1>5. newId = "ok" => Having("id", Id) = {}
  BY DEF Must, Unless
<1>6. newName = "ok" => Having("station", Station) = {}
  BY DEF Must, Unless
<1>7. newIp = "ok" => Having("address", HostAddress) = {}
  BY DEF Must, Unless
<1>8. digit = "ok" /\ short = "ok" => Station \notin NoDigit \union TooLong
  BY DEF Must, Unless
<1>9. in = "ok" /\ host = "ok" => HostAddress \in (Network + 1)..(Broadcast - 1)
  <2>1. in = "ok" => InSubnet
    BY DEF Must, Unless
  <2>2. host = "ok" => HostAddress \notin {Network, Broadcast}
    BY DEF Must, Unless
  <2>3. InSubnet /\ HostAddress \notin {Network, Broadcast} =>
          HostAddress \in (Network + 1)..(Broadcast - 1)
    BY DEF InSubnet, Network, Broadcast
  <2> QED
    BY <2>1, <2>2, <2>3
<1> HIDE DEF map, fields, name, newId, station, digit, newName, short, text, in,
             host, newIp, three, numbers, scalars
<1>10. DOMAIN checks = 1..15 /\ \A k \in 1..15 : checks[k] \in Errors
  BY <1>2, <1>3
<1>11. (\A k \in 1..15 : checks[k] = "ok") =>
         /\ fields = "ok" /\ newId = "ok" /\ newName = "ok" /\ newIp = "ok"
         /\ digit = "ok" /\ short = "ok" /\ in = "ok" /\ host = "ok"
  OBVIOUS
<1> HIDE DEF checks
<1>12. First(checks) \in Errors
  BY <1>10, FirstIsError
<1>13. First(checks) = "ok" => \A k \in 1..15 : checks[k] = "ok"
  BY <1>10, FirstIsOk
<1> QED
  BY <1>1, <1>4, <1>5, <1>6, <1>7, <1>8, <1>9, <1>11, <1>12, <1>13

\* A node is taken only when it is apart from those before it.
LEMMA NodeKeeps == ASSUME IsDocument(doc), CInv, Node PROVE CInv'
<1> DEFINE last == Len(nodes) + 1
           new  == [id |-> Id, station |-> Station, address |-> HostAddress]
<1>1. /\ pc = "node" /\ UNCHANGED <<doc, runs>>
      /\ Then(NodeCheck, IF last = Len(doc.config.nodes.items)
                         THEN "references" ELSE "node")
      /\ nodes' = IF error' # "ok" THEN nodes ELSE Append(nodes, new)
  BY DEF Node
<1>2. /\ nodes \in Seq({nodes[k] : k \in DOMAIN nodes})
      /\ Len(nodes) \in Nat /\ DOMAIN nodes = 1..Len(nodes)
      /\ Len(nodes) < Len(doc.config.nodes.items)
      /\ Len(doc.config.nodes.items) \in 0..3
  <2>1. Len(NodeNames) = 3
    BY DEF NodeNames
  <2>2. Len(doc.config.nodes.items) \in 0..3
    <3> DEFINE items == doc.config.nodes.items
    <3>1. IsList(items) /\ Len(items) <= 3
      BY <2>1 DEF IsDocument
    <3> HIDE DEF items
    <3>2. PICK n \in Nat : n = Len(items)
      BY <3>1 DEF IsList
    <3>3. n \in 0..3
      BY <3>1, <3>2
    <3> QED
      BY <3>2, <3>3 DEF items
  <2> QED
    BY <1>1, <2>2 DEF CInv, Counted
<1>3. PICK n \in 0..2 : n = Len(nodes)
  <2>1. PICK n \in Nat, m \in 0..3 : n = Len(nodes) /\ m = Len(doc.config.nodes.items)
    BY <1>2
  <2>2. n < m
    BY <1>2, <2>1, Zenon
  <2>3. n \in 0..2
    BY <2>2
  <2> QED
    BY <2>1, <2>3
<1>4. CASE NodeCheck # "ok"
  <2>1. pc' = "rejected" /\ error' \in Errors /\ error' # "ok"
    BY <1>1, <1>3, <1>4, NodeCheckIs, ThenIs
  <2> QED
    BY <1>1, <2>1, RejectionKeeps
<1>5. CASE NodeCheck = "ok"
  <2>1. /\ error' = "ok"
        /\ pc' = IF last = Len(doc.config.nodes.items) THEN "references" ELSE "node"
    BY <1>1, <1>3, <1>5, NodeCheckIs, ThenIs
  <2>2. nodes' = Append(nodes, new)
    BY <1>1, <2>1
  <2> HIDE DEF new
  <2>3. /\ Len(nodes') = last /\ DOMAIN nodes' = 1..last
        /\ \A k \in DOMAIN nodes : nodes'[k] = nodes[k]
        /\ nodes'[last] = new
        /\ nodes' \in Seq({nodes[k] : k \in DOMAIN nodes} \union {new})
    BY <1>2, <2>2, AppendIs
  <2>4. nodes' \in Seq({nodes'[k] : k \in DOMAIN nodes'})
    BY <2>3, OwnList
  <2>5. \A k \in DOMAIN nodes' : k = last \/ k \in DOMAIN nodes
    BY <1>2, <2>3
  <2>6. last \notin DOMAIN nodes /\ last \in Nat
    BY <1>2
  <2>7. /\ new.id = Id /\ new.station = Station /\ new.address = HostAddress
    BY DEF new
  <2>8. Progress'
    BY <2>1 DEF Progress, Errors
  <2>9. Counted'
    BY <1>1, <1>2, <2>1, <2>3, <2>4 DEF Counted, AfterNodes
  <2>10. Apart'
    <3>1. \A k \in DOMAIN nodes : /\ nodes[k].id # Id /\ nodes[k].station # Station
                                  /\ nodes[k].address # HostAddress
      BY <1>3, <1>5, NodeCheckIs DEF Having
    <3>2. \A j, k \in DOMAIN nodes' : j # k =>
            /\ nodes'[j].id # nodes'[k].id
            /\ nodes'[j].station # nodes'[k].station
            /\ nodes'[j].address # nodes'[k].address
      BY <2>3, <2>5, <2>7, <3>1 DEF CInv, Apart
    <3>3. \A k \in DOMAIN nodes' :
            /\ nodes'[k].station \notin NoDigit \union TooLong
            /\ nodes'[k].address \in (Network + 1)..(Broadcast - 1)
      BY <1>3, <1>5, <2>3, <2>5, <2>7, NodeCheckIs DEF CInv, Apart
    <3> QED
      BY <3>2, <3>3 DEF Apart
  <2>11. Known'
    <3>1. Get(Current, "?") = Missing
      BY <1>3, <1>5, NodeCheckIs
    <3>2. \A k \in DOMAIN nodes' : Get(NodeNames[k], "?") = Missing
      BY <2>5, <3>1 DEF CInv, Known, Current
    <3>3. \A s, f : Get(s, f)' = Get(s, f)
      BY <1>1, SameDocument
    <3>4. (\A k \in DOMAIN nodes : Get(NodeNames[k], "?") = Missing)'
      BY <3>2, <3>3
    <3>5. \A s \in TopSections : Get(s, "?")' = Missing
      BY <1>1, <3>3 DEF CInv, Known, AfterStructure
    <3> QED
      BY <2>1, <3>4, <3>5 DEF Known
  <2>12. Runnable'
    BY <1>1, SameDocument DEF CInv, Runnable, AfterProtocol
  <2>13. Named' /\ Placed'
    BY <1>1, <2>1 DEF CInv, Named, Placed
  <2> QED
    BY <2>8, <2>9, <2>10, <2>11, <2>12, <2>13 DEF CInv
<1> QED
  BY <1>4, <1>5
-----------------------------------------------------------------------------
(* The theorems hold of whatever document normalize_config is given, and so *)
(* of the documents of Spec.                                               *)

\* normalize_config on any document.
AnyInit ==
  /\ pc = "structure" /\ IsDocument(doc)
  /\ nodes = << >> /\ runs = << >>
  /\ error = "ok"

AnySpec == AnyInit /\ [][Next]_vars

IInv == IsDocument(doc) /\ CInv

\* The invariant holds of any document before it is looked at.
LEMMA AnyInitKeeps == ASSUME AnyInit PROVE IInv
<1>1. << >> \in Seq({}) /\ Len(<< >>) = 0 /\ DOMAIN << >> = {}
  OBVIOUS
<1>2. /\ IsList(doc.config.nodes.items) /\ pc = "structure"
      /\ nodes = << >> /\ runs = << >>
  BY DEF AnyInit, IsDocument
<1>3. Counted
  <2>1. nodes \in Seq({nodes[k] : k \in DOMAIN nodes})
    BY <1>1, <1>2, OwnList
  <2>2. Len(nodes) <= Len(doc.config.nodes.items)
    BY <1>1, <1>2 DEF IsList
  <2> QED
    BY <1>2, <2>1, <2>2 DEF Counted, AfterNodes
<1>4. Progress /\ Runnable /\ Named
  BY DEF AnyInit, Progress, Errors, Runnable, AfterProtocol, Named
<1>5. Apart /\ Known /\ Placed
  BY <1>1, <1>2 DEF Apart, Known, AfterStructure, Placed
<1> QED
  BY <1>3, <1>4, <1>5 DEF AnyInit, IInv, CInv

\* Every step of normalize_config keeps the invariant.
LEMMA NextKeeps == ASSUME IInv, [Next]_vars PROVE IInv'
<1>1. doc' = doc
  BY DEF Next, Structure, Experiment, Protocol, Wireless, Node, References,
         Binaries, Done, vars
<1>2. IsDocument(doc)'
  BY <1>1 DEF IInv, IsDocument
<1>3. CInv'
  <2> USE DEF IInv
  <2>1. CASE Structure
    BY <2>1, StructureKeeps
  <2>2. CASE Experiment
    BY <2>2, ExperimentKeeps
  <2>3. CASE Protocol
    BY <2>3, ProtocolKeeps
  <2>4. CASE Wireless
    BY <2>4, WirelessKeeps
  <2>5. CASE Node
    BY <2>5, NodeKeeps
  <2>6. CASE References
    BY <2>6, ReferencesKeeps
  <2>7. CASE Binaries
    BY <2>7, BinariesKeeps
  <2>8. CASE UNCHANGED vars
    BY <2>8, SameDocument DEF vars, CInv, Progress, Counted, Apart, Known,
       Runnable, Named, Placed
  <2> QED
    BY <2>1, <2>2, <2>3, <2>4, <2>5, <2>6, <2>7, <2>8 DEF Next, Done
<1> QED
  BY <1>2, <1>3 DEF IInv

\* The documents of the runs are among those of AnySpec.
LEMMA SpecIsAnySpec == Spec => AnySpec
<1>1. Init => AnyInit
  BY InitIsDocument DEF Init, AnyInit
<1> QED
  BY <1>1, PTL DEF Spec, AnySpec

\* The inductive invariant of normalize_config, for any document.
LEMMA Invariant == AnySpec => []IInv
<1>1. AnyInit => IInv
  BY AnyInitKeeps
<1>2. IInv /\ [Next]_vars => IInv'
  BY NextKeeps
<1> QED
  BY <1>1, <1>2, PTL DEF AnySpec

\* The type invariant follows from it.
LEMMA TypesHold == ASSUME IInv PROVE TypeOK
<1>1. Len(nodes) <= Len(NodeNames)
  <2>1. Len(nodes) \in Nat
    BY DEF IInv, CInv, Counted
  <2>2. Len(doc.config.nodes.items) \in Nat
    BY DEF IInv, IsDocument, IsList
  <2>3. /\ Len(nodes) <= Len(doc.config.nodes.items)
        /\ Len(doc.config.nodes.items) <= Len(NodeNames)
    BY DEF IInv, CInv, Counted, IsDocument
  <2>4. Len(NodeNames) = 3
    BY DEF NodeNames
  <2> QED
    BY <2>1, <2>2, <2>3, <2>4
<1>2. \A k \in DOMAIN nodes : nodes[k].address \in Network..Broadcast
  BY DEF IInv, CInv, Apart, Network, Broadcast
<1> QED
  BY <1>1, <1>2 DEF IInv, CInv, Progress, Placed, TypeOK

\* No document makes normalize_config leave the types of its state, and it raises
\* only ConfigError or OverflowError.
THEOREM NormalizeTypes == (AnySpec => []TypeOK) /\ (Spec => []TypeOK)
<1>1. AnySpec => []TypeOK
  BY Invariant, TypesHold, PTL
<1> QED
  BY <1>1, SpecIsAnySpec, PTL

\* normalize_config compares each node with all those before it.
THEOREM NodesAreApart ==
  (AnySpec => []NodesDoNotCollide) /\ (Spec => []NodesDoNotCollide)
<1>1. IInv => NodesDoNotCollide
  BY DEF IInv, CInv, Counted, AfterNodes, Apart, NodesDoNotCollide
<1>2. AnySpec => []NodesDoNotCollide
  BY <1>1, Invariant, PTL
<1> QED
  BY <1>2, SpecIsAnySpec, PTL

\* Position finds the node of an id.
LEMMA PositionIs ==
  ASSUME IInv, NEW id \in {nodes[k].id : k \in DOMAIN nodes}
  PROVE  Position(id) \in DOMAIN nodes /\ nodes[Position(id)].id = id
<1>1. \E k \in DOMAIN nodes : nodes[k].id = id
  OBVIOUS
<1> QED
  BY <1>1 DEF Position

\* The destination an accepted protocol section leads to.
THEOREM AcceptedDestination ==
  (AnySpec => []DestinationIsRight) /\ (Spec => []DestinationIsRight)
<1>1. ASSUME IInv, pc = "accepted" PROVE DestinationIsRight
  <2> DEFINE ids == {nodes[k].id : k \in DOMAIN nodes}
  <2>1. /\ Mode \in {"unicast", "broadcast"}
        /\ Port.type # "bool" /\ Port.num \in 1..MaxPort
        /\ \A j, k \in DOMAIN Receivers : Receivers[j] = Receivers[k] => j = k
        /\ \A k \in DOMAIN Receivers : Receivers[k] # Sender
        /\ Mode = "unicast" => 1 \in DOMAIN Receivers
    BY <1>1 DEF IInv, CInv, Runnable, AfterProtocol
  <2>2. Sender \in ids /\ \A k \in DOMAIN Receivers : Receivers[k] \in ids
    BY <1>1 DEF IInv, CInv, Named
  <2>3. CASE Mode = "broadcast"
    <3>1. SelectDestination = Broadcast
      BY <2>3 DEF SelectDestination
    <3>2. \A id \in ids : nodes[Position(id)].address \in (Network + 1)..(Broadcast - 1)
      BY <1>1, PositionIs DEF IInv, CInv, Apart
    <3>3. \A id \in ids : nodes[Position(id)].address # SelectDestination
      BY <3>1, <3>2 DEF Network, Broadcast
    <3> QED
      BY <2>1, <2>2, <2>3, <3>3 DEF DestinationIsRight
  <2>4. CASE Mode = "unicast"
    <3>1. SelectDestination = nodes[Position(Receivers[1])].address
      BY <2>4 DEF SelectDestination
    <3>2. Receivers[1] \in ids
      BY <2>1, <2>2, <2>4
    <3>3. \A id \in ids :
            nodes[Position(id)].address = SelectDestination => id = Receivers[1]
      BY <1>1, <3>1, <3>2, PositionIs DEF IInv, CInv, Apart
    <3>4. {id \in ids : nodes[Position(id)].address = SelectDestination} = {Receivers[1]}
      BY <3>1, <3>2, <3>3
    <3> QED
      BY <2>1, <2>2, <2>4, <3>4 DEF DestinationIsRight
  <2> QED
    BY <2>1, <2>3, <2>4
<1>2. IInv => DestinationIsRight
  BY <1>1 DEF DestinationIsRight
<1>3. AnySpec => []DestinationIsRight
  BY <1>2, Invariant, PTL
<1> QED
  BY <1>3, SpecIsAnySpec, PTL

\* _executable judges the file that the container will run.
THEOREM ContainerRunsTheChecked ==
  (AnySpec => []ContainerRunsWhatWasChecked) /\ (Spec => []ContainerRunsWhatWasChecked)
<1>1. \A p \in DOMAIN RealPath :
        RealPath[p] \in DOMAIN RealPath /\ RealPath[RealPath[p]] = RealPath[p]
  BY DEF RealPath
<1>2. IInv => ContainerRunsWhatWasChecked
  <2>1. ASSUME IInv, pc = "accepted", NEW role \in DOMAIN runs
        PROVE  /\ runs[role] \in InBinDir
               /\ RealPath[runs[role]] \in InBinDir \intersect Programs
               /\ RealPath[runs[role]] = RealPath[Given(role)]
    <3>1. /\ role \in {"sender", "receiver"} /\ runs[role] = Real(role)
          /\ Given(role) \in DOMAIN RealPath
          /\ Real(role) \in InBinDir /\ RealPath[Real(role)] \in Programs
      BY <2>1 DEF IInv, CInv, Placed
    <3>2. Real(role) = RealPath[Given(role)]
      BY <3>1 DEF Real
    <3> QED
      BY <1>1, <3>1, <3>2
  <2> QED
    BY <2>1 DEF ContainerRunsWhatWasChecked
<1>3. AnySpec => []ContainerRunsWhatWasChecked
  BY <1>2, Invariant, PTL
<1> QED
  BY <1>3, SpecIsAnySpec, PTL

\* Each section is searched for unknown keys on the way to acceptance.
THEOREM NoKeyIsIgnored ==
  (AnySpec => []NothingIgnored) /\ (Spec => []NothingIgnored)
<1>1. ASSUME IInv, pc = "accepted" PROVE NothingIgnored
  <2>1. Len(nodes) \in Nat /\ DOMAIN nodes = 1..Len(nodes)
    BY <1>1 DEF IInv, CInv, Counted
  <2>2. \A k \in 1..3 : k \in DOMAIN nodes \/ k \in (Len(nodes) + 1)..3
    BY <2>1
  <2>3. ASSUME NEW s \in Sections \ {NodeNames[k] : k \in (Len(nodes) + 1)..3}
        PROVE  \/ s \in TopSections \union {"binaries"}
               \/ \E k \in DOMAIN nodes : s = NodeNames[k]
    BY <2>2 DEF Sections, TopSections, NodeNames
  <2> QED
    BY <1>1, <2>3 DEF IInv, CInv, Known, AfterStructure, NothingIgnored
<1>2. IInv => NothingIgnored
  BY <1>1 DEF NothingIgnored
<1>3. AnySpec => []NothingIgnored
  BY <1>2, Invariant, PTL
<1> QED
  BY <1>3, SpecIsAnySpec, PTL
-----------------------------------------------------------------------------
(* The harmless documents: what each of their fields may be.               *)

\* What config.yml in small has in a field: the value it gives, or none.
LEMMA BaseIs ==
  ASSUME NEW s \in Sections, NEW f \in Fields(s) \union {"?"}
  PROVE  Base[s][f] = IF f \in DOMAIN BaseValues[s] THEN BaseValues[s][f] ELSE Missing
  BY DEF Base

\* What config.yml in small gives of the sections and of the protocol.
LEMMA GivenSections ==
  /\ DOMAIN BaseValues.config = Fields("config")
  /\ BaseValues.config["nodes"] = List(<<Map, Map, Map>>)
  /\ \A s \in Fields("config") \ {"nodes"} : BaseValues.config[s] = Map
<1>1. DOMAIN BaseValues.config = Fields("config")
  BY SMT DEF BaseValues
<1>2. BaseValues.config["nodes"] = List(<<Map, Map, Map>>)
  BY SMT DEF BaseValues, Fields
<1>3. \A s \in Fields("config") \ {"nodes"} : BaseValues.config[s] = Map
  BY SMT DEF BaseValues
<1> QED
  BY <1>1, <1>2, <1>3

\* A port one may listen on.
IsPort(v) == v.type = "int" /\ v.num \in 1..MaxPort

\* The ports of the harmless documents are such ports.
LEMMA PortsAreFine ==
  IsPort(BaseValues.protocol.port) /\ \A v \in Harmless("protocol", "port") : IsPort(v)
<1>1. \A n \in 1..MaxPort : IsPort(Num(n))
  BY DEF IsPort, Num, Value
<1>2. 5000 \in 1..MaxPort /\ 65535 \in 1..MaxPort
  BY SMT DEF MaxPort
<1>3. IsPort(Num(5000)) /\ IsPort(Num(65535))
  BY <1>1, <1>2, SMT
<1>4. BaseValues.protocol.port = Num(5000)
  BY Zenon DEF BaseValues
<1>5. \A v \in Harmless("protocol", "port") : v = Num(65535)
  BY SMT DEF Harmless
<1>6. IsPort(BaseValues.protocol.port)
  BY <1>3, <1>4
<1>7. \A v \in Harmless("protocol", "port") : IsPort(v)
  BY <1>3, <1>5, SMT
<1> QED
  BY <1>6, <1>7

\* The values of a field of a harmless document.
LEMMA HarmlessField ==
  ASSUME NEW d, IsDocument(d), IsHarmless(d),
         NEW s \in Sections, NEW f \in Fields(s) \union {"?"}
  PROVE  \/ f \in DOMAIN BaseValues[s] /\ d[s][f] = BaseValues[s][f]
         \/ f \notin DOMAIN BaseValues[s] /\ d[s][f] = Missing
         \/ d[s][f] \in Harmless(s, f)
  BY BaseIs DEF IsDocument, IsHarmless

\* The sections of a harmless document are mappings, but that binaries and capture
\* may be left out, and its nodes are three.
LEMMA HarmlessSections ==
  ASSUME NEW d, IsDocument(d), IsHarmless(d)
  PROVE  /\ \A s \in {"experiment", "protocol", "wireless"} : d.config[s] = Map
         /\ d.config.binaries \in {Map, Missing} /\ d.config.capture \in {Map, Missing}
         /\ d.config.nodes = List(<<Map, Map, Map>>)
         /\ d.config["?"] = Missing
<1>0. /\ Fields("config") = {"experiment", "protocol", "wireless", "nodes", "binaries", "capture"}
      /\ "config" \in Sections
  BY DEF Fields, Sections
<1>1. /\ \A s \in {"experiment", "protocol", "wireless", "nodes", "?"} : Harmless("config", s) = {}
      /\ \A s \in {"binaries", "capture"} : Harmless("config", s) = {Missing}
  BY DEF Harmless
<1>2. ASSUME NEW s \in {"experiment", "protocol", "wireless"} PROVE d.config[s] = Map
  BY <1>0, <1>1, HarmlessField, GivenSections
<1>3. \A s \in {"binaries", "capture"} : d.config[s] \in {Map, Missing}
  BY <1>0, <1>1, HarmlessField, GivenSections
<1>4. d.config.nodes = List(<<Map, Map, Map>>)
  BY <1>0, <1>1, HarmlessField, GivenSections
<1>5. d.config["?"] = Missing
  BY <1>0, <1>1, HarmlessField, GivenSections
<1> QED
  BY <1>2, <1>3, <1>4, <1>5

\* What get() finds in the sections of a harmless document.
LEMMA HarmlessGet ==
  ASSUME IsDocument(doc), IsHarmless(doc), NEW f
  PROVE  /\ \A s \in {"experiment", "protocol", "wireless", "config"} \union NodeSections :
              Get(s, f) = doc[s][f]
         /\ \A s \in {"binaries", "capture"} : Get(s, f) \in {doc[s][f], Missing}
<1>1. DOMAIN doc.config = {"experiment", "protocol", "wireless", "nodes", "binaries", "capture", "?"}
  BY DEF IsDocument, Fields, Sections
<1> QED
  BY <1>1, HarmlessSections DEF Get, NodeSections

\* The experiment section of a harmless document.
LEMMA HarmlessExperiment ==
  ASSUME NEW d, IsDocument(d), IsHarmless(d)
  PROVE  /\ d.experiment.id = Str("exp") /\ d.experiment["?"] = Missing
         /\ d.experiment.drain_seconds \in {Missing, Num(0)}
         /\ \A f \in Names(ExperimentChecks) \ {"drain_seconds"} : d.experiment[f] = Missing
<1>1. /\ Fields("experiment") = {"id"} \union Names(ExperimentChecks)
      /\ "experiment" \in Sections
  BY DEF Fields, Sections
<1>2. /\ Harmless("experiment", "drain_seconds") = {Num(0)}
      /\ \A f : f # "drain_seconds" => Harmless("experiment", f) = {}
  BY DEF Harmless
<1>3. /\ DOMAIN BaseValues.experiment = {"id"} /\ BaseValues.experiment.id = Str("exp")
  <2>1. BaseValues.experiment = [id |-> Str("exp")]
    BY Zenon DEF BaseValues
  <2> QED
    BY <2>1
<1>4. "id" \notin Names(ExperimentChecks) /\ "drain_seconds" \in Names(ExperimentChecks)
  BY DEF Names, ExperimentChecks
<1> QED
  BY <1>1, <1>2, <1>3, <1>4, HarmlessField

\* The protocol section of a harmless document.
LEMMA HarmlessProtocol ==
  ASSUME NEW d, IsDocument(d), IsHarmless(d)
  PROVE  /\ d.protocol.mode \in {Str("unicast"), Str("broadcast"), Padded("broadcast")}
         /\ IsPort(d.protocol.port)
         /\ d.protocol.sender \in {Str("dr1"), Padded("dr1"), Str("dr2")}
         /\ d.protocol.receivers = List(<<Str("gcs")>>)
         /\ d.protocol["?"] = Missing
<1>1. /\ Fields("protocol") = {"mode", "port", "sender", "receivers"}
      /\ "protocol" \in Sections
  BY DEF Fields, Sections
<1>2. /\ Harmless("protocol", "mode") = {Padded("broadcast"), Str("broadcast")}
      /\ Harmless("protocol", "sender") = {Padded("dr1"), Str("dr2")}
      /\ Harmless("protocol", "receivers") = {} /\ Harmless("protocol", "?") = {}
  BY DEF Harmless
<1>3. DOMAIN BaseValues.protocol = {"mode", "port", "sender", "receivers"}
  BY SMT DEF BaseValues
<1>4. BaseValues.protocol.mode = Str("unicast")
  BY Zenon DEF BaseValues
<1>5. BaseValues.protocol.sender = Str("dr1")
  BY Zenon DEF BaseValues
<1>6. BaseValues.protocol.receivers = List(<<Str("gcs")>>)
  BY Zenon DEF BaseValues
<1>7. d.protocol.mode \in {Str("unicast"), Str("broadcast"), Padded("broadcast")}
  BY <1>1, <1>2, <1>3, <1>4, HarmlessField
<1>8. d.protocol.sender \in {Str("dr1"), Padded("dr1"), Str("dr2")}
  BY <1>1, <1>2, <1>3, <1>5, HarmlessField
<1>9. d.protocol.receivers = List(<<Str("gcs")>>)
  BY <1>1, <1>2, <1>3, <1>6, HarmlessField
<1>10. d.protocol["?"] = Missing
  BY <1>1, <1>2, <1>3, HarmlessField
<1>11. IsPort(d.protocol.port)
  BY <1>1, <1>3, PortsAreFine, HarmlessField
<1> QED
  BY <1>7, <1>8, <1>9, <1>10, <1>11

\* The wireless section of a harmless document.
LEMMA HarmlessWireless ==
  ASSUME NEW d, IsDocument(d), IsHarmless(d)
  PROVE  /\ d.wireless.subnet = Str("10.1.0.0/29")
         /\ d.wireless.broadcast_ip \in {Missing, Str("10.1.0.7"), Padded("10.1.0.7")}
         /\ d.wireless["?"] = Missing
         /\ \A f \in Names(WirelessChecks) : d.wireless[f] = Missing
<1>1. /\ Fields("wireless") = {"subnet", "broadcast_ip"} \union Names(WirelessChecks)
      /\ "wireless" \in Sections
  BY DEF Fields, Sections
<1>2. /\ Harmless("wireless", "broadcast_ip") = {Str("10.1.0.7"), Padded("10.1.0.7")}
      /\ \A f : f # "broadcast_ip" => Harmless("wireless", f) = {}
  BY DEF Harmless
<1>3. /\ DOMAIN BaseValues.wireless = {"subnet"}
      /\ BaseValues.wireless.subnet = Str("10.1.0.0/29")
  <2>1. BaseValues.wireless = [subnet |-> Str("10.1.0.0/29")]
    BY Zenon DEF BaseValues
  <2> QED
    BY <2>1
<1>4. \A f \in Names(WirelessChecks) : f \notin {"subnet", "broadcast_ip", "?"}
  <2>1. DOMAIN WirelessChecks = 1..11
    BY DEF WirelessChecks
  <2>2. \A k \in 1..11 : WirelessChecks[k][1] \notin {"subnet", "broadcast_ip", "?"}
    <3>1. \A k \in 1..11 : k = 1 \/ k = 2 \/ k = 3 \/ k = 4 \/ k = 5 \/ k = 6
                             \/ k = 7 \/ k = 8 \/ k = 9 \/ k = 10 \/ k = 11
      OBVIOUS
    <3>2. /\ WirelessChecks[1][1] = "ssid"
          /\ WirelessChecks[2][1] = "mode"
          /\ WirelessChecks[3][1] = "channel"
          /\ WirelessChecks[4][1] = "ht_cap"
          /\ WirelessChecks[5][1] = "noise_threshold_dbm"
          /\ WirelessChecks[6][1] = "fading_coefficient"
          /\ WirelessChecks[7][1] = "propagation_model"
          /\ WirelessChecks[8][1] = "propagation_exponent"
          /\ WirelessChecks[9][1] = "interface"
          /\ WirelessChecks[10][1] = "batman_bridge_loop_avoidance"
          /\ WirelessChecks[11][1] = "batman_orig_interval_ms"
      BY DEF WirelessChecks
    <3> QED
      BY <3>1, <3>2
  <2> QED
    BY <2>1, <2>2 DEF Names
<1> QED
  BY <1>1, <1>2, <1>3, <1>4, HarmlessField

\* The binaries and capture sections of a harmless document.
LEMMA HarmlessBinaries ==
  ASSUME NEW d, IsDocument(d), IsHarmless(d)
  PROVE  /\ \A role \in {"sender", "receiver"} :
              d.binaries[role] \in {Missing, Str("bin/alias"), Str("bin/receiver")}
         /\ d.binaries["?"] = Missing
         /\ d.capture.filter \in {Missing, Str(""), Padded("udp")}
         /\ d.capture["?"] = Missing
<1>1. /\ Fields("binaries") = {"sender", "receiver"} /\ Fields("capture") = {"filter"}
      /\ {"binaries", "capture"} \subseteq Sections
  BY DEF Fields, Sections
<1>2. /\ \A f : f # "?" => Harmless("binaries", f) = {Str("bin/alias"), Str("bin/receiver")}
      /\ Harmless("binaries", "?") = {}
      /\ Harmless("capture", "filter") = {Missing, Padded("udp")}
      /\ Harmless("capture", "?") = {}
  BY DEF Harmless
<1>3. /\ DOMAIN BaseValues.binaries = {}
      /\ DOMAIN BaseValues.capture = {"filter"} /\ BaseValues.capture.filter = Str("")
  <2>1. BaseValues.binaries = << >>
    BY Zenon DEF BaseValues
  <2>2. BaseValues.capture = [filter |-> Str("")]
    BY Zenon DEF BaseValues
  <2>3. DOMAIN << >> = {}
    OBVIOUS
  <2>4. DOMAIN BaseValues.binaries = {}
    BY <2>1, <2>3, Zenon
  <2>5. \A x : DOMAIN [filter |-> x] = {"filter"} /\ [filter |-> x].filter = x
    OBVIOUS
  <2> QED
    BY <2>2, <2>4, <2>5, Zenon
<1> QED
  BY <1>1, <1>2, <1>3, HarmlessField

\* The ids and the station names of its nodes.
Ids       == <<"gcs", "dr1", "dr2">>
Stations  == <<"gcs0", "dr1", "dr2">>

\* The nodes of a harmless document.
LEMMA HarmlessNode ==
  ASSUME NEW d, IsDocument(d), IsHarmless(d), NEW k \in 1..3
  PROVE  LET node == d[NodeNames[k]] IN
         /\ node.id \in {Str(Ids[k]), Padded(Ids[k])}
         /\ \/ node.container_name \in {Str(Stations[k]), Padded(Stations[k])}
            \/ node.container_name = Missing /\ Stations[k] = Ids[k]
         /\ \E ip \in DOMAIN Address : node.ip = Str(ip) /\ Address[ip] = k
         /\ node.position = List(<<Num(1), Num(0), Num(0)>>)
         /\ \A f \in Names(NodeChecks) : node[f] = Missing
         /\ node["?"] = Missing
<1>1. /\ \A s \in NodeSections : s \in Sections /\ Fields(s) =
              {"id", "container_name", "ip", "position"} \union Names(NodeChecks)
      /\ Names(NodeChecks) \intersect {"id", "container_name", "ip", "position", "?"} = {}
  BY DEF Fields, Sections, NodeSections, NodeNames, Names, NodeChecks
<1>2. /\ NodeNames[1] = "node0" /\ NodeNames[2] = "node1" /\ NodeNames[3] = "node2"
      /\ NodeSections = {"node0", "node1", "node2"}
      /\ Ids[1] = "gcs" /\ Ids[2] = "dr1" /\ Ids[3] = "dr2"
      /\ Stations[1] = "gcs0" /\ Stations[2] = "dr1" /\ Stations[3] = "dr2"
  BY DEF NodeNames, NodeSections, Ids, Stations
<1>3. /\ Harmless("node0", "container_name") = {Padded("gcs0")}
      /\ Harmless("node0", "ip") = {Str("10.1.0.1")}
      /\ Harmless("node1", "id") = {Padded("dr1")}
      /\ Harmless("node1", "container_name") = {Str("dr1")}
      /\ \A f : f \notin {"container_name", "ip"} => Harmless("node0", f) = {}
      /\ \A f : f \notin {"container_name", "id"} => Harmless("node1", f) = {}
      /\ \A f : Harmless("node2", f) = {}
  BY DEF Harmless
<1>4. /\ {"10.1.0.1/29", "10.1.0.1", "10.1.0.2/29", "10.1.0.3/29"} \subseteq DOMAIN Address
      /\ Address["10.1.0.1/29"] = 1 /\ Address["10.1.0.1"] = 1
      /\ Address["10.1.0.2/29"] = 2 /\ Address["10.1.0.3/29"] = 3
  BY DEF Address
<1>5. \A id, name, ip :
        /\ DOMAIN BaseNode(id, name, ip) = {"id", "container_name", "ip", "position"}
        /\ BaseNode(id, name, ip).id = Str(id)
        /\ BaseNode(id, name, ip).container_name = name
        /\ BaseNode(id, name, ip).ip = Str(ip)
        /\ BaseNode(id, name, ip).position = List(<<Num(1), Num(0), Num(0)>>)
  BY DEF BaseNode
<1>6. CASE k = 1
  <2>0. /\ DOMAIN BaseValues.node0 = {"id", "container_name", "ip", "position"}
        /\ BaseValues.node0.id = Str("gcs") /\ BaseValues.node0.container_name = Str("gcs0")
        /\ BaseValues.node0.ip = Str("10.1.0.1/29")
        /\ BaseValues.node0.position = List(<<Num(1), Num(0), Num(0)>>)
    <3>1. BaseValues.node0 = BaseNode("gcs", Str("gcs0"), "10.1.0.1/29")
      BY Zenon DEF BaseValues
    <3> QED
      BY <1>5, <3>1, SMT
  <2>1. /\ d.node0.id = Str("gcs") /\ d.node0.container_name \in {Str("gcs0"), Padded("gcs0")}
        /\ d.node0.ip \in {Str("10.1.0.1/29"), Str("10.1.0.1")}
        /\ d.node0["?"] = Missing /\ \A f \in Names(NodeChecks) : d.node0[f] = Missing
    BY <1>1, <1>2, <1>3, <2>0, HarmlessField
  <2>2. d.node0.position = List(<<Num(1), Num(0), Num(0)>>)
    BY <1>1, <1>2, <1>3, <2>0, HarmlessField
  <2> QED
    BY <1>2, <1>4, <1>6, <2>1, <2>2
<1>7. CASE k = 2
  <2>0. /\ DOMAIN BaseValues.node1 = {"id", "container_name", "ip", "position"}
        /\ BaseValues.node1.id = Str("dr1") /\ BaseValues.node1.container_name = Missing
        /\ BaseValues.node1.ip = Str("10.1.0.2/29")
        /\ BaseValues.node1.position = List(<<Num(1), Num(0), Num(0)>>)
    <3>1. BaseValues.node1 = BaseNode("dr1", Missing, "10.1.0.2/29")
      BY Zenon DEF BaseValues
    <3> QED
      BY <1>5, <3>1, SMT
  <2>1. /\ d.node1.id \in {Str("dr1"), Padded("dr1")}
        /\ d.node1.container_name \in {Missing, Str("dr1")}
        /\ d.node1.ip = Str("10.1.0.2/29")
        /\ d.node1["?"] = Missing /\ \A f \in Names(NodeChecks) : d.node1[f] = Missing
    BY <1>1, <1>2, <1>3, <2>0, HarmlessField
  <2>2. d.node1.position = List(<<Num(1), Num(0), Num(0)>>)
    BY <1>1, <1>2, <1>3, <2>0, HarmlessField
  <2> QED
    BY <1>2, <1>4, <1>7, <2>1, <2>2
<1>8. CASE k = 3
  <2>0. /\ DOMAIN BaseValues.node2 = {"id", "container_name", "ip", "position"}
        /\ BaseValues.node2.id = Str("dr2") /\ BaseValues.node2.container_name = Missing
        /\ BaseValues.node2.ip = Str("10.1.0.3/29")
        /\ BaseValues.node2.position = List(<<Num(1), Num(0), Num(0)>>)
    <3>1. BaseValues.node2 = BaseNode("dr2", Missing, "10.1.0.3/29")
      BY Zenon DEF BaseValues
    <3> QED
      BY <1>5, <3>1, SMT
  <2>1. /\ d.node2.id = Str("dr2") /\ d.node2.container_name = Missing
        /\ d.node2.ip = Str("10.1.0.3/29")
        /\ d.node2["?"] = Missing /\ \A f \in Names(NodeChecks) : d.node2[f] = Missing
    BY <1>1, <1>2, <1>3, <2>0, HarmlessField
  <2>2. d.node2.position = List(<<Num(1), Num(0), Num(0)>>)
    BY <1>1, <1>2, <1>3, <2>0, HarmlessField
  <2> QED
    BY <1>2, <1>4, <1>8, <2>1, <2>2
<1> QED
  BY <1>6, <1>7, <1>8

-----------------------------------------------------------------------------
(* Each section of a harmless document passes its checks.                  *)

\* Checks that all pass raise nothing.
LEMMA AllPass ==
  ASSUME NEW checks, \A k \in DOMAIN checks : checks[k] = "ok"
  PROVE  First(checks) = "ok"
  BY DEF First

\* A Must whose condition holds raises nothing.
LEMMA MustPasses == ASSUME NEW c, c PROVE Must(c) = "ok"
  BY DEF Must, Unless

\* Fields that are left out raise nothing.
LEMMA ScalarsPass ==
  ASSUME NEW s, NEW checks,
         \A k \in DOMAIN checks : \/ Get(s, checks[k][1]) = Missing
                                  \/ Check(checks[k][2], Get(s, checks[k][1])) = "ok"
  PROVE  Scalars(s, checks) = "ok"
<1> DEFINE all == [k \in DOMAIN checks |->
                    LET v == Get(s, checks[k][1]) IN Optional(v, Check(checks[k][2], v))]
<1>1. \A k \in DOMAIN all : all[k] = "ok"
  BY DEF Optional
<1>2. First(all) = "ok"
  <2> HIDE DEF all
  <2> QED
    BY <1>1, AllPass
<1> QED
  BY <1>2 DEF Scalars

\* So do two checks that pass.
LEMMA TwoPass == \A a, b : a = "ok" /\ b = "ok" => First(<<a, b>>) = "ok"
<1> TAKE a, b
<1> HAVE a = "ok" /\ b = "ok"
<1>1. \A k \in DOMAIN <<a, b>> : <<a, b>>[k] = "ok"
  OBVIOUS
<1> QED
  BY <1>1, AllPass

\* A well-formed name passes.
LEMMA NamesPass ==
  ASSUME NEW v, v.type = "str", v.text # "", v.text \notin IllFormed
  PROVE  RequireString(v) = "ok" /\ Name(v) = "ok"
<1>1. RequireString(v) = "ok"
  BY DEF RequireString, Unless
<1>2. Must(v.text \notin IllFormed) = "ok"
  BY DEF Must, Unless
<1> QED
  BY <1>1, <1>2, TwoPass, Zenon DEF Name

\* The types and texts that the documents are made of.
LEMMA TextsAre ==
  /\ \A t : /\ Str(t).type = "str" /\ Str(t).text = t
            /\ Padded(t).type = "str" /\ Padded(t).text = t
  /\ Missing.type = "missing" /\ Null.type = "null" /\ Map.type = "map"
  /\ \A x : List(x).type = "list" /\ List(x).items = x
  /\ Str("") # Missing
  BY DEF Str, Padded, Missing, Null, Map, List, Value

\* No unknown key, and every section a mapping: Structure goes on.
LEMMA StructurePasses ==
  ASSUME IsDocument(doc), IsHarmless(doc), Structure
  PROVE  pc' = "experiment" /\ error' = "ok"
<1> DEFINE filter == Get("capture", "filter")
           checks == <<Mapping("experiment"), Mapping("protocol"), Mapping("wireless"),
                       KnownFields("config"), KnownFields("experiment"),
                       KnownFields("protocol"), KnownFields("wireless"),
                       Must(doc.config.capture = Map \/ Falsy(doc.config.capture)),
                       KnownFields("capture"),
                       Must(filter \in {Missing, Null} \/ filter.type = "str")>>
<1>1. Then(First(checks), "experiment")
  BY DEF Structure
<1>2. \A s \in {"experiment", "protocol", "wireless"} : Mapping(s) = "ok"
  BY HarmlessSections DEF Mapping, Unless
<1>3. \A s \in TopSections : KnownFields(s) = "ok"
  BY HarmlessSections, HarmlessExperiment, HarmlessProtocol, HarmlessWireless,
     HarmlessBinaries, HarmlessGet DEF KnownFields, Unless, TopSections
<1>4. Must(doc.config.capture = Map \/ Falsy(doc.config.capture)) = "ok"
  <2>1. Falsy(Missing)
    BY DEF Falsy
  <2> QED
    BY <2>1, HarmlessSections, MustPasses
<1>5. Must(filter \in {Missing, Null} \/ filter.type = "str") = "ok"
  <2>1. filter \in {Missing, Null} \/ filter.type = "str"
    <3>1. doc.capture.filter \in {Missing, Str(""), Padded("udp")}
      BY HarmlessBinaries
    <3>2. filter \in {Missing, Str(""), Padded("udp")}
      BY <3>1, HarmlessGet
    <3>3. Str("").type = "str" /\ Padded("udp").type = "str"
      BY TextsAre
    <3> QED
      BY <3>2, <3>3
  <2> QED
    BY <2>1, MustPasses
<1>6. DOMAIN checks = 1..10 /\ \A k \in 1..10 : checks[k] = "ok"
  BY <1>2, <1>3, <1>4, <1>5 DEF TopSections
<1> HIDE DEF checks
<1> QED
  BY <1>1, <1>6, AllPass DEF Then

\* Experiment goes on.
LEMMA ExperimentPasses ==
  ASSUME IsDocument(doc), IsHarmless(doc), Experiment
  PROVE  pc' = "protocol" /\ error' = "ok"
<1> DEFINE checks == <<Name(Get("experiment", "id")),
                       Scalars("experiment", ExperimentChecks)>>
<1>1. Then(First(checks), "protocol")
  BY DEF Experiment
<1>2. Name(Get("experiment", "id")) = "ok"
  <2>1. "exp" # "" /\ "exp" \notin IllFormed
    BY DEF IllFormed
  <2> QED
    <3>1. Get("experiment", "id") = Str("exp")
      BY HarmlessExperiment, HarmlessGet
    <3>2. Str("exp").type = "str" /\ Str("exp").text = "exp"
      BY TextsAre
    <3> QED
      BY <2>1, <3>1, <3>2, NamesPass
<1>3. Scalars("experiment", ExperimentChecks) = "ok"
  <2>1. Check("non-negative", Num(0)) = "ok"
    <3>1. RequireNumber(Num(0)) = "ok" /\ Unless(~Below(Num(0), 0), "ConfigError") = "ok"
      BY DEF RequireNumber, Unless, Below, Num, Value
    <3>2. First(<<RequireNumber(Num(0)), Unless(~Below(Num(0), 0), "ConfigError")>>) = "ok"
      BY <3>1, AllPass
    <3> QED
      BY <3>2 DEF Check, NonNegativeFloat
  <2>2. DOMAIN ExperimentChecks = 1..5
    BY DEF ExperimentChecks
  <2>3. \A k \in 1..5 : /\ ExperimentChecks[k][1] \in Names(ExperimentChecks)
                        /\ ExperimentChecks[k][1] = "drain_seconds" =>
                             ExperimentChecks[k][2] = "non-negative"
    <3>1. \A k \in 1..5 : k = 1 \/ k = 2 \/ k = 3 \/ k = 4 \/ k = 5
      OBVIOUS
    <3>2. /\ ExperimentChecks[1][1] = "duration_seconds"
          /\ ExperimentChecks[2][1] = "receiver_startup_seconds"
          /\ ExperimentChecks[3][1] = "shutdown_timeout_seconds"
          /\ ExperimentChecks[4][1] = "network_ready_timeout_seconds"
          /\ ExperimentChecks[5][2] = "non-negative"
      BY DEF ExperimentChecks
    <3> QED
      BY <2>2, <3>1, <3>2 DEF Names
  <2>4. \A k \in DOMAIN ExperimentChecks :
          \/ Get("experiment", ExperimentChecks[k][1]) = Missing
          \/ Check(ExperimentChecks[k][2], Get("experiment", ExperimentChecks[k][1])) = "ok"
    BY <2>1, <2>2, <2>3, HarmlessExperiment, HarmlessGet
  <2> QED
    BY <2>4, ScalarsPass
<1>4. DOMAIN checks = 1..2 /\ \A k \in 1..2 : checks[k] = "ok"
  BY <1>2, <1>3
<1> HIDE DEF checks
<1> QED
  BY <1>1, <1>4, AllPass DEF Then

\* What a harmless protocol section says.
LEMMA ProtocolIs ==
  ASSUME IsDocument(doc), IsHarmless(doc)
  PROVE  /\ Mode \in {"unicast", "broadcast"} /\ IsPort(Port)
         /\ Sender \in {"dr1", "dr2"} /\ DOMAIN Receivers = 1..1 /\ Receivers[1] = "gcs"
         /\ Len(Receivers) = 1
         /\ Get("protocol", "receivers") = List(<<Str("gcs")>>)
<1>1. Mode \in {"unicast", "broadcast"} /\ Sender \in {"dr1", "dr2"}
  <2>1. /\ Get("protocol", "mode") \in {Str("unicast"), Str("broadcast"), Padded("broadcast")}
        /\ Get("protocol", "sender") \in {Str("dr1"), Padded("dr1"), Str("dr2")}
    BY HarmlessProtocol, HarmlessGet
  <2>2. /\ Str("unicast").text = "unicast" /\ Str("broadcast").text = "broadcast"
        /\ Padded("broadcast").text = "broadcast"
        /\ Str("dr1").text = "dr1" /\ Padded("dr1").text = "dr1" /\ Str("dr2").text = "dr2"
    BY TextsAre
  <2> QED
    BY <2>1, <2>2 DEF Mode, Sender
<1>2. IsPort(Port)
  BY HarmlessProtocol, HarmlessGet DEF Port
<1>3. Get("protocol", "receivers") = List(<<Str("gcs")>>)
  BY HarmlessProtocol, HarmlessGet
<1>4. Get("protocol", "receivers").items = <<Str("gcs")>>
  BY <1>3, TextsAre
<1>5. Receivers = [k \in 1..1 |-> <<Str("gcs")>>[k].text]
  BY <1>4 DEF Receivers
<1>6. Receivers = [k \in 1..1 |-> "gcs"]
  <2>1. Str("gcs").text = "gcs"
    BY TextsAre
  <2>2. \A k \in 1..1 : <<Str("gcs")>>[k] = Str("gcs")
    OBVIOUS
  <2> QED
    BY <1>5, <2>1, <2>2
<1>7. Len(Receivers) = 1
  BY <1>6
<1> QED
  BY <1>1, <1>2, <1>3, <1>6, <1>7

\* Protocol goes on.
LEMMA ProtocolPasses ==
  ASSUME IsDocument(doc), IsHarmless(doc), Protocol
  PROVE  pc' = "wireless" /\ error' = "ok"
<1> DEFINE receivers == Get("protocol", "receivers")
           mode   == Optional(Get("protocol", "mode"),
                              RequireString(Get("protocol", "mode")))
           known  == Must(Mode \in {"unicast", "broadcast"})
           port   == PositiveInt(Port)
           bound  == Must(ValidPort)
           sender == RequireString(Get("protocol", "sender"))
           list   == Must(receivers.type = "list")
           items  == First([k \in DOMAIN receivers.items |->
                              RequireString(receivers.items[k])])
           once   == Must(NoDuplicate)
           other  == Must(\A k \in DOMAIN Receivers : Receivers[k] # Sender)
           one    == Must(Mode = "unicast" => Len(Receivers) = 1)
           some   == Must(Mode = "broadcast" => Receivers # << >>)
           checks == <<mode, known, port, bound, sender, list, items, once,
                       other, one, some>>
<1>1. Then(First(checks), "wireless")
  BY DEF Protocol
<1>2. mode = "ok" /\ sender = "ok"
  <2>1. /\ Get("protocol", "mode") \in {Str("unicast"), Str("broadcast"), Padded("broadcast")}
        /\ Get("protocol", "sender") \in {Str("dr1"), Padded("dr1"), Str("dr2")}
    BY HarmlessProtocol, HarmlessGet
  <2>2. \A t : t # "" => RequireString(Str(t)) = "ok" /\ RequireString(Padded(t)) = "ok"
    <3> TAKE t
    <3> HAVE t # ""
    <3>1. \A v : v.type = "str" /\ v.text # "" => RequireString(v) = "ok"
      BY DEF RequireString, Unless
    <3> QED
      BY <3>1, TextsAre, Zenon
  <2>3. /\ RequireString(Str("unicast")) = "ok" /\ RequireString(Str("broadcast")) = "ok"
        /\ RequireString(Padded("broadcast")) = "ok"
        /\ RequireString(Str("dr1")) = "ok" /\ RequireString(Padded("dr1")) = "ok"
        /\ RequireString(Str("dr2")) = "ok"
    BY <2>2
  <2> QED
    BY <2>1, <2>3 DEF Optional
<1>3. known = "ok" /\ one = "ok"
  BY ProtocolIs, MustPasses
<1>4. port = "ok" /\ bound = "ok"
  <2>1. Port.type = "int" /\ Port.num > 0 /\ Port.num <= MaxPort
    BY ProtocolIs, MaxPortIs DEF IsPort
  <2> QED
    BY <2>1, MustPasses DEF PositiveInt, Unless, ValidPort
<1>5. list = "ok"
  BY ProtocolIs, TextsAre, MustPasses
<1>6. items = "ok"
  <2>1. receivers.items = <<Str("gcs")>>
    BY ProtocolIs, TextsAre
  <2>2. RequireString(Str("gcs")) = "ok"
    BY TextsAre DEF RequireString, Unless
  <2>3. \A k \in DOMAIN receivers.items : RequireString(receivers.items[k]) = "ok"
    BY <2>1, <2>2
  <2> QED
    BY <2>3, AllPass
<1>7. once = "ok"
  <2>1. {Receivers[k] : k \in DOMAIN Receivers} = {"gcs"}
    BY ProtocolIs
  <2>2. Cardinality({"gcs"}) = 1
    BY FS_Singleton
  <2> QED
    BY <2>1, <2>2, ProtocolIs, MustPasses DEF NoDuplicate
<1>8. other = "ok"
  <2>1. \A k \in DOMAIN Receivers : Receivers[k] # Sender
    BY ProtocolIs
  <2> QED
    BY <2>1, MustPasses
<1>9. some = "ok"
  <2>1. Receivers # << >>
    BY ProtocolIs
  <2> QED
    BY <2>1, MustPasses
<1> HIDE DEF mode, known, port, bound, sender, list, items, once, other, one, some
<1>10. DOMAIN checks = 1..11 /\ \A k \in 1..11 : checks[k] = "ok"
  BY <1>2, <1>3, <1>4, <1>5, <1>6, <1>7, <1>8, <1>9
<1> HIDE DEF checks
<1> QED
  BY <1>1, <1>10, AllPass DEF Then

\* Wireless goes on.
LEMMA WirelessPasses ==
  ASSUME IsDocument(doc), IsHarmless(doc), Wireless
  PROVE  pc' = "node" /\ error' = "ok"
<1> DEFINE subnet    == Get("wireless", "subnet")
           broadcast == Get("wireless", "broadcast_ip")
           text    == RequireString(subnet)
           valid   == Must(subnet.text \in Subnets)
           four    == Must(subnet.text # "fd00::/64")
           last    == Must(broadcast \in {Missing, Str("10.1.0.7"), Padded("10.1.0.7")})
           others  == Scalars("wireless", WirelessChecks)
           list    == Must(doc.config.nodes.type = "list")
           some    == Must(doc.config.nodes.items # << >>)
           checks  == <<text, valid, four, last, others, list, some>>
<1>1. Then(First(checks), "node")
  BY DEF Wireless
<1>2. /\ subnet = Str("10.1.0.0/29")
      /\ broadcast \in {Missing, Str("10.1.0.7"), Padded("10.1.0.7")}
  BY HarmlessWireless, HarmlessGet
<1>3. subnet.type = "str" /\ subnet.text = "10.1.0.0/29"
  BY <1>2, TextsAre
<1>4. text = "ok" /\ valid = "ok" /\ four = "ok" /\ last = "ok"
  BY <1>2, <1>3, MustPasses DEF RequireString, Unless, Subnets
<1>5. others = "ok"
  <2>1. \A k \in DOMAIN WirelessChecks : Get("wireless", WirelessChecks[k][1]) = Missing
    BY HarmlessWireless, HarmlessGet DEF Names
  <2> QED
    BY <2>1, ScalarsPass
<1>6. list = "ok" /\ some = "ok"
  <2>1. doc.config.nodes = List(<<Map, Map, Map>>)
    BY HarmlessSections
  <2>2. doc.config.nodes.type = "list" /\ doc.config.nodes.items = <<Map, Map, Map>>
    BY <2>1, TextsAre
  <2> QED
    <3>1. <<Map, Map, Map>> # << >>
      OBVIOUS
    <3> QED
      BY <2>2, <3>1, MustPasses
<1> HIDE DEF text, valid, four, last, others, list, some
<1>7. DOMAIN checks = 1..7 /\ \A k \in 1..7 : checks[k] = "ok"
  BY <1>4, <1>5, <1>6
<1> HIDE DEF checks
<1> QED
  BY <1>1, <1>7, AllPass DEF Then

\* The nodes taken are those of config.yml in small.
AsGiven ==
  \A k \in DOMAIN nodes :
    nodes[k] = [id |-> Ids[k], station |-> Stations[k], address |-> k]

\* The node at hand, as it is read.
LEMMA CurrentIs ==
  ASSUME IsDocument(doc), IsHarmless(doc), NEW k \in 1..3, Len(nodes) + 1 = k
  PROVE  /\ Get(Current, "id") \in {Str(Ids[k]), Padded(Ids[k])} /\ Id = Ids[k]
         /\ Get(Current, "container_name") \in {Missing, Str(Stations[k]), Padded(Stations[k])}
         /\ Station = Stations[k] /\ HostAddress = k
         /\ Get(Current, "ip").type = "str" /\ Get(Current, "ip").text # ""
         /\ Get(Current, "position") = List(<<Num(1), Num(0), Num(0)>>)
         /\ \A f \in Names(NodeChecks) : Get(Current, f) = Missing
         /\ Get(Current, "?") = Missing
<1>1. Current = NodeNames[k]
  BY DEF Current
<1>2. Current \in NodeSections
  BY <1>1 DEF NodeNames, NodeSections
<1>3. \A f : Get(Current, f) = doc[NodeNames[k]][f]
  BY <1>1, <1>2, HarmlessGet
<1>4. Get(Current, "id") \in {Str(Ids[k]), Padded(Ids[k])}
  BY <1>3, HarmlessNode
<1>5. Id = Ids[k]
  BY <1>4, TextsAre DEF Id
<1>6. \/ Get(Current, "container_name") \in {Str(Stations[k]), Padded(Stations[k])}
      \/ Get(Current, "container_name") = Missing /\ Stations[k] = Ids[k]
  BY <1>3, HarmlessNode
<1>7. Station = Stations[k]
  <2>1. \A t : Str(t) # Missing /\ Padded(t) # Missing
    BY TextsAre
  <2> QED
    BY <1>5, <1>6, <2>1, TextsAre DEF Station
<1>8. PICK ip \in DOMAIN Address : Get(Current, "ip") = Str(ip) /\ Address[ip] = k
  BY <1>3, HarmlessNode
<1>9. Get(Current, "ip").type = "str" /\ Get(Current, "ip").text = ip
  BY <1>8, TextsAre
<1>10. ip # ""
  BY DEF Address
<1>11. HostAddress = k
  BY <1>8, <1>9 DEF HostAddress
<1>12. /\ Get(Current, "position") = List(<<Num(1), Num(0), Num(0)>>)
       /\ \A f \in Names(NodeChecks) : Get(Current, f) = Missing
       /\ Get(Current, "?") = Missing
  BY <1>3, HarmlessNode
<1> QED
  BY <1>4, <1>5, <1>6, <1>7, <1>9, <1>10, <1>11, <1>12

\* The checks of a node, when those before it are as in config.yml, all pass.
LEMMA NodePasses ==
  ASSUME IsDocument(doc), IsHarmless(doc), AsGiven, NEW k \in 1..3, Len(nodes) + 1 = k,
         DOMAIN nodes = 1..(k - 1)
  PROVE  NodeCheck = "ok"
<1> DEFINE position == Get(Current, "position")
           map      == Must(doc.config.nodes.items[Len(nodes) + 1] = Map)
           fields   == KnownFields(Current)
           name     == Name(Get(Current, "id"))
           newId    == Must(Having("id", Id) = {})
           station  == Optional(Get(Current, "container_name"),
                                Name(Get(Current, "container_name")))
           digit    == Must(Station \notin NoDigit)
           newName  == Must(Having("station", Station) = {})
           short    == Must(Station \notin TooLong)
           text     == RequireString(Get(Current, "ip"))
           in       == Must(InSubnet)
           host     == Must(HostAddress \notin {Network, Broadcast})
           newIp    == Must(Having("address", HostAddress) = {})
           three    == Must(position.type = "list" /\ Len(position.items) = 3)
           numbers  == First([j \in DOMAIN position.items |->
                                RequireNumber(position.items[j])])
           scalars  == Scalars(Current, NodeChecks)
           checks   == <<map, fields, name, newId, station, digit, newName, short,
                         text, in, host, newIp, three, numbers, scalars>>
<1>1. NodeCheck = First(checks)
  BY DEF NodeCheck
<1>2. map = "ok"
  <2>1. doc.config.nodes = List(<<Map, Map, Map>>)
    BY HarmlessSections
  <2>2. doc.config.nodes.items = <<Map, Map, Map>>
    BY <2>1, TextsAre
  <2>3. doc.config.nodes.items[Len(nodes) + 1] = Map
    BY <2>2
  <2> QED
    BY <2>3, MustPasses
<1>3. fields = "ok"
  BY CurrentIs DEF KnownFields, Unless
<1>4. /\ \A j \in 1..3 : Ids[j] # "" /\ Ids[j] \notin IllFormed
      /\ \A j \in 1..3 : /\ Stations[j] # ""
                         /\ Stations[j] \notin IllFormed \union NoDigit \union TooLong
  BY DEF Ids, Stations, IllFormed, NoDigit, TooLong
<1>5. name = "ok"
  <2>1. Get(Current, "id").type = "str" /\ Get(Current, "id").text = Ids[k]
    <3>1. Get(Current, "id") = Str(Ids[k]) \/ Get(Current, "id") = Padded(Ids[k])
      BY CurrentIs
    <3> QED
      BY <3>1, TextsAre, Zenon
  <2> QED
    BY <1>4, <2>1, NamesPass
<1>6. station = "ok"
  <2>1. CASE Get(Current, "container_name") = Missing
    BY <2>1 DEF Optional
  <2>2. CASE Get(Current, "container_name") # Missing
    <3>1. /\ Get(Current, "container_name").type = "str"
          /\ Get(Current, "container_name").text = Stations[k]
      <4>1. \/ Get(Current, "container_name") = Str(Stations[k])
            \/ Get(Current, "container_name") = Padded(Stations[k])
        BY <2>2, CurrentIs
      <4> QED
        BY <4>1, TextsAre, Zenon
    <3>2. Name(Get(Current, "container_name")) = "ok"
      BY <1>4, <3>1, NamesPass
    <3> QED
      BY <3>2 DEF Optional
  <2> QED
    BY <2>1, <2>2
<1>7. digit = "ok" /\ short = "ok"
  <2>1. Station \notin NoDigit /\ Station \notin TooLong
    BY <1>4, CurrentIs
  <2> QED
    BY <2>1, MustPasses
<1>8. newId = "ok" /\ newName = "ok" /\ newIp = "ok"
  <2>1. \A j \in DOMAIN nodes : /\ nodes[j].id # Ids[k] /\ nodes[j].station # Stations[k]
                                /\ nodes[j].address # k
    BY DEF AsGiven, Ids, Stations
  <2>2. Having("id", Id) = {} /\ Having("station", Station) = {}
    BY <2>1, CurrentIs DEF Having
  <2>3. Having("address", HostAddress) = {}
    BY <2>1, CurrentIs DEF Having
  <2> QED
    BY <2>2, <2>3, MustPasses
<1>9. text = "ok"
  BY CurrentIs DEF RequireString, Unless
<1>10. in = "ok" /\ host = "ok"
  <2>1. InSubnet /\ HostAddress \notin {Network, Broadcast}
    <3>1. HostAddress = k
      BY CurrentIs
    <3>2. k \in Network..Broadcast /\ k # Network /\ k # Broadcast
      BY DEF Network, Broadcast
    <3> QED
      BY <3>1, <3>2 DEF InSubnet
  <2> QED
    BY <2>1, MustPasses
<1>11. position.type = "list" /\ position.items = <<Num(1), Num(0), Num(0)>>
  <2>1. position = List(<<Num(1), Num(0), Num(0)>>)
    BY CurrentIs
  <2>2. \A x : List(x).type = "list" /\ List(x).items = x
    BY TextsAre, Zenon
  <2> HIDE DEF position
  <2> QED
    BY <2>1, <2>2, Zenon
<1>12. three = "ok"
  <2>1. \A x, y, z : Len(<<x, y, z>>) = 3
    OBVIOUS
  <2>2. Len(position.items) = 3
    BY <1>11, <2>1, Zenon
  <2> QED
    BY <1>11, <2>2, MustPasses
<1>13. numbers = "ok"
  <2>1. RequireNumber(Num(0)) = "ok" /\ RequireNumber(Num(1)) = "ok"
    BY DEF RequireNumber, Unless, Num, Value
  <2>2. \A j \in DOMAIN position.items : RequireNumber(position.items[j]) = "ok"
    BY <1>11, <2>1
  <2> QED
    BY <2>2, AllPass
<1>14. scalars = "ok"
  <2>1. \A j \in DOMAIN NodeChecks : Get(Current, NodeChecks[j][1]) = Missing
    BY CurrentIs DEF Names
  <2> QED
    BY <2>1, ScalarsPass
<1> HIDE DEF map, fields, name, newId, station, digit, newName, short, text, in,
             host, newIp, three, numbers, scalars
<1>15. DOMAIN checks = 1..15 /\ \A j \in 1..15 : checks[j] = "ok"
  BY <1>2, <1>3, <1>5, <1>6, <1>7, <1>8, <1>9, <1>10, <1>12, <1>13, <1>14
<1> HIDE DEF checks
<1> QED
  BY <1>1, <1>15, AllPass

\* A harmless document is not refused, and its nodes are taken as config.yml's are.
HarmlessInv == IsHarmless(doc) => pc # "rejected" /\ AsGiven

\* Sender and receiver are among the three nodes: References goes on.
LEMMA ReferencesPass ==
  ASSUME IInv, IsHarmless(doc), AsGiven, References
  PROVE  pc' = "binaries" /\ error' = "ok"
<1> DEFINE named  == Must(Having("id", Sender) # {})
           all    == Must(\A k \in DOMAIN Receivers : Having("id", Receivers[k]) # {})
           checks == <<named, all>>
<1>1. pc = "references" /\ Then(First(checks), "binaries")
  BY DEF References
<1>2. Len(nodes) = 3 /\ DOMAIN nodes = 1..3
  <2>1. doc.config.nodes = List(<<Map, Map, Map>>)
    BY HarmlessSections DEF IInv
  <2>2. \A x, y, z : Len(<<x, y, z>>) = 3
    OBVIOUS
  <2>3. Len(doc.config.nodes.items) = 3
    <3>1. doc.config.nodes.items = <<Map, Map, Map>>
      BY <2>1, TextsAre
    <3> QED
      BY <2>2, <3>1, Zenon
  <2> QED
    BY <1>1, <2>3 DEF IInv, CInv, Counted, AfterNodes
<1>3. nodes[1].id = "gcs" /\ nodes[2].id = "dr1" /\ nodes[3].id = "dr2"
  BY <1>2 DEF AsGiven, Ids
<1>4. \A x \in {"gcs", "dr1", "dr2"} : Having("id", x) # {}
  BY <1>2, <1>3 DEF Having
<1>5. Having("id", Sender) # {} /\ \A k \in DOMAIN Receivers : Having("id", Receivers[k]) # {}
  BY <1>4, ProtocolIs DEF IInv
<1>6. named = "ok" /\ all = "ok"
  BY <1>5, MustPasses
<1> HIDE DEF named, all
<1>7. First(checks) = "ok"
  BY <1>6, TwoPass
<1> HIDE DEF checks
<1> QED
  BY <1>1, <1>7 DEF Then

\* Both executables are programs in bin: Binaries accepts.
LEMMA BinariesPass ==
  ASSUME IsDocument(doc), IsHarmless(doc), Binaries
  PROVE  pc' = "accepted" /\ error' = "ok"
<1> DEFINE mapping == Mapping("binaries")
           fields  == KnownFields("binaries")
           checks  == <<mapping, fields, Executable("sender"), Executable("receiver")>>
<1>1. Then(First(checks), "accepted")
  BY DEF Binaries
<1>2. mapping = "ok"
  BY HarmlessSections DEF Mapping, Unless
<1>3. fields = "ok"
  BY HarmlessBinaries, HarmlessGet DEF KnownFields, Unless
<1>4. ASSUME NEW role \in {"sender", "receiver"} PROVE Executable(role) = "ok"
  <2> DEFINE text  == Optional(Get("binaries", role),
                                RequireString(Get("binaries", role)))
             there == Must(Real(role) # None)
             runs1 == Must(Real(role) # None => RealPath[Real(role)] \in Programs)
             in    == Must(Real(role) \in InBinDir)
             four  == <<text, there, runs1, in>>
  <2>1. Get("binaries", role) \in {Missing, Str("bin/alias"), Str("bin/receiver")}
    BY HarmlessBinaries, HarmlessGet
  <2>2. text = "ok"
    <3>1. /\ Str("bin/alias").type = "str" /\ Str("bin/alias").text = "bin/alias"
          /\ Str("bin/receiver").type = "str" /\ Str("bin/receiver").text = "bin/receiver"
      BY TextsAre
    <3> QED
      BY <2>1, <3>1 DEF Optional, RequireString, Unless
  <2>3. Given(role) \in {DefaultPath[role], "bin/alias", "bin/receiver"}
    BY <2>1, TextsAre DEF Given
  <2>4. Given(role) \in {"bin/sender", "bin/alias", "bin/receiver"}
    BY <2>3 DEF DefaultPath
  <2>5. /\ Given(role) \in DOMAIN RealPath
        /\ RealPath[Given(role)] \in {"bin/sender", "bin/receiver"}
    BY <2>4 DEF RealPath
  <2>6. Real(role) \in {"bin/sender", "bin/receiver"}
    BY <2>5 DEF Real
  <2>7. /\ "bin/sender" \in InBinDir /\ "bin/receiver" \in InBinDir
        /\ RealPath["bin/sender"] \in Programs /\ RealPath["bin/receiver"] \in Programs
    BY DEF InBinDir, RealPath, Programs
  <2>8. /\ Real(role) # None /\ Real(role) \in InBinDir
        /\ RealPath[Real(role)] \in Programs
    BY <2>6, <2>7 DEF None
  <2>9. there = "ok" /\ runs1 = "ok" /\ in = "ok"
    BY <2>8, MustPasses
  <2>10. Executable(role) = First(four)
    BY DEF Executable
  <2> HIDE DEF text, there, runs1, in
  <2>11. DOMAIN four = 1..4 /\ \A k \in 1..4 : four[k] = "ok"
    BY <2>2, <2>9
  <2> HIDE DEF four
  <2> QED
    BY <2>10, <2>11, AllPass
<1> HIDE DEF mapping, fields
<1>5. DOMAIN checks = 1..4 /\ \A k \in 1..4 : checks[k] = "ok"
  BY <1>2, <1>3, <1>4
<1> HIDE DEF checks
<1> QED
  BY <1>1, <1>5, AllPass DEF Then

\* Node takes the node as config.yml gives it.
LEMMA NodeTakes ==
  ASSUME IInv, IsHarmless(doc), AsGiven, Node
  PROVE  pc' # "rejected" /\ AsGiven'
<1> DEFINE new == [id |-> Id, station |-> Station, address |-> HostAddress]
<1>1. /\ pc = "node" /\ Then(NodeCheck, IF Len(nodes) + 1 = Len(doc.config.nodes.items)
                                        THEN "references" ELSE "node")
      /\ nodes' = IF error' # "ok" THEN nodes ELSE Append(nodes, new)
  BY DEF Node
<1>2. PICK k \in 1..3 : /\ Len(nodes) + 1 = k /\ DOMAIN nodes = 1..(k - 1)
                        /\ nodes \in Seq({nodes[j] : j \in DOMAIN nodes})
  <2>1. doc.config.nodes = List(<<Map, Map, Map>>)
    BY HarmlessSections DEF IInv
  <2>2. \A x, y, z : Len(<<x, y, z>>) = 3
    OBVIOUS
  <2>3. Len(doc.config.nodes.items) = 3
    <3>1. doc.config.nodes.items = <<Map, Map, Map>>
      BY <2>1, TextsAre
    <3> QED
      BY <2>2, <3>1, Zenon
  <2>4. nodes \in Seq({nodes[j] : j \in DOMAIN nodes}) /\ Len(nodes) < 3
    BY <1>1, <2>3 DEF IInv, CInv, Counted
  <2>5. PICK n \in Nat : n = Len(nodes) /\ DOMAIN nodes = 1..n
    BY <2>4
  <2>6. n + 1 \in 1..3 /\ n = (n + 1) - 1
    BY <2>4, <2>5
  <2> QED
    BY <2>4, <2>5, <2>6
<1>3. NodeCheck = "ok"
  BY <1>2, NodePasses DEF IInv
<1>4. pc' # "rejected" /\ error' = "ok"
  BY <1>1, <1>3 DEF Then
<1>5. new = [id |-> Ids[k], station |-> Stations[k], address |-> k]
  BY <1>2, CurrentIs DEF IInv
<1> HIDE DEF new
<1>6. nodes' = Append(nodes, new)
  BY <1>1, <1>4
<1>7. /\ DOMAIN nodes' = 1..k /\ nodes'[k] = new
      /\ \A j \in 1..(k - 1) : nodes'[j] = nodes[j]
  BY <1>2, <1>6, AppendIs
<1>8. AsGiven'
  <2>1. \A j \in 1..k : j = k \/ j \in 1..(k - 1)
    OBVIOUS
  <2>2. \A j \in 1..k : nodes'[j] = [id |-> Ids[j], station |-> Stations[j], address |-> j]
    BY <1>2, <1>5, <1>7, <2>1 DEF AsGiven
  <2> QED
    BY <1>7, <2>2 DEF AsGiven
<1> QED
  BY <1>4, <1>8

\* Every step of normalize_config keeps that.
LEMMA HarmlessKeeps == ASSUME IInv, HarmlessInv, [Next]_vars PROVE HarmlessInv'
<1>1. doc' = doc
  BY DEF Next, Structure, Experiment, Protocol, Wireless, Node, References,
         Binaries, Done, vars
<1>2. IsHarmless(doc)' <=> IsHarmless(doc)
  BY <1>1 DEF IsHarmless
<1>3. ASSUME IsHarmless(doc) PROVE pc' # "rejected" /\ AsGiven'
  <2>1. IsDocument(doc) /\ AsGiven /\ pc # "rejected"
    BY <1>3 DEF IInv, HarmlessInv
  <2>2. nodes' = nodes => AsGiven'
    BY <2>1 DEF AsGiven
  <2>3. CASE Structure
    BY <1>3, <2>1, <2>2, <2>3, StructurePasses DEF Structure
  <2>4. CASE Experiment
    BY <1>3, <2>1, <2>2, <2>4, ExperimentPasses DEF Experiment
  <2>5. CASE Protocol
    BY <1>3, <2>1, <2>2, <2>5, ProtocolPasses DEF Protocol
  <2>6. CASE Wireless
    BY <1>3, <2>1, <2>2, <2>6, WirelessPasses DEF Wireless
  <2>7. CASE Node
    BY <1>3, <2>1, <2>7, NodeTakes
  <2>8. CASE References
    BY <1>3, <2>1, <2>2, <2>8, ReferencesPass DEF References
  <2>9. CASE Binaries
    BY <1>3, <2>1, <2>2, <2>9, BinariesPass DEF Binaries
  <2>10. CASE UNCHANGED vars
    BY <2>1, <2>2, <2>10 DEF vars
  <2> QED
    BY <2>3, <2>4, <2>5, <2>6, <2>7, <2>8, <2>9, <2>10 DEF Next, Done
<1> QED
  BY <1>2, <1>3 DEF HarmlessInv

\* normalize_config refuses no document for the way it writes config.yml in small, nor
\* for a value at the edge of what a field accepts, however many of its fields differ.
THEOREM HarmlessPasses ==
  (AnySpec => []HarmlessIsAccepted) /\ (Spec => []HarmlessIsAccepted)
<1>1. AnyInit => HarmlessInv
  <2>1. DOMAIN << >> = {}
    OBVIOUS
  <2> QED
    BY <2>1 DEF AnyInit, HarmlessInv, AsGiven
<1>2. IInv /\ HarmlessInv /\ [Next]_vars => HarmlessInv'
  BY HarmlessKeeps
<1>3. HarmlessInv => HarmlessIsAccepted
  BY DEF HarmlessInv, HarmlessIsAccepted
<1>4. AnySpec => []HarmlessIsAccepted
  BY <1>1, <1>2, <1>3, Invariant, PTL DEF AnySpec
<1> QED
  BY <1>4, SpecIsAnySpec, PTL
=============================================================================
