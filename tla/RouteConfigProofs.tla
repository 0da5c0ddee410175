--------------------------- MODULE RouteConfigProofs ---------------------------
(***************************************************************************)
(* TLAPS proofs about RouteConfig, for any clients, tables and number of    *)
(* updates.                                                                 *)
(***************************************************************************)
EXTENDS RouteConfig, SequenceTheorems, WellFoundedInduction, TLAPS

GoodTables == Seq([source : Sources, channel : Channels]) \ {<<>>}

\* The channels a table writes to, as the properties describe them.
Written(table) == {ch \in Channels : RoutedTo(table, ch)}

\* A table that setConfig accepts has a source and a channel in every route, and
\* Router.InboundChannels returns the channels it writes to.
LEMMA ValidTables ==
    ASSUME NEW table \in Seq(Route), Valid(table)
    PROVE  table \in GoodTables
  <1> DEFINE Proper == [source : Sources, channel : Channels]
  <1>1. ASSUME NEW i \in 1 .. Len(table) PROVE table[i] \in Proper
    <2>1. table[i] \in Route /\ table[i].source # None /\ table[i].channel # None
      BY DEF Valid
    <2> QED
      BY <2>1 DEF Route
  <1>2. table # <<>>
    BY DEF Valid
  <1>3. table \in [1 .. Len(table) -> Proper] /\ Len(table) \in Nat
    BY <1>1, LenProperties
  <1>4. table \in Seq(Proper)
    <2> HIDE DEF Proper
    <2> QED
      BY <1>3, SeqDef
  <1> QED
    BY <1>2, <1>4 DEF GoodTables

LEMMA ChannelsOfTable ==
    ASSUME NEW table \in GoodTables
    PROVE  InboundChannels(table) = Written(table)
  <1> DEFINE Proper == [source : Sources, channel : Channels]
  <1>1. table \in Seq(Proper)
    BY DEF GoodTables
  <1>2. DOMAIN table = 1 .. Len(table)
    BY <1>1, LenProperties
  <1>3. ASSUME NEW i \in DOMAIN table PROVE table[i].channel \in Channels
    <2>1. table[i] \in Proper
      BY <1>1, <1>2, <1>3, ElementOfSeq
    <2> QED
      BY <2>1
  <1> QED
    BY <1>3, NoneAssumption DEF InboundChannels, Written, RoutedTo

-----------------------------------------------------------------------------
(* Types.                                                                   *)

\* A POST that runs carries a table that setConfig accepted.
PostedInv == \A c \in Clients : pc[c] # "idle" => Valid(posted[c])

Typed == TypeOK /\ PostedInv

LEMMA InitTyped == Init => Typed
  <1> SUFFICES ASSUME Init PROVE Typed
    OBVIOUS
  <1>1. FileTable \in GoodTables
    BY FileAssumption, ValidTables
  <1>2. inbound = Written(FileTable)
    BY <1>1, ChannelsOfTable DEF Init
  <1>3. installed \in Seq(Seq(Route))
    BY FileAssumption DEF Init
  <1> QED
    BY <1>1, <1>2, <1>3, FileAssumption
    DEF Init, Typed, TypeOK, PostedInv, GoodTables, Written, Steps

LEMMA StepTyped == Typed /\ [Next]_vars => Typed'
  <1> SUFFICES ASSUME Typed, [Next]_vars PROVE Typed'
    OBVIOUS
  <1> USE DEF Typed, TypeOK, PostedInv, Steps
  <1>1. ASSUME NEW c \in Clients, NEW table \in Tables, Post(c, table)
        PROVE  Typed'
    <2>1. table \in Seq(Route)
      BY TablesAssumption
    <2> QED
      BY <1>1, <2>1 DEF Post
  <1>2. ASSUME NEW c \in Clients, Update(c) PROVE Typed'
    <2>1. posted[c] \in Seq(Route) /\ routes' = posted[c]
      BY <1>2 DEF Update
    <2>2. routes' \in GoodTables
      BY <1>2, <2>1, ValidTables DEF Update
    <2>3. installed' \in Seq(Seq(Route))
      BY <1>2, <2>1 DEF Update
    <2> QED
      BY <1>2, <2>2, <2>3 DEF Update, GoodTables
  <1>3. ASSUME NEW c \in Clients, ReadChannels(c) PROVE Typed'
    <2>1. InboundChannels(routes) \in SUBSET Channels
      BY ChannelsOfTable DEF GoodTables, Written
    <2> QED
      BY <1>3, <2>1 DEF ReadChannels
  <1>4. ASSUME NEW c \in Clients, UpdateInbound(c) PROVE Typed'
    BY <1>4 DEF UpdateInbound
  <1>5. ASSUME NEW c \in Clients, Echo(c) PROVE Typed'
    BY <1>5 DEF Echo
  <1>6. CASE Restart
    BY <1>6 DEF Restart, request
  <1>7. CASE Exit
    BY <1>7 DEF Exit
  <1>8. CASE Start
    <2>1. FileTable \in GoodTables
      BY FileAssumption, ValidTables
    <2>2. inbound' = Written(FileTable)
      BY <1>8, <2>1, ChannelsOfTable DEF Start
    <2>3. installed' \in Seq(Seq(Route))
      BY <1>8, FileAssumption DEF Start
    <2> QED
      BY <1>8, <2>1, <2>2, <2>3 DEF Start, request, GoodTables, Written
  <1>9. CASE UNCHANGED vars
    BY <1>9 DEF vars, request
  <1> QED
    BY <1>1, <1>2, <1>3, <1>4, <1>5, <1>6, <1>7, <1>8, <1>9 DEF Next, PostStep

\* Only complete routes reach the router, whatever the clients post
\* (setConfig, main.go:751-760).
THEOREM TypeCorrect == Spec => []TypeOK
  <1>1. Typed => TypeOK
    BY DEF Typed
  <1> QED
    BY InitTyped, StepTyped, <1>1, PTL DEF Spec

-----------------------------------------------------------------------------
(* A lone POST.                                                             *)

\* While no two POSTs overlap there is at most one, and what it has done so far
\* is what its place in setConfig says; when there is none the two halves agree.
Lone ==
    /\ \A c, d \in Clients : pc[c] # "idle" /\ pc[d] # "idle" => c = d
    /\ \A c \in Clients :
          /\ pc[c] \in {"channels", "inbound", "echo"} => routes = posted[c]
          /\ pc[c] = "inbound" => read[c] = Written(posted[c])
          /\ pc[c] = "echo" => inbound = Written(posted[c])
    /\ up /\ Busy = {} => inbound = Written(routes)

IInv == Typed /\ (Busy # {} => up) /\ (~overlap => Lone)

LEMMA InitLone == Init => IInv
  <1> SUFFICES ASSUME Init PROVE IInv
    OBVIOUS
  <1>1. FileTable \in GoodTables
    BY FileAssumption, ValidTables
  <1>2. inbound = Written(routes)
    BY <1>1, ChannelsOfTable DEF Init
  <1> QED
    BY InitTyped, <1>2 DEF Init, IInv, Lone, Busy

LEMMA StepLone == IInv /\ [Next]_vars => IInv'
  <1> SUFFICES ASSUME IInv, [Next]_vars PROVE IInv'
    OBVIOUS
  <1>0. Typed /\ Typed'
    BY StepTyped DEF IInv
  <1>t. pc \in [Clients -> Steps] /\ posted \in [Clients -> Seq(Route)]
        /\ read \in [Clients -> SUBSET Channels] /\ routes \in GoodTables
    BY <1>0 DEF Typed, TypeOK, GoodTables
  <1> DEFINE Rest == (Busy' # {} => up') /\ (~overlap' => Lone')
  <1> SUFFICES Rest
    BY <1>0 DEF IInv
  <1>1. ASSUME NEW c \in Clients, NEW table \in Tables, Post(c, table)
        PROVE  Rest
    <2>1. CASE Busy # {}
      BY <1>1, <2>1 DEF Post
    <2>2. CASE Busy = {}
      BY <1>1, <2>2, <1>t DEF Post, Busy, Lone
    <2> QED
      BY <2>1, <2>2
  <1>2. ASSUME NEW c \in Clients, Update(c) PROVE Rest
    BY <1>2, <1>t DEF Update, IInv, Lone, Busy
  <1>3. ASSUME NEW c \in Clients, ReadChannels(c) PROVE Rest
    <2>1. InboundChannels(routes) = Written(routes)
      BY <1>t, ChannelsOfTable
    <2> QED
      BY <1>3, <2>1, <1>t DEF ReadChannels, IInv, Lone, Busy
  <1>4. ASSUME NEW c \in Clients, UpdateInbound(c) PROVE Rest
    BY <1>4, <1>t DEF UpdateInbound, IInv, Lone, Busy
  <1>5. ASSUME NEW c \in Clients, Echo(c) PROVE Rest
    BY <1>5, <1>t DEF Echo, IInv, Lone, Busy
  <1>6. CASE Restart
    BY <1>6 DEF Restart, request, IInv, Lone, Busy
  <1>7. CASE Exit
    BY <1>7, <1>t DEF Exit, IInv, Lone, Busy
  <1>8. CASE Start
    <2>1. FileTable \in GoodTables
      BY FileAssumption, ValidTables
    <2>2. inbound' = Written(routes') /\ Busy' = {} /\ up'
      BY <1>8, <2>1, ChannelsOfTable DEF Start, IInv, request, Busy
    <2> QED
      BY <2>2 DEF Busy, Lone
  <1>9. CASE UNCHANGED vars
    BY <1>9 DEF vars, request, IInv, Lone, Busy
  <1> QED
    BY <1>1, <1>2, <1>3, <1>4, <1>5, <1>6, <1>7, <1>8, <1>9 DEF Next, PostStep

\* Once every POST has made its assignments, and unless two of them overlapped,
\* the Discord client relays from exactly the channels of the routing table.
THEOREM RelaysWhatItRoutes == Spec => []InboundOfRoutes
  <1>1. IInv => InboundOfRoutes
    <2> SUFFICES ASSUME IInv, Settled, ~overlap PROVE inbound = Written(routes)
      BY DEF InboundOfRoutes, Written
    <2>1. CASE Busy = {}
      BY <2>1 DEF IInv, Lone, Settled
    <2>2. CASE Busy # {}
      <3>1. PICK c \in Clients : pc[c] # "idle"
        BY <2>2 DEF Busy
      <3>2. pc[c] = "echo"
        BY <3>1 DEF Settled
      <3> QED
        BY <3>2 DEF IInv, Lone
    <2> QED
      BY <2>1, <2>2
  <1> QED
    BY InitLone, StepLone, <1>1, PTL DEF Spec

\* The answer of a POST that no other one overlapped describes what is in force.
THEOREM AnswersAreTrue == Spec => []AnswerIsApplied
  <1>1. IInv => AnswerIsApplied
    BY DEF IInv, Lone, AnswerIsApplied, Written
  <1> QED
    BY InitLone, StepLone, <1>1, PTL DEF Spec

-----------------------------------------------------------------------------
(* Any interleaving.                                                        *)

WrittenByOne(channels) == \E i \in DOMAIN installed : channels = Written(installed[i])

\* A snapshot of the channels is that of a table that was installed.
OneTable ==
    /\ Typed /\ (Busy # {} => up)
    /\ \E i \in DOMAIN installed : routes = installed[i]
    /\ WrittenByOne(inbound)
    /\ \A c \in Clients : pc[c] = "inbound" => WrittenByOne(read[c])

LEMMA InitOneTable == Init => OneTable
  <1> SUFFICES ASSUME Init PROVE OneTable
    OBVIOUS
  <1>1. FileTable \in GoodTables
    BY FileAssumption, ValidTables
  <1>2. inbound = Written(FileTable)
    BY <1>1, ChannelsOfTable DEF Init
  <1>3. 1 \in DOMAIN installed /\ installed[1] = FileTable
    BY DEF Init
  <1> QED
    BY InitTyped, <1>2, <1>3 DEF Init, OneTable, WrittenByOne, Busy

LEMMA StepOneTable == OneTable /\ [Next]_vars => OneTable'
  <1> SUFFICES ASSUME OneTable, [Next]_vars PROVE OneTable'
    OBVIOUS
  <1>0. Typed /\ Typed'
    BY StepTyped DEF OneTable
  <1>t. pc \in [Clients -> Steps] /\ installed \in Seq(Seq(Route))
        /\ posted \in [Clients -> Seq(Route)]
        /\ read \in [Clients -> SUBSET Channels] /\ routes \in GoodTables
    BY <1>0 DEF Typed, TypeOK, GoodTables
  <1> USE DEF OneTable, WrittenByOne, Busy
  <1>1. ASSUME NEW c \in Clients, NEW table \in Tables, Post(c, table)
        PROVE  OneTable'
    BY <1>0, <1>1, <1>t DEF Post
  <1>2. ASSUME NEW c \in Clients, Update(c) PROVE OneTable'
    <2>1. /\ \A i \in DOMAIN installed :
               i \in DOMAIN installed' /\ installed'[i] = installed[i]
          /\ Len(installed) + 1 \in DOMAIN installed'
          /\ installed'[Len(installed) + 1] = posted[c]
      BY <1>2, <1>t DEF Update
    <2> QED
      BY <1>0, <1>2, <1>t, <2>1 DEF Update
  <1>3. ASSUME NEW c \in Clients, ReadChannels(c) PROVE OneTable'
    <2>1. InboundChannels(routes) = Written(routes)
      BY <1>t, ChannelsOfTable
    <2> QED
      BY <1>0, <1>3, <2>1, <1>t DEF ReadChannels
  <1>4. ASSUME NEW c \in Clients, UpdateInbound(c) PROVE OneTable'
    BY <1>0, <1>4, <1>t DEF UpdateInbound
  <1>5. ASSUME NEW c \in Clients, Echo(c) PROVE OneTable'
    BY <1>0, <1>5, <1>t DEF Echo
  <1>6. CASE Restart
    BY <1>0, <1>6 DEF Restart, request
  <1>7. CASE Exit
    BY <1>0, <1>7, <1>t DEF Exit
  <1>8. CASE Start
    <2>1. FileTable \in GoodTables
      BY FileAssumption, ValidTables
    <2>2. inbound' = Written(FileTable) /\ routes' = FileTable
      BY <1>8, <2>1, ChannelsOfTable DEF Start
    <2>3. 1 \in DOMAIN installed' /\ installed'[1] = FileTable
      BY <1>8 DEF Start
    <2>4. \A c \in Clients : pc'[c] = "idle"
      BY <1>8 DEF Start, request, Busy
    <2> QED
      BY <1>0, <2>2, <2>3, <2>4
  <1>9. CASE UNCHANGED vars
    BY <1>0, <1>9 DEF vars, request
  <1> QED
    BY <1>1, <1>2, <1>3, <1>4, <1>5, <1>6, <1>7, <1>8, <1>9 DEF Next, PostStep

\* However POSTs overlap, the relayed channels are those of one table.
THEOREM TablesNeverMix == Spec => []InboundIsOneTable
  <1>1. OneTable => InboundIsOneTable
    BY DEF OneTable, WrittenByOne, InboundIsOneTable, Written
  <1> QED
    BY InitOneTable, StepOneTable, <1>1, PTL DEF Spec
=============================================================================
