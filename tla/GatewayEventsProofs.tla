------------------------- MODULE GatewayEventsProofs -------------------------
(***************************************************************************)
(* Proofs about GatewayEvents for any gateways and any number of           *)
(* reconnects: no open channel is forgotten; while the connection is up    *)
(* the processor never builds a second channel for a gateway; once it has  *)
(* caught up the map holds the gateways that are online; and the manager   *)
(* refines GatewayRegistry.                                                *)
(*                                                                         *)
(* The first needs the map and the processor's variables to agree; the     *)
(* second needs the shape of the event queue: between two events "created" *)
(* of one input queue there is an event "deleted".  The third compares the *)
(* last event of each gateway with the map, and the refinement counts the  *)
(* events "created".                                                       *)
(***************************************************************************)
EXTENDS GatewayEvents, FunctionTheorems, FiniteSetTheorems, TLAPS

\* An entry of the map is a channel of its gateway.
EntriesMatch ==
    \A g \in Gateways : gwChans[g] # 0 => chans[gwChans[g]].gw = g

\* What the processor holds in its hands, once main has started it.
ProcessorHolds ==
    /\ mainPc \in {"list", "restart"} => procPc = "off"
    /\ procPc \notin {"off", "read"} => procEv \in Event
    /\ procPc = "add" =>
         /\ procCh # 0 /\ chans[procCh].gw = procEv.gw
         /\ \A i \in DOMAIN chans :
              chans[i].open /\ chans[i].gw = procEv.gw => i = procCh
    /\ procPc \in {"close", "remove"} =>
         procCh # 0 /\ procCh = gwChans[procEv.gw]
    /\ procPc = "remove" => ~chans[procCh].open

\* The inductive invariant for the channels map.
MapInv == TypeOK /\ EntriesMatch /\ ProcessorHolds /\ NoLeakedChannel
-----------------------------------------------------------------------------
(* The channels map.                                                       *)

\* The broker's events are events, and a queue of them stays one.
LEMMA NotifyTyped ==
    ASSUME events \in Seq(Event),
           NEW type \in {"created", "deleted"}, NEW g \in Gateways,
           NEW dir \in {"in", "out"}
    PROVE  Notify(type, g, dir) \in Seq(Event)
<1> DEFINE new == [type |-> type, gw |-> g, dir |-> dir]
<1>1. new \in Event
  BY DEF Event
<1>2. Append(events, new) \in Seq(Event)
  BY <1>1
<1> QED
  BY <1>2 DEF Notify

LEMMA InitMapInv == Init => MapInv
<1> SUFFICES ASSUME Init PROVE MapInv
  OBVIOUS
<1>1. events \in Seq(Event) /\ chans \in Seq(Channel) /\ chans = <<>>
  BY DEF Init
<1>2. created \in [Gateways -> 0 .. MaxCreated]
  BY EventsAssumption DEF Init
<1>3. TypeOK
  BY <1>1, <1>2 DEF Init, TypeOK
<1>4. EntriesMatch /\ ProcessorHolds /\ NoLeakedChannel
  BY DEF Init, EntriesMatch, ProcessorHolds, NoLeakedChannel
<1> QED
  BY <1>3, <1>4 DEF MapInv

\* Closing a channel keeps the list of channels but for that flag.
LEMMA CloseChannelMap ==
    ASSUME TypeOK, NEW n \in DOMAIN chans, CloseChannel(n)
    PROVE  /\ chans' \in Seq(Channel) /\ DOMAIN chans' = DOMAIN chans
           /\ \A i \in DOMAIN chans :
                /\ chans'[i].gw = chans[i].gw
                /\ chans'[i].open => chans[i].open /\ i # n
           /\ ~chans'[n].open
           /\ events' \in Seq(Event)
<1>1. chans' = [chans EXCEPT ![n].open = FALSE]
  BY DEF CloseChannel
<1>2. chans \in Seq(Channel) /\ events \in Seq(Event)
  BY DEF TypeOK
<1>3. chans[n] \in Channel
  BY <1>2
<1>4. events' \in Seq(Event)
  <2>1. chans[n].gw \in Gateways
    BY <1>3 DEF Channel
  <2>2. Notify("deleted", chans[n].gw, "out") \in Seq(Event)
    BY <1>2, <2>1, NotifyTyped
  <2> QED
    BY <1>2, <2>2 DEF CloseChannel
<1>5. [chans[n] EXCEPT !.open = FALSE] \in Channel
  BY <1>3 DEF Channel
<1>6. chans' \in Seq(Channel) /\ DOMAIN chans' = DOMAIN chans
  BY <1>1, <1>2, <1>5
<1>7. ASSUME NEW i \in DOMAIN chans
      PROVE  /\ chans'[i].gw = chans[i].gw
             /\ chans'[i].open => chans[i].open /\ i # n
  <2>1. chans[i] \in Channel
    BY <1>2
  <2> QED
    BY <1>1, <1>3, <2>1 DEF Channel
<1>8. ~chans'[n].open
  BY <1>1, <1>3 DEF Channel
<1> QED
  BY <1>4, <1>6, <1>7, <1>8

LEMMA MainMapInv ==
    ASSUME MapInv, Main
    PROVE  MapInv'
<1> USE DEF MapInv, TypeOK, EntriesMatch, ProcessorHolds, NoLeakedChannel,
            brokerVars, linkVars, mainVars, procVars
<1>1. CASE ListQueues
  <2>1. toRestart' \subseteq Gateways
    BY <1>1 DEF ListQueues
  <2> QED
    BY <1>1, <2>1 DEF ListQueues
<1>2. CASE \E g \in Gateways : Restart(g)
  BY <1>2 DEF Restart
<1>3. CASE EventExchangeInit
  BY <1>3 DEF EventExchangeInit
<1>4. CASE Interrupt
  BY <1>4 DEF Interrupt, Range
<1>5. ASSUME NEW n \in toClose, CloseStored(n)
      PROVE  MapInv'
  <2>1. CloseChannel(n) /\ n \in DOMAIN chans
    BY <1>5 DEF CloseStored
  <2>2. /\ chans' \in Seq(Channel) /\ DOMAIN chans' = DOMAIN chans
        /\ \A i \in DOMAIN chans :
             /\ chans'[i].gw = chans[i].gw
             /\ chans'[i].open => chans[i].open /\ i # n
        /\ events' \in Seq(Event)
    BY <2>1, CloseChannelMap
  <2>3. UNCHANGED <<brokerVars, linkVars, mainPc, toRestart, procVars, gwChans,
                    crash>> /\ toClose' = toClose \ {n}
    BY <1>5 DEF CloseStored
  <2>4. procPc = "remove" => ~chans'[procCh].open
    BY <2>2
  <2>5. TypeOK'
    BY <2>2, <2>3
  <2>6. EntriesMatch' /\ ProcessorHolds' /\ NoLeakedChannel'
    BY <2>2, <2>3, <2>4
  <2> QED
    BY <2>5, <2>6
<1>6. CASE CloseConnection
  BY <1>6 DEF CloseConnection
<1>7. CASE Exit
  BY <1>7 DEF Exit
<1> QED
  BY <1>1, <1>2, <1>3, <1>4, <1>5, <1>6, <1>7 DEF Main

LEMMA ProcessorMapInv ==
    ASSUME MapInv, ReadEvent \/ Handle
    PROVE  MapInv'
<1> USE DEF MapInv, TypeOK, EntriesMatch, ProcessorHolds, NoLeakedChannel,
            brokerVars, linkVars, mainVars, procVars
<1>1. CASE ReadEvent
  BY <1>1 DEF ReadEvent
<1>2. CASE Create
  <2>1. CASE connUp /\ ~HasOpen(procEv.gw) /\ UNCHANGED crash
    <3>1. procPc = "create" /\ procEv \in Event /\ procEv.gw \in Gateways
      BY <1>2 DEF Create, Event
    <3> DEFINE new == [gw |-> procEv.gw, open |-> TRUE]
    <3>2. /\ chans' = Append(chans, new)
          /\ procCh' = Len(chans) + 1 /\ procPc' = "add"
          /\ events' = Notify("created", procEv.gw, "out")
      BY <1>2, <2>1 DEF Create
    <3>3. new \in Channel
      BY <3>1 DEF Channel
    <3>4. /\ chans' \in Seq(Channel) /\ DOMAIN chans' = 1 .. Len(chans) + 1
          /\ \A i \in DOMAIN chans : chans'[i] = chans[i]
          /\ chans'[Len(chans) + 1] = new
          /\ DOMAIN chans = 1 .. Len(chans) /\ Len(chans) \in Nat
      BY <3>2, <3>3
    <3>5. events' \in Seq(Event)
      BY <3>1, <3>2, NotifyTyped
    <3>6. UNCHANGED <<brokerVars, linkVars, mainVars, procEv, gwChans, crash>>
      BY <1>2, <2>1 DEF Create
    <3>7. TypeOK'
      BY <3>2, <3>4, <3>5, <3>6
    <3>8. \A i \in DOMAIN chans :
            chans[i].open /\ chans[i].gw = procEv.gw => FALSE
      BY <2>1 DEF HasOpen
    <3>9. ProcessorHolds'
      BY <3>1, <3>2, <3>4, <3>6, <3>8
    <3>10. EntriesMatch' /\ NoLeakedChannel'
      BY <1>2, <3>2, <3>4, <3>6 DEF Create
    <3> QED
      BY <3>7, <3>9, <3>10
  <2>2. CASE /\ crash' = "nilChannel"
             /\ UNCHANGED <<chans, events, procCh, procPc>>
    BY <1>2, <2>2 DEF Create
  <2> QED
    BY <1>2, <2>1, <2>2 DEF Create
<1>3. CASE Add
  <2>1. procEv.gw \in Gateways
    BY <1>3 DEF Add, Event
  <2> QED
    BY <1>3, <2>1 DEF Add
<1>4. CASE Get
  <2>1. procEv.gw \in Gateways
    BY <1>4 DEF Get, Event
  <2> QED
    BY <1>4, <2>1 DEF Get
<1>5. CASE Close
  <2>1. CloseChannel(procCh) /\ procCh \in DOMAIN chans
    BY <1>5 DEF Close
  <2>2. /\ chans' \in Seq(Channel) /\ DOMAIN chans' = DOMAIN chans
        /\ \A i \in DOMAIN chans :
             /\ chans'[i].gw = chans[i].gw
             /\ chans'[i].open => chans[i].open /\ i # procCh
        /\ ~chans'[procCh].open
        /\ events' \in Seq(Event)
    BY <2>1, CloseChannelMap
  <2> QED
    BY <1>5, <2>2 DEF Close
<1>6. CASE Remove
  <2>1. procEv.gw \in Gateways
    BY <1>6 DEF Remove, Event
  <2> QED
    BY <1>6, <2>1 DEF Remove
<1> QED
  BY <1>1, <1>2, <1>3, <1>4, <1>5, <1>6 DEF Handle

LEMMA BrokerMapInv ==
    ASSUME MapInv, Broker \/ (\E i \in DOMAIN chans : ReaderNilEnvelope(i))
    PROVE  MapInv'
<1> USE EventsAssumption
        DEF MapInv, TypeOK, EntriesMatch, ProcessorHolds, NoLeakedChannel,
            brokerVars, linkVars, mainVars, procVars
<1>1. ASSUME NEW g \in Gateways, DeclareIn(g)
      PROVE  MapInv'
  <2>1. events' \in Seq(Event)
    BY <1>1, NotifyTyped DEF DeclareIn
  <2>2. created' \in [Gateways -> 0 .. MaxCreated]
    BY <1>1 DEF DeclareIn
  <2> QED
    BY <1>1, <2>1, <2>2 DEF DeclareIn
<1>2. ASSUME NEW g \in Gateways, DeleteIn(g)
      PROVE  MapInv'
  <2>1. events' \in Seq(Event)
    BY <1>2, NotifyTyped DEF DeleteIn
  <2> QED
    BY <1>2, <2>1 DEF DeleteIn
<1>3. CASE LoseConnection
  BY <1>3 DEF LoseConnection
<1>4. CASE DropEvents
  BY <1>4 DEF DropEvents
<1>5. CASE \E i \in DOMAIN chans : ReaderNilEnvelope(i)
  BY <1>5 DEF ReaderNilEnvelope
<1> QED
  BY <1>1, <1>2, <1>3, <1>4, <1>5 DEF Broker

LEMMA NextMapInv == MapInv /\ [Next]_vars => MapInv'
<1> SUFFICES ASSUME MapInv, [Next]_vars PROVE MapInv'
  OBVIOUS
<1>1. CASE Next
  BY <1>1, MainMapInv, ProcessorMapInv, BrokerMapInv DEF Next
<1>2. CASE UNCHANGED vars
  BY <1>2 DEF vars, brokerVars, linkVars, mainVars, procVars, MapInv, TypeOK,
              EntriesMatch, ProcessorHolds, NoLeakedChannel
<1> QED
  BY <1>1, <1>2

\* The manager's state keeps its types, for any gateways (Manager).
THEOREM TypeCorrect == Spec => []TypeOK
<1>1. MapInv => TypeOK
  BY DEF MapInv
<1> QED
  BY InitMapInv, NextMapInv, <1>1, PTL DEF Spec

\* However often gateways come and go, every open channel is in the map or
\* about to be entered (ProcessExchangeEvents, GatewayChannelsMap).
THEOREM NoneLeaked == Spec => []NoLeakedChannel
<1>1. MapInv => NoLeakedChannel
  BY DEF MapInv
<1> QED
  BY InitMapInv, NextMapInv, <1>1, PTL DEF Spec
-----------------------------------------------------------------------------
(* The order of the events.                                                *)

\* The events of the input queue of g, and where a queue s has them.
Created(g) == [type |-> "created", gw |-> g, dir |-> "in"]
Deleted(g) == [type |-> "deleted", gw |-> g, dir |-> "in"]
CreatedAt(s, g, i) == i \in 1 .. Len(s) /\ s[i] = Created(g)
DeletedAt(s, g, i) == i \in 1 .. Len(s) /\ s[i] = Deleted(g)

\* Between two events "created" there is an event "deleted".
Alternates(s, g) ==
    \A i, j \in Nat : CreatedAt(s, g, i) /\ CreatedAt(s, g, j) /\ i < j =>
        \E k \in Nat : i < k /\ k < j /\ DeletedAt(s, g, k)

\* The next event of the input queue is "created".
Headed(s, g) ==
    \E i \in Nat : /\ CreatedAt(s, g, i)
                   /\ \A k \in Nat : k < i => ~DeletedAt(s, g, k)

\* Every event "created" is followed by an event "deleted".
EndsDeleted(s, g) ==
    \A i \in Nat : CreatedAt(s, g, i) =>
        \E k \in Nat : i < k /\ DeletedAt(s, g, k)

NoneDeleted(s, g) == \A k \in Nat : ~DeletedAt(s, g, k)

\* Where the events of a queue are when one is added or taken.
LEMMA AppendAt ==
    ASSUME NEW s \in Seq(Event), NEW e \in Event, NEW g \in Gateways,
           NEW i \in Nat
    PROVE  /\ CreatedAt(Append(s, e), g, i) <=>
                CreatedAt(s, g, i) \/ (i = Len(s) + 1 /\ e = Created(g))
           /\ DeletedAt(Append(s, e), g, i) <=>
                DeletedAt(s, g, i) \/ (i = Len(s) + 1 /\ e = Deleted(g))
           /\ CreatedAt(s, g, i) \/ DeletedAt(s, g, i) => i < Len(s) + 1
  BY DEF CreatedAt, DeletedAt

LEMMA TailAt ==
    ASSUME NEW s \in Seq(Event), s # <<>>, NEW g \in Gateways, NEW i \in Nat
    PROVE  /\ CreatedAt(Tail(s), g, i) <=> i > 0 /\ CreatedAt(s, g, i + 1)
           /\ DeletedAt(Tail(s), g, i) <=> i > 0 /\ DeletedAt(s, g, i + 1)
           /\ CreatedAt(s, g, i) \/ DeletedAt(s, g, i) => i > 0
           /\ CreatedAt(s, g, 1) <=> Head(s) = Created(g)
           /\ DeletedAt(s, g, 1) <=> Head(s) = Deleted(g)
  BY DEF CreatedAt, DeletedAt

\* An event of another queue changes nothing.
LEMMA AppendOther ==
    ASSUME NEW s \in Seq(Event), NEW e \in Event, NEW g \in Gateways,
           e # Created(g), e # Deleted(g)
    PROVE  /\ Alternates(s, g) => Alternates(Append(s, e), g)
           /\ Headed(Append(s, e), g) => Headed(s, g)
           /\ EndsDeleted(s, g) <=> EndsDeleted(Append(s, e), g)
           /\ NoneDeleted(Append(s, e), g) <=> NoneDeleted(s, g)
<1>1. \A i \in Nat :
        /\ CreatedAt(Append(s, e), g, i) <=> CreatedAt(s, g, i)
        /\ DeletedAt(Append(s, e), g, i) <=> DeletedAt(s, g, i)
  BY AppendAt
<1> QED
  BY <1>1 DEF Alternates, Headed, EndsDeleted, NoneDeleted

\* The input queue is declared when the last event of it is "deleted".
LEMMA AppendCreated ==
    ASSUME NEW s \in Seq(Event), NEW g \in Gateways
    PROVE  /\ Alternates(s, g) /\ EndsDeleted(s, g) =>
                Alternates(Append(s, Created(g)), g)
           /\ Headed(Append(s, Created(g)), g) =>
                Headed(s, g) \/ NoneDeleted(s, g)
           /\ ~EndsDeleted(Append(s, Created(g)), g)
<1> DEFINE t == Append(s, Created(g))
<1>1. Created(g) \in Event /\ Created(g) # Deleted(g)
  BY DEF Created, Deleted, Event
<1>2. \A i \in Nat :
        /\ CreatedAt(t, g, i) <=> CreatedAt(s, g, i) \/ i = Len(s) + 1
        /\ DeletedAt(t, g, i) <=> DeletedAt(s, g, i)
        /\ CreatedAt(s, g, i) \/ DeletedAt(s, g, i) => i < Len(s) + 1
  BY <1>1, AppendAt
<1>3. Len(s) + 1 \in Nat
  OBVIOUS
<1> HIDE DEF t
<1>4. Alternates(s, g) /\ EndsDeleted(s, g) => Alternates(t, g)
  BY <1>2, <1>3 DEF Alternates, EndsDeleted
<1>5. Headed(t, g) => Headed(s, g) \/ NoneDeleted(s, g)
  BY <1>2, <1>3 DEF Headed, NoneDeleted
<1>6. ~EndsDeleted(t, g)
  <2>1. \A k \in Nat : DeletedAt(t, g, k) => ~(Len(s) + 1 < k)
    BY <1>2
  <2> QED
    BY <1>2, <1>3, <2>1 DEF EndsDeleted
<1> QED
  BY <1>4, <1>5, <1>6 DEF t

\* The input queue is deleted.
LEMMA AppendDeleted ==
    ASSUME NEW s \in Seq(Event), NEW g \in Gateways
    PROVE  /\ Alternates(s, g) => Alternates(Append(s, Deleted(g)), g)
           /\ Headed(Append(s, Deleted(g)), g) => Headed(s, g)
           /\ EndsDeleted(Append(s, Deleted(g)), g)
           /\ ~NoneDeleted(Append(s, Deleted(g)), g)
<1> DEFINE t == Append(s, Deleted(g))
<1>1. Deleted(g) \in Event /\ Created(g) # Deleted(g)
  BY DEF Created, Deleted, Event
<1>2. \A i \in Nat :
        /\ CreatedAt(t, g, i) <=> CreatedAt(s, g, i)
        /\ DeletedAt(t, g, i) <=> DeletedAt(s, g, i) \/ i = Len(s) + 1
        /\ CreatedAt(s, g, i) \/ DeletedAt(s, g, i) => i < Len(s) + 1
  BY <1>1, AppendAt
<1>3. Len(s) + 1 \in Nat
  OBVIOUS
<1> HIDE DEF t
<1>4. Alternates(s, g) => Alternates(t, g)
  BY <1>2 DEF Alternates
<1>5. Headed(t, g) => Headed(s, g)
  BY <1>2 DEF Headed
<1>6. EndsDeleted(t, g) /\ ~NoneDeleted(t, g)
  BY <1>2, <1>3 DEF EndsDeleted, NoneDeleted
<1> QED
  BY <1>4, <1>5, <1>6 DEF t

\* The processor takes an event of another queue.
LEMMA TailOther ==
    ASSUME NEW s \in Seq(Event), s # <<>>, NEW g \in Gateways,
           Head(s) # Created(g), Head(s) # Deleted(g)
    PROVE  /\ Alternates(s, g) => Alternates(Tail(s), g)
           /\ Headed(Tail(s), g) => Headed(s, g)
           /\ EndsDeleted(s, g) => EndsDeleted(Tail(s), g)
           /\ NoneDeleted(Tail(s), g) => NoneDeleted(s, g)
<1> DEFINE t == Tail(s)
<1>1. \A i \in Nat :
        /\ CreatedAt(t, g, i) <=> i > 0 /\ CreatedAt(s, g, i + 1)
        /\ DeletedAt(t, g, i) <=> i > 0 /\ DeletedAt(s, g, i + 1)
        /\ CreatedAt(s, g, i) \/ DeletedAt(s, g, i) => i > 1
  BY TailAt
<1> HIDE DEF t
<1>2. \A i \in Nat : i > 1 =>
        i - 1 \in Nat /\ i - 1 > 0 /\ (i - 1) + 1 = i
  OBVIOUS
<1>3. ASSUME Alternates(s, g), NEW i \in Nat, NEW j \in Nat,
             CreatedAt(t, g, i), CreatedAt(t, g, j), i < j
      PROVE  \E k \in Nat : i < k /\ k < j /\ DeletedAt(t, g, k)
  <2>1. PICK k \in Nat : i + 1 < k /\ k < j + 1 /\ DeletedAt(s, g, k)
    BY <1>1, <1>3 DEF Alternates
  <2>2. DeletedAt(t, g, k - 1) /\ i < k - 1 /\ k - 1 < j /\ k - 1 \in Nat
    BY <1>1, <1>2, <2>1
  <2> QED
    BY <2>2
<1>4. ASSUME Headed(t, g)
      PROVE  Headed(s, g)
  <2>1. PICK i \in Nat : /\ CreatedAt(t, g, i)
                         /\ \A k \in Nat : k < i => ~DeletedAt(t, g, k)
    BY <1>4 DEF Headed
  <2>2. CreatedAt(s, g, i + 1)
    BY <1>1, <2>1
  <2>3. ASSUME NEW k \in Nat, k < i + 1
        PROVE  ~DeletedAt(s, g, k)
    <3>1. CASE k > 1
      <4>1. ~DeletedAt(t, g, k - 1)
        BY <1>2, <2>1, <2>3, <3>1
      <4> QED
        BY <1>1, <1>2, <3>1, <4>1
    <3> QED
      BY <1>1, <3>1
  <2> QED
    BY <2>2, <2>3 DEF Headed
<1>5. ASSUME EndsDeleted(s, g), NEW i \in Nat, CreatedAt(t, g, i)
      PROVE  \E k \in Nat : i < k /\ DeletedAt(t, g, k)
  <2>1. PICK k \in Nat : i + 1 < k /\ DeletedAt(s, g, k)
    BY <1>1, <1>5 DEF EndsDeleted
  <2>2. DeletedAt(t, g, k - 1) /\ i < k - 1 /\ k - 1 \in Nat
    BY <1>1, <1>2, <2>1
  <2> QED
    BY <2>2
<1>6. ASSUME NoneDeleted(t, g), NEW k \in Nat, DeletedAt(s, g, k)
      PROVE  FALSE
  <2>1. DeletedAt(t, g, k - 1) /\ k - 1 \in Nat
    BY <1>1, <1>2, <1>6
  <2> QED
    BY <1>6, <2>1 DEF NoneDeleted
<1> QED
  BY <1>3, <1>4, <1>5, <1>6 DEF t, Alternates, EndsDeleted, NoneDeleted

\* The processor takes an event of the input queue of g: the rest is in
\* order too, and after "created" the next one is "deleted".
LEMMA TailOwn ==
    ASSUME NEW s \in Seq(Event), s # <<>>, NEW g \in Gateways, Alternates(s, g)
    PROVE  /\ Alternates(Tail(s), g)
           /\ EndsDeleted(s, g) => EndsDeleted(Tail(s), g)
           /\ Head(s) = Created(g) =>
                /\ Headed(s, g)
                /\ ~Headed(Tail(s), g)
                /\ EndsDeleted(s, g) => ~NoneDeleted(Tail(s), g)
<1> DEFINE t == Tail(s)
<1>1. \A i \in Nat :
        /\ CreatedAt(t, g, i) <=> i > 0 /\ CreatedAt(s, g, i + 1)
        /\ DeletedAt(t, g, i) <=> i > 0 /\ DeletedAt(s, g, i + 1)
        /\ CreatedAt(s, g, i) \/ DeletedAt(s, g, i) => i > 0
  BY TailAt
<1>2. Head(s) = Created(g) => CreatedAt(s, g, 1)
  BY TailAt
<1> HIDE DEF t
<1>3. \A i \in Nat : i > 1 =>
        i - 1 \in Nat /\ i - 1 > 0 /\ (i - 1) + 1 = i
  OBVIOUS
<1>4. ASSUME NEW i \in Nat, NEW j \in Nat,
             CreatedAt(t, g, i), CreatedAt(t, g, j), i < j
      PROVE  \E k \in Nat : i < k /\ k < j /\ DeletedAt(t, g, k)
  <2>1. PICK k \in Nat : i + 1 < k /\ k < j + 1 /\ DeletedAt(s, g, k)
    BY <1>1, <1>4 DEF Alternates
  <2>2. DeletedAt(t, g, k - 1) /\ i < k - 1 /\ k - 1 < j /\ k - 1 \in Nat
    BY <1>1, <1>3, <2>1
  <2> QED
    BY <2>2
<1>5. ASSUME EndsDeleted(s, g), NEW i \in Nat, CreatedAt(t, g, i)
      PROVE  \E k \in Nat : i < k /\ DeletedAt(t, g, k)
  <2>1. PICK k \in Nat : i + 1 < k /\ DeletedAt(s, g, k)
    BY <1>1, <1>5 DEF EndsDeleted
  <2>2. DeletedAt(t, g, k - 1) /\ i < k - 1 /\ k - 1 \in Nat
    BY <1>1, <1>3, <2>1
  <2> QED
    BY <2>2
<1>6. ASSUME Head(s) = Created(g)
      PROVE  Headed(s, g)
  <2>1. \A k \in Nat : k < 1 => ~DeletedAt(s, g, k)
    BY <1>1
  <2> QED
    BY <1>2, <1>6, <2>1 DEF Headed
<1>7. ASSUME Head(s) = Created(g), Headed(t, g)
      PROVE  FALSE
  <2>1. PICK i \in Nat : /\ CreatedAt(t, g, i)
                         /\ \A k \in Nat : k < i => ~DeletedAt(t, g, k)
    BY <1>7 DEF Headed
  <2>2. CreatedAt(s, g, 1) /\ CreatedAt(s, g, i + 1) /\ 1 < i + 1
    BY <1>1, <1>2, <1>7, <2>1
  <2>3. PICK k \in Nat : 1 < k /\ k < i + 1 /\ DeletedAt(s, g, k)
    BY <2>2 DEF Alternates
  <2>4. DeletedAt(t, g, k - 1) /\ k - 1 < i /\ k - 1 \in Nat
    BY <1>1, <1>3, <2>3
  <2> QED
    BY <2>1, <2>4
<1>8. ASSUME Head(s) = Created(g), EndsDeleted(s, g)
      PROVE  ~NoneDeleted(t, g)
  <2>1. PICK k \in Nat : 1 < k /\ DeletedAt(s, g, k)
    BY <1>2, <1>8 DEF EndsDeleted
  <2>2. DeletedAt(t, g, k - 1) /\ k - 1 \in Nat
    BY <1>1, <1>3, <2>1
  <2> QED
    BY <2>2 DEF NoneDeleted
<1> QED
  BY <1>4, <1>5, <1>6, <1>7, <1>8 DEF t, Alternates, EndsDeleted
-----------------------------------------------------------------------------
(* No second channel for a gateway that has one.                           *)

\* The processor has an event of g in hand: to enter a channel, or to take
\* one away.
Entering(g) == procPc \in {"create", "add"} /\ procEv.gw = g
Leaving(g) == procPc \in {"lookup", "close", "remove"} /\ procEv.gw = g

\* The processor may enter a channel for g, or is about to take away the one
\* that is in the map.
Clear(g) == gwChans[g] = 0 /\ ~Entering(g)
Free(g) == Clear(g) \/ Leaving(g)

InOrder(g) ==
    /\ Alternates(events, g)
    /\ Headed(events, g) => Free(g)
    /\ inQueue[g] = "absent" =>
         /\ EndsDeleted(events, g)
         /\ NoneDeleted(events, g) => Free(g)

EventsInOrder == connUp => \A g \in Gateways : InOrder(g)

\* Nothing has happened before the event queue is bound.
QuietBeforeBound ==
    connUp /\ ~bound => events = <<>> /\ chans = <<>> /\ procPc = "off"

\* A channel is created only for a gateway that has none in the map, and
\* until it is entered it is open and Manager.Close does not know of it.
CreatesAreClear ==
    connUp /\ procPc = "create" => gwChans[procEv.gw] = 0

AddsAreClear ==
    procPc = "add" =>
        gwChans[procEv.gw] = 0 /\ chans[procCh].open /\ procCh \notin toClose

OrderInv ==
    /\ EventsInOrder
    /\ QuietBeforeBound
    /\ CreatesAreClear
    /\ NilChannelOnlyOffline

\* The inductive invariant for the second channel.
IInv == MapInv /\ OrderInv /\ AddsAreClear

\* A gateway without channel in the map has no open one.
LEMMA NoneOpen ==
    ASSUME MapInv, NEW g \in Gateways, gwChans[g] = 0, procPc # "add"
    PROVE  ~HasOpen(g)
<1>1. \A i \in DOMAIN chans : i # 0
  BY DEF MapInv, TypeOK
<1> QED
  BY <1>1 DEF MapInv, NoLeakedChannel, HasOpen

LEMMA EmptyOrder ==
    ASSUME NEW g \in Gateways
    PROVE  Alternates(<<>>, g) /\ ~Headed(<<>>, g) /\ EndsDeleted(<<>>, g)
<1>1. \A i : ~CreatedAt(<<>>, g, i) /\ ~DeletedAt(<<>>, g, i)
  BY DEF CreatedAt, DeletedAt
<1> QED
  BY <1>1 DEF Alternates, Headed, EndsDeleted

\* A step that adds at most an event of another queue keeps the order for g,
\* if g stays free.
LEMMA OtherInOrder ==
    ASSUME NEW g \in Gateways, InOrder(g), events \in Seq(Event),
           inQueue'[g] = inQueue[g],
           Free(g) => Free(g)',
           \/ events' = events
           \/ \E e \in Event : /\ e # Created(g) /\ e # Deleted(g)
                               /\ events' = Append(events, e)
    PROVE  InOrder(g)'
<1>1. CASE events' = events
  BY <1>1 DEF InOrder
<1>2. ASSUME NEW e \in Event, e # Created(g), e # Deleted(g),
             events' = Append(events, e)
      PROVE  InOrder(g)'
  BY <1>2, AppendOther DEF InOrder
<1> QED
  BY <1>1, <1>2

\* The events of a closed channel's queue are none of an input queue.
LEMMA CloseChannelOrder ==
    ASSUME IInv, connUp, NEW n \in DOMAIN chans, CloseChannel(n),
           NEW g \in Gateways
    PROVE  \/ events' = events
           \/ \E e \in Event : /\ e # Created(g) /\ e # Deleted(g)
                               /\ events' = Append(events, e)
<1>1. TypeOK /\ chans \in Seq(Channel) /\ chans[n] \in Channel
  BY DEF IInv, MapInv, TypeOK
<1> DEFINE new == [type |-> "deleted", gw |-> chans[n].gw, dir |-> "out"]
<1>2. new \in Event /\ new # Created(g) /\ new # Deleted(g)
  BY <1>1 DEF Event, Channel, Created, Deleted
<1>3. events' = events \/ events' = Append(events, new)
  BY DEF CloseChannel, Notify
<1> QED
  BY <1>2, <1>3

LEMMA InitOrder == Init => OrderInv /\ AddsAreClear
<1> SUFFICES ASSUME Init PROVE OrderInv /\ AddsAreClear
  OBVIOUS
<1>1. ASSUME NEW g \in Gateways PROVE Free(g)
  BY DEF Init, Free, Clear, Entering
<1>2. EventsInOrder
  BY <1>1, EmptyOrder DEF EventsInOrder, InOrder, Init
<1>3. /\ QuietBeforeBound /\ CreatesAreClear /\ AddsAreClear
      /\ NilChannelOnlyOffline
  BY DEF Init, QuietBeforeBound, CreatesAreClear, AddsAreClear,
         NilChannelOnlyOffline
<1> QED
  BY <1>2, <1>3 DEF OrderInv

\* What a step leaves alone keeps the order.
LEMMA StutterOrder ==
    ASSUME OrderInv,
           UNCHANGED <<inQueue, connUp, bound, events, procPc, procEv, chans,
                       gwChans>>,
           crash' = "nilChannel" => ~connUp
    PROVE  OrderInv'
<1>1. EventsInOrder'
  BY DEF OrderInv, EventsInOrder, InOrder, Free, Clear, Entering, Leaving
<1> QED
  BY <1>1 DEF OrderInv, QuietBeforeBound, CreatesAreClear,
     NilChannelOnlyOffline

\* Without the connection nothing is claimed.
LEMMA OfflineOrder ==
    ASSUME ~connUp' PROVE OrderInv'
  BY DEF OrderInv, EventsInOrder, QuietBeforeBound, CreatesAreClear,
     NilChannelOnlyOffline

\* The channel that is built is entered where there is none: main does not
\* know of it, and closes only what it found in the map.
LEMMA NextAdds == IInv /\ [Next]_vars => AddsAreClear'
<1> SUFFICES ASSUME IInv, [Next]_vars PROVE AddsAreClear'
  OBVIOUS
<1> USE DEF brokerVars, linkVars, mainVars, procVars
<1>0. /\ MapInv /\ TypeOK /\ ProcessorHolds /\ EntriesMatch
      /\ AddsAreClear /\ CreatesAreClear
      /\ chans \in Seq(Channel)
  BY DEF IInv, MapInv, OrderInv, TypeOK
<1>1. CASE /\ UNCHANGED <<procPc, procEv, procCh, chans, gwChans>>
           /\ toClose' \subseteq toClose
  BY <1>0, <1>1 DEF AddsAreClear
<1>2. CASE procPc' # "add"
  BY <1>2 DEF AddsAreClear
<1>3. CASE Interrupt
  <2>1. /\ UNCHANGED <<procPc, procEv, procCh, chans, gwChans>>
        /\ toClose' = Range(gwChans) \ {0}
    BY <1>3 DEF Interrupt
  <2>2. ASSUME procPc = "add", procCh \in toClose'
        PROVE  FALSE
    <3>1. PICK h \in Gateways : gwChans[h] = procCh
      BY <1>0, <2>1, <2>2 DEF Range, TypeOK
    <3> QED
      BY <1>0, <2>1, <2>2, <3>1 DEF AddsAreClear, EntriesMatch, ProcessorHolds
  <2> QED
    BY <1>0, <2>1, <2>2 DEF AddsAreClear
<1>4. ASSUME NEW n \in toClose, CloseStored(n)
      PROVE  AddsAreClear'
  <2>1. /\ UNCHANGED <<procPc, procEv, procCh, gwChans>>
        /\ toClose' = toClose \ {n}
        /\ chans' = [chans EXCEPT ![n].open = FALSE]
    BY <1>4 DEF CloseStored, CloseChannel
  <2>2. procPc = "add" => procCh # n /\ chans'[procCh] = chans[procCh]
    BY <1>0, <2>1 DEF AddsAreClear, ProcessorHolds, TypeOK
  <2> QED
    BY <1>0, <2>1, <2>2 DEF AddsAreClear
<1>5. CASE Create
  <2>1. CASE connUp /\ ~HasOpen(procEv.gw) /\ UNCHANGED crash
    <3>1. /\ procPc = "create" /\ UNCHANGED <<procEv, gwChans, toClose>>
          /\ chans' = Append(chans, [gw |-> procEv.gw, open |-> TRUE])
          /\ procCh' = Len(chans')
      BY <1>5, <2>1 DEF Create
    <3>2. procCh' = Len(chans) + 1 /\ chans'[procCh'].open
      BY <1>0, <3>1
    <3>3. procCh' \notin DOMAIN chans
      BY <1>0, <3>2
    <3> QED
      BY <1>0, <2>1, <3>1, <3>2, <3>3 DEF AddsAreClear, CreatesAreClear, TypeOK
  <2>2. CASE UNCHANGED <<chans, events, procCh, procPc>>
    BY <1>2, <1>5, <2>2 DEF Create
  <2> QED
    BY <1>5, <2>1, <2>2 DEF Create
<1>6. CASE ReadEvent \/ Add \/ Get \/ Close \/ Remove
  <2>1. procPc' # "add"
    BY <1>6 DEF ReadEvent, Add, Get, Close, Remove
  <2> QED
    BY <1>2, <2>1
<1>7. CASE EventExchangeInit
  <2>1. procPc' # "add"
    BY <1>0, <1>7 DEF EventExchangeInit, ProcessorHolds
  <2> QED
    BY <1>2, <2>1
<1>8. CASE \/ ListQueues \/ (\E g \in Gateways : Restart(g))
           \/ CloseConnection \/ Exit \/ Broker
           \/ (\E i \in DOMAIN chans : ReaderNilEnvelope(i))
  BY <1>1, <1>8
     DEF ListQueues, Restart, CloseConnection, Exit, Broker, DeclareIn,
         DeleteIn, LoseConnection, DropEvents, ReaderNilEnvelope
<1>9. CASE UNCHANGED vars
  BY <1>1, <1>9 DEF vars
<1> QED
  BY <1>3, <1>4, <1>5, <1>6, <1>7, <1>8, <1>9 DEF Next, Main, Handle

LEMMA MainOrder ==
    ASSUME IInv, Main
    PROVE  OrderInv'
<1> USE DEF brokerVars, linkVars, mainVars, procVars
<1>1. OrderInv /\ TypeOK /\ MapInv
  BY DEF IInv, MapInv
<1>2. CASE ListQueues \/ Interrupt \/ Exit
  BY <1>1, <1>2, StutterOrder DEF ListQueues, Interrupt, Exit, Alive
<1>3. ASSUME NEW g \in Gateways, Restart(g)
      PROVE  OrderInv'
  BY <1>1, <1>3, StutterOrder DEF Restart, Alive
<1>4. CASE EventExchangeInit
  <2>1. CASE ~connUp
    BY <1>4, <2>1, OfflineOrder DEF EventExchangeInit
  <2>2. CASE connUp /\ bound' = TRUE /\ procPc' = "read"
    <3>1. /\ UNCHANGED <<events, chans, inQueue, connUp, crash, procEv,
                        gwChans>>
          /\ crash = "none" /\ procPc = "off"
      BY <1>1, <1>4 DEF EventExchangeInit, MapInv, ProcessorHolds, Alive
    <3>2. CASE ~bound
      <4>1. events' = <<>> /\ chans = <<>> /\ chans' = <<>>
        BY <1>1, <2>2, <3>1, <3>2 DEF OrderInv, QuietBeforeBound
      <4>2. ASSUME NEW g \in Gateways PROVE InOrder(g)'
        <5>1. Free(g)'
          BY <1>1, <2>2, <3>1, <4>1 DEF Free, Clear, Entering, TypeOK
        <5> QED
          BY <4>1, <5>1, EmptyOrder DEF InOrder
      <4> QED
        BY <2>2, <3>1, <4>2 DEF OrderInv, EventsInOrder, QuietBeforeBound,
           CreatesAreClear, NilChannelOnlyOffline
    <3>3. CASE bound
      <4>1. ASSUME NEW g \in Gateways PROVE InOrder(g)'
        <5>1. InOrder(g)
          BY <1>1, <2>2 DEF OrderInv, EventsInOrder
        <5> QED
          BY <2>2, <3>1, <5>1 DEF InOrder, Free, Clear, Entering, Leaving
      <4> QED
        BY <2>2, <3>1, <4>1 DEF OrderInv, EventsInOrder, QuietBeforeBound,
           CreatesAreClear, NilChannelOnlyOffline
    <3> QED
      BY <1>1, <3>2, <3>3 DEF TypeOK
  <2> QED
    BY <1>4, <2>1, <2>2 DEF EventExchangeInit
<1>5. ASSUME NEW n \in toClose, CloseStored(n)
      PROVE  OrderInv'
  <2>1. /\ CloseChannel(n) /\ n \in DOMAIN chans /\ crash = "none"
        /\ UNCHANGED <<inQueue, connUp, bound, procPc, procEv, gwChans, crash>>
    BY <1>1, <1>5 DEF CloseStored, TypeOK, Alive
  <2>2. CASE connUp
    <3>1. ASSUME NEW g \in Gateways
          PROVE  InOrder(g)'
      <4>1. InOrder(g) /\ events \in Seq(Event)
        BY <1>1, <2>2 DEF OrderInv, EventsInOrder, TypeOK
      <4>2. \/ events' = events
            \/ \E e \in Event : /\ e # Created(g) /\ e # Deleted(g)
                                /\ events' = Append(events, e)
        BY <2>1, <2>2, CloseChannelOrder
      <4>3. Free(g) => Free(g)'
        BY <2>1 DEF Free, Clear, Entering, Leaving
      <4> QED
        BY <2>1, <4>1, <4>2, <4>3, OtherInOrder
    <3>2. bound
      BY <1>1, <2>1, <2>2 DEF OrderInv, QuietBeforeBound
    <3> QED
      BY <1>1, <2>1, <3>1, <3>2 DEF OrderInv, EventsInOrder, QuietBeforeBound,
         CreatesAreClear, NilChannelOnlyOffline
  <2> QED
    BY <2>1, <2>2, OfflineOrder
<1>6. CASE CloseConnection
  BY <1>6, OfflineOrder DEF CloseConnection
<1> QED
  BY <1>2, <1>3, <1>4, <1>5, <1>6 DEF Main

LEMMA ProcessorOrder ==
    ASSUME IInv, ReadEvent \/ Handle
    PROVE  OrderInv'
<1> USE DEF brokerVars, linkVars, mainVars, procVars
<1>1. OrderInv /\ TypeOK /\ MapInv /\ ProcessorHolds
  BY DEF IInv, MapInv
<1>2. CASE ~connUp
  <2>1. connUp' = connUp
    BY DEF ReadEvent, Handle, Create, Add, Get, Close, Remove
  <2> QED
    BY <1>2, <2>1, OfflineOrder
<1>3. ASSUME connUp, NEW g \in Gateways
      PROVE  InOrder(g)
  BY <1>1, <1>3 DEF OrderInv, EventsInOrder
<1>4. CASE connUp /\ ReadEvent
  <2> DEFINE e == Head(events)
  <2>1. /\ procPc = "read" /\ events # <<>> /\ events \in Seq(Event)
        /\ events' = Tail(events) /\ procEv' = e /\ e \in Event
        /\ crash = "none"
        /\ UNCHANGED <<inQueue, connUp, bound, chans, gwChans, crash>>
    BY <1>1, <1>4 DEF ReadEvent, Alive, TypeOK
  <2>2. /\ e.dir # "in" => procPc' = "read"
        /\ e.dir = "in" /\ e.type = "created" => procPc' = "create"
        /\ e.dir = "in" /\ e.type # "created" => procPc' = "lookup"
    BY <1>4 DEF ReadEvent
  <2>3. /\ e.gw \in Gateways /\ e.dir \in {"in", "out"}
        /\ e.type \in {"created", "deleted"}
        /\ \A g \in Gateways :
             /\ e = Created(g) <=>
                  e.gw = g /\ e.dir = "in" /\ e.type = "created"
             /\ e = Deleted(g) <=>
                  e.gw = g /\ e.dir = "in" /\ e.type = "deleted"
    BY <2>1 DEF Event, Created, Deleted
  <2> HIDE DEF e
  <2>4. bound
    BY <1>1, <1>4, <2>1 DEF OrderInv, QuietBeforeBound
  <2>5. ASSUME NEW g \in Gateways
        PROVE  /\ InOrder(g)'
               /\ procPc' = "create" /\ procEv'.gw = g => gwChans[g] = 0
    <3>1. InOrder(g) /\ (Free(g) <=> gwChans[g] = 0)
      BY <1>3, <1>4, <2>1 DEF Free, Clear, Entering, Leaving
    <3>2. CASE e = Created(g)
      <4>1. /\ Alternates(events', g) /\ Headed(events, g)
            /\ ~Headed(events', g)
            /\ EndsDeleted(events, g) =>
                 EndsDeleted(events', g) /\ ~NoneDeleted(events', g)
        BY <2>1, <3>1, <3>2, TailOwn DEF InOrder, e
      <4>2. gwChans[g] = 0
        BY <3>1, <4>1 DEF InOrder
      <4> QED
        BY <2>1, <3>1, <4>1, <4>2 DEF InOrder
    <3>3. CASE e = Deleted(g)
      <4>1. /\ Alternates(events', g)
            /\ EndsDeleted(events, g) => EndsDeleted(events', g)
        BY <2>1, <3>1, TailOwn DEF InOrder
      <4>2. Free(g)' /\ procPc' = "lookup"
        BY <2>1, <2>2, <2>3, <3>3 DEF Free, Leaving
      <4> QED
        BY <2>1, <3>1, <4>1, <4>2 DEF InOrder
    <3>4. CASE e # Created(g) /\ e # Deleted(g)
      <4>1. /\ Alternates(events, g) => Alternates(events', g)
            /\ Headed(events', g) => Headed(events, g)
            /\ EndsDeleted(events, g) => EndsDeleted(events', g)
            /\ NoneDeleted(events', g) => NoneDeleted(events, g)
        BY <2>1, <3>4, TailOther DEF e
      <4>2. ~(procPc' = "create" /\ procEv'.gw = g) /\ procPc' # "add"
        <5>1. procPc' = "create" => e.dir = "in" /\ e.type = "created"
          BY <2>2, <2>3
        <5>2. e.gw = g /\ e.dir = "in" /\ e.type = "created" => FALSE
          BY <2>3, <3>4
        <5>3. procPc' # "add"
          BY <2>2, <2>3
        <5> QED
          BY <2>1, <5>1, <5>2, <5>3
      <4>3. Free(g) => Free(g)'
        BY <2>1, <3>1, <4>2 DEF Free, Clear, Entering
      <4> QED
        BY <2>1, <3>1, <4>1, <4>2, <4>3 DEF InOrder
    <3> QED
      BY <3>2, <3>3, <3>4
  <2>6. CreatesAreClear'
    BY <2>1, <2>3, <2>5 DEF CreatesAreClear
  <2> QED
    BY <2>1, <2>4, <2>5, <2>6 DEF OrderInv, EventsInOrder, QuietBeforeBound,
       NilChannelOnlyOffline
<1>5. CASE connUp /\ Create
  <2>1. /\ procPc = "create" /\ procEv \in Event /\ procEv.gw \in Gateways
        /\ bound /\ gwChans[procEv.gw] = 0
    BY <1>1, <1>5 DEF Create, OrderInv, CreatesAreClear, QuietBeforeBound,
       ProcessorHolds, Event
  <2>2. ~HasOpen(procEv.gw)
    BY <1>1, <2>1, NoneOpen
  <2> DEFINE out == [type |-> "created", gw |-> procEv.gw, dir |-> "out"]
  <2>3. /\ events' = Append(events, out) /\ procPc' = "add" /\ crash = "none"
        /\ UNCHANGED <<inQueue, connUp, bound, procEv, gwChans, crash>>
    BY <1>5, <2>1, <2>2 DEF Create, Notify, Alive
  <2>4. ASSUME NEW g \in Gateways
        PROVE  InOrder(g)'
    <3>1. out \in Event /\ out # Created(g) /\ out # Deleted(g)
      BY <2>1 DEF Event, Created, Deleted
    <3>2. Free(g) => Free(g)'
      BY <2>1, <2>3 DEF Free, Clear, Entering, Leaving
    <3> QED
      BY <1>1, <1>3, <1>5, <2>3, <3>1, <3>2, OtherInOrder DEF TypeOK
  <2> QED
    BY <2>1, <2>3, <2>4 DEF OrderInv, EventsInOrder, QuietBeforeBound,
       CreatesAreClear, NilChannelOnlyOffline
<1>6. CASE connUp /\ (Add \/ Get \/ Remove)
  <2>1. /\ procPc \in {"add", "lookup", "remove"} /\ crash = "none"
        /\ procPc' \in {"read", "close"} /\ procEv.gw \in Gateways
        /\ UNCHANGED <<inQueue, connUp, bound, events, procEv, chans, crash>>
    BY <1>1, <1>6 DEF Add, Get, Remove, Alive, ProcessorHolds, Event
  <2>2. bound
    BY <1>1, <1>6, <2>1 DEF OrderInv, QuietBeforeBound
  <2>3. ASSUME NEW g \in Gateways
        PROVE  InOrder(g)'
    <3>1. CASE procEv.gw # g
      <4>1. gwChans'[g] = gwChans[g]
        BY <1>1, <1>6, <3>1 DEF Add, Get, Remove, TypeOK
      <4>2. Free(g) => Free(g)'
        BY <2>1, <3>1, <4>1 DEF Free, Clear, Entering, Leaving
      <4> QED
        BY <1>1, <1>3, <1>6, <2>1, <4>2, OtherInOrder DEF TypeOK
    <3>2. CASE procEv.gw = g /\ Add
      <4>1. ~Free(g)
        BY <3>2 DEF Add, Free, Clear, Entering, Leaving
      <4> QED
        BY <1>1, <1>3, <1>6, <2>1, <4>1, OtherInOrder DEF TypeOK
    <3>3. CASE procEv.gw = g /\ (Get \/ Remove)
      <4>1. Free(g)'
        BY <1>1, <2>1, <3>3
           DEF Get, Remove, Free, Clear, Entering, Leaving, TypeOK
      <4> QED
        BY <1>1, <1>3, <1>6, <2>1, <4>1, OtherInOrder DEF TypeOK
    <3> QED
      BY <1>6, <3>1, <3>2, <3>3
  <2> QED
    BY <2>1, <2>2, <2>3 DEF OrderInv, EventsInOrder, QuietBeforeBound,
       CreatesAreClear, NilChannelOnlyOffline
<1>7. CASE connUp /\ Close
  <2>1. /\ procPc = "close" /\ procPc' = "remove" /\ crash = "none"
        /\ CloseChannel(procCh) /\ procCh \in DOMAIN chans
        /\ UNCHANGED <<inQueue, connUp, bound, procEv, gwChans, crash>>
    BY <1>1, <1>7 DEF Close, Alive, ProcessorHolds, TypeOK
  <2>2. bound
    BY <1>1, <1>7, <2>1 DEF OrderInv, QuietBeforeBound
  <2>3. ASSUME NEW g \in Gateways
        PROVE  InOrder(g)'
    <3>1. \/ events' = events
          \/ \E e \in Event : /\ e # Created(g) /\ e # Deleted(g)
                              /\ events' = Append(events, e)
      BY <1>7, <2>1, CloseChannelOrder
    <3>2. Free(g) => Free(g)'
      BY <2>1 DEF Free, Clear, Entering, Leaving
    <3> QED
      BY <1>1, <1>3, <1>7, <2>1, <3>1, <3>2, OtherInOrder DEF TypeOK
  <2> QED
    BY <2>1, <2>2, <2>3 DEF OrderInv, EventsInOrder, QuietBeforeBound,
       CreatesAreClear, NilChannelOnlyOffline
<1> QED
  BY <1>2, <1>4, <1>5, <1>6, <1>7 DEF Handle

LEMMA BrokerOrder ==
    ASSUME IInv, Broker \/ (\E i \in DOMAIN chans : ReaderNilEnvelope(i))
    PROVE  OrderInv'
<1> USE DEF brokerVars, linkVars, mainVars, procVars
<1>1. OrderInv /\ TypeOK
  BY DEF IInv, MapInv
<1>2. CASE LoseConnection
  BY <1>2, OfflineOrder DEF LoseConnection
<1>3. CASE DropEvents
  BY <1>3, OfflineOrder DEF DropEvents
<1>4. CASE \E i \in DOMAIN chans : ReaderNilEnvelope(i)
  BY <1>1, <1>4, StutterOrder DEF ReaderNilEnvelope
<1>5. ASSUME NEW h \in Gateways, DeclareIn(h) \/ DeleteIn(h)
      PROVE  OrderInv'
  <2>1. /\ UNCHANGED <<connUp, bound, procPc, procEv, chans, gwChans, crash>>
        /\ crash = "none"
        /\ inQueue \in [Gateways -> {"absent", "unseen", "seen"}]
        /\ events \in Seq(Event)
    BY <1>1, <1>5 DEF DeclareIn, DeleteIn, Alive, TypeOK
  <2>2. CASE ~connUp
    BY <2>1, <2>2, OfflineOrder
  <2>3. CASE connUp /\ ~bound
    <3>1. events' = events /\ events = <<>> /\ chans = <<>> /\ procPc = "off"
      BY <1>1, <1>5, <2>3 DEF OrderInv, QuietBeforeBound, DeclareIn, DeleteIn,
         Notify
    <3>2. ASSUME NEW g \in Gateways PROVE InOrder(g)'
      <4>1. Free(g)'
        BY <1>1, <2>1, <3>1 DEF Free, Clear, Entering, TypeOK
      <4> QED
        BY <3>1, <4>1, EmptyOrder DEF InOrder
    <3> QED
      BY <2>1, <3>1, <3>2 DEF OrderInv, EventsInOrder, QuietBeforeBound,
         CreatesAreClear, NilChannelOnlyOffline
  <2>4. CASE connUp /\ bound
    <3>1. ASSUME NEW g \in Gateways PROVE InOrder(g)'
      <4>1. /\ InOrder(g)
            /\ Free(g)' <=> Free(g)
        BY <1>1, <2>1, <2>4
           DEF OrderInv, EventsInOrder, Free, Clear, Entering, Leaving
      <4>2. CASE g = h /\ DeclareIn(h)
        <5>1. /\ inQueue[g] = "absent" /\ inQueue'[g] # "absent"
              /\ events' = Append(events, Created(g))
          BY <2>1, <2>4, <4>2 DEF DeclareIn, Notify, Created
        <5>2. /\ Alternates(events', g)
              /\ Headed(events', g) =>
                   Headed(events, g) \/ NoneDeleted(events, g)
          BY <2>1, <4>1, <5>1, AppendCreated DEF InOrder
        <5> QED
          BY <4>1, <5>1, <5>2 DEF InOrder
      <4>3. CASE g = h /\ DeleteIn(h)
        <5>1. events' = Append(events, Deleted(g))
          BY <2>4, <4>3 DEF DeleteIn, Notify, Deleted
        <5>2. /\ Alternates(events', g)
              /\ Headed(events', g) => Headed(events, g)
              /\ EndsDeleted(events', g) /\ ~NoneDeleted(events', g)
          BY <2>1, <4>1, <5>1, AppendDeleted DEF InOrder
        <5> QED
          BY <4>1, <5>2 DEF InOrder
      <4>4. CASE g # h
        <5>1. inQueue'[g] = inQueue[g]
          BY <1>5, <2>1, <4>4 DEF DeclareIn, DeleteIn
        <5>2. \E e \in Event : /\ e # Created(g) /\ e # Deleted(g)
                               /\ events' = Append(events, e)
          <6>1. events' = Append(events, Created(h))
                \/ events' = Append(events, Deleted(h))
            BY <1>5, <2>4 DEF DeclareIn, DeleteIn, Notify, Created, Deleted
          <6>2. \A e \in {Created(h), Deleted(h)} :
                  e \in Event /\ e # Created(g) /\ e # Deleted(g)
            BY <4>4 DEF Created, Deleted, Event
          <6> QED
            BY <6>1, <6>2
        <5> QED
          BY <2>1, <4>1, <5>1, <5>2, OtherInOrder
      <4> QED
        BY <1>5, <4>2, <4>3, <4>4
    <3> QED
      BY <1>1, <2>1, <2>4, <3>1 DEF OrderInv, EventsInOrder, QuietBeforeBound,
         CreatesAreClear, NilChannelOnlyOffline
  <2> QED
    BY <2>2, <2>3, <2>4
<1> QED
  BY <1>2, <1>3, <1>4, <1>5 DEF Broker

LEMMA NextIInv == IInv /\ [Next]_vars => IInv'
<1> SUFFICES ASSUME IInv, [Next]_vars PROVE OrderInv'
  BY NextMapInv, NextAdds DEF IInv
<1>1. CASE Next
  BY <1>1, MainOrder, ProcessorOrder, BrokerOrder DEF Next
<1>2. CASE UNCHANGED vars
  BY <1>2, StutterOrder DEF vars, brokerVars, linkVars, procVars, IInv,
     OrderInv, NilChannelOnlyOffline
<1> QED
  BY <1>1, <1>2

\* While the connection is up the processor never gets nil for a gateway that
\* reconnects: the events come in the order that closes its old channel before
\* a new one is built (ProcessExchangeEvents, NewGatewayChannel).
THEOREM NilOnlyOffline == Spec => []NilChannelOnlyOffline
<1>1. Init => IInv
  BY InitMapInv, InitOrder DEF IInv
<1>2. IInv => NilChannelOnlyOffline
  BY DEF IInv, OrderInv
<1> QED
  BY <1>1, NextIInv, <1>2, PTL DEF Spec
-----------------------------------------------------------------------------
(* The map follows the gateways.                                           *)

\* The channel of g is in the map and works, or is about to.
Present(g) ==
    /\ ~Leaving(g)
    /\ \/ procPc = "create" /\ procEv.gw = g
       \/ procPc = "add" /\ procEv.gw = g /\ chans[procCh].open
       \/ gwChans[g] # 0 /\ chans[gwChans[g]].open

\* Nothing is known of g.
Unknown(g) == Clear(g) /\ ~Leaving(g)

\* The events that are left say what the map does not say yet.
Tracked(g) ==
    /\ inQueue[g] = "seen" =>
         \/ ~EndsDeleted(events, g)
         \/ NoneDeleted(events, g) /\ Present(g)
    /\ inQueue[g] = "absent" /\ NoneDeleted(events, g) => Free(g)
    /\ inQueue[g] = "unseen" =>
         EndsDeleted(events, g) /\ NoneDeleted(events, g) /\ Unknown(g)

TrackInv == connUp /\ ~Cancelled => \A g \in Gateways : Tracked(g)

\* What is left of the queue when the processor takes its first event.
LEMMA TailLast ==
    ASSUME NEW s \in Seq(Event), s # <<>>, NEW g \in Gateways
    PROVE  /\ NoneDeleted(s, g) => NoneDeleted(Tail(s), g)
           /\ ~EndsDeleted(s, g) =>
                \/ ~EndsDeleted(Tail(s), g)
                \/ Head(s) = Created(g) /\ NoneDeleted(Tail(s), g)
           /\ Head(s) = Created(g) /\ EndsDeleted(s, g) => ~NoneDeleted(s, g)
           /\ Head(s) = Deleted(g) => ~NoneDeleted(s, g)
<1> DEFINE t == Tail(s)
<1>1. \A i \in Nat :
        /\ CreatedAt(t, g, i) <=> i > 0 /\ CreatedAt(s, g, i + 1)
        /\ DeletedAt(t, g, i) <=> i > 0 /\ DeletedAt(s, g, i + 1)
        /\ CreatedAt(s, g, i) \/ DeletedAt(s, g, i) => i > 0
  BY TailAt
<1>2. /\ CreatedAt(s, g, 1) <=> Head(s) = Created(g)
      /\ DeletedAt(s, g, 1) <=> Head(s) = Deleted(g)
  BY TailAt
<1> HIDE DEF t
<1>3. ASSUME NoneDeleted(s, g) PROVE NoneDeleted(t, g)
  BY <1>1, <1>3 DEF NoneDeleted
<1>4. ASSUME ~EndsDeleted(s, g), EndsDeleted(t, g)
      PROVE  Head(s) = Created(g) /\ NoneDeleted(t, g)
  <2>1. PICK i \in Nat : /\ CreatedAt(s, g, i)
                         /\ \A k \in Nat : i < k => ~DeletedAt(s, g, k)
    BY <1>4 DEF EndsDeleted
  <2>2. i = 1
    <3>1. SUFFICES ASSUME i > 1 PROVE FALSE
      BY <1>1, <2>1
    <3>2. i - 1 \in Nat /\ i - 1 > 0 /\ (i - 1) + 1 = i
      BY <3>1
    <3>3. CreatedAt(t, g, i - 1)
      BY <1>1, <2>1, <3>2
    <3>4. PICK k \in Nat : i - 1 < k /\ DeletedAt(t, g, k)
      BY <1>4, <3>2, <3>3 DEF EndsDeleted
    <3> QED
      BY <1>1, <2>1, <3>4
  <2> QED
    BY <1>1, <1>2, <2>1, <2>2 DEF NoneDeleted
<1>5. ASSUME Head(s) = Created(g), EndsDeleted(s, g)
      PROVE  ~NoneDeleted(s, g)
  BY <1>2, <1>5 DEF EndsDeleted, NoneDeleted
<1>6. ASSUME Head(s) = Deleted(g)
      PROVE  ~NoneDeleted(s, g)
  BY <1>2, <1>6 DEF NoneDeleted
<1> QED
  BY <1>3, <1>4, <1>5, <1>6 DEF t

\* A step that adds at most an event of another queue keeps g tracked, if the
\* map and the processor say of g what they said before.
LEMMA OtherTracked ==
    ASSUME NEW g \in Gateways, Tracked(g), events \in Seq(Event),
           inQueue'[g] = inQueue[g],
           Present(g) => Present(g)',
           Free(g) => Free(g)',
           Unknown(g) => Unknown(g)',
           \/ events' = events
           \/ \E e \in Event : /\ e # Created(g) /\ e # Deleted(g)
                               /\ events' = Append(events, e)
    PROVE  Tracked(g)'
<1>1. /\ EndsDeleted(events', g) <=> EndsDeleted(events, g)
      /\ NoneDeleted(events', g) <=> NoneDeleted(events, g)
  BY AppendOther
<1> QED
  BY <1>1 DEF Tracked

\* Without a change of the map, of a channel or of the processor.
LEMMA SameHold ==
    ASSUME NEW g \in Gateways, UNCHANGED <<procVars, gwChans, chans>>
    PROVE  /\ Present(g)' <=> Present(g)
           /\ Free(g)' <=> Free(g)
           /\ Unknown(g)' <=> Unknown(g)
  BY DEF procVars, Present, Free, Clear, Unknown, Entering, Leaving

LEMMA InitTrack == Init => TrackInv
<1> SUFFICES ASSUME Init, NEW g \in Gateways PROVE Tracked(g)
  BY DEF TrackInv
<1>1. events = <<>> /\ procPc = "off" /\ gwChans[g] = 0
      /\ inQueue[g] # "seen"
  BY DEF Init
<1>2. Unknown(g) /\ Free(g)
  BY <1>1 DEF Unknown, Free, Clear, Entering, Leaving
<1>3. EndsDeleted(events, g) /\ NoneDeleted(events, g)
  BY <1>1, EmptyOrder DEF NoneDeleted, DeletedAt
<1> QED
  BY <1>1, <1>2, <1>3 DEF Tracked

\* main and the broker touch neither map nor processor while the server runs.
LEMMA MainTrack ==
    ASSUME MapInv, TrackInv, Main
    PROVE  TrackInv'
<1> USE DEF brokerVars, linkVars, mainVars, procVars
<1>1. CASE ListQueues \/ (\E g \in Gateways : Restart(g))
  <2>1. /\ UNCHANGED <<inQueue, connUp, events, procVars, gwChans, chans>>
        /\ mainPc \in {"list", "restart"}
    BY <1>1 DEF ListQueues, Restart
  <2>2. ASSUME NEW g \in Gateways, connUp, ~Cancelled PROVE Tracked(g)'
    BY <2>1, <2>2, SameHold, OtherTracked DEF TrackInv, MapInv, TypeOK
  <2> QED
    BY <2>1, <2>2 DEF TrackInv, Cancelled
<1>2. CASE EventExchangeInit
  <2>1. /\ UNCHANGED <<inQueue, connUp, events, procEv, procCh, gwChans,
                        chans>>
        /\ mainPc = "restart" /\ procPc = "off"
        /\ connUp => procPc' = "read"
    BY <1>2 DEF EventExchangeInit, MapInv, ProcessorHolds
  <2>2. ASSUME NEW g \in Gateways, connUp PROVE Tracked(g)'
    <3>1. Tracked(g)
      BY <2>1, <2>2 DEF TrackInv, Cancelled
    <3>2. /\ Present(g) => Present(g)'
          /\ Free(g) => Free(g)'
          /\ Unknown(g) => Unknown(g)'
      BY <2>1, <2>2 DEF Present, Free, Clear, Unknown, Entering, Leaving
    <3> QED
      BY <2>1, <3>1, <3>2, OtherTracked DEF MapInv, TypeOK
  <2> QED
    BY <2>1, <2>2 DEF TrackInv
<1>3. CASE Interrupt \/ (\E n \in toClose : CloseStored(n))
           \/ CloseConnection \/ Exit
  <2>1. Cancelled'
    BY <1>3 DEF Interrupt, CloseStored, CloseConnection, Exit, Cancelled
  <2> QED
    BY <2>1 DEF TrackInv
<1> QED
  BY <1>1, <1>2, <1>3 DEF Main

LEMMA ReadTrack ==
    ASSUME IInv, TrackInv, ReadEvent
    PROVE  TrackInv'
<1> USE DEF brokerVars, linkVars, mainVars, procVars
<1> DEFINE e == Head(events)
<1>1. /\ procPc = "read" /\ events # <<>> /\ events \in Seq(Event)
      /\ events' = Tail(events) /\ procEv' = e /\ e \in Event
      /\ UNCHANGED <<inQueue, connUp, mainPc, procCh, gwChans, chans>>
      /\ inQueue \in [Gateways -> {"absent", "unseen", "seen"}]
  BY DEF ReadEvent, IInv, MapInv, TypeOK
<1>2. /\ e.dir # "in" => procPc' = "read"
      /\ e.dir = "in" /\ e.type = "created" => procPc' = "create"
      /\ e.dir = "in" /\ e.type # "created" => procPc' = "lookup"
  BY DEF ReadEvent
<1>3. /\ e.dir \in {"in", "out"} /\ e.type \in {"created", "deleted"}
      /\ \A g \in Gateways :
           /\ e = Created(g) <=>
                e.gw = g /\ e.dir = "in" /\ e.type = "created"
           /\ e = Deleted(g) <=>
                e.gw = g /\ e.dir = "in" /\ e.type = "deleted"
  BY <1>1 DEF Event, Created, Deleted
<1> HIDE DEF e
<1> SUFFICES ASSUME NEW g \in Gateways, connUp, ~Cancelled
             PROVE  Tracked(g)'
  BY <1>1 DEF TrackInv, Cancelled
<1>4. Tracked(g) /\ InOrder(g)
  BY DEF TrackInv, IInv, OrderInv, EventsInOrder
<1>5. ~Entering(g) /\ ~Leaving(g)
  BY <1>1 DEF Entering, Leaving
<1>6. /\ NoneDeleted(events, g) => NoneDeleted(events', g)
      /\ ~EndsDeleted(events, g) =>
           \/ ~EndsDeleted(events', g)
           \/ e = Created(g) /\ NoneDeleted(events', g)
      /\ e = Created(g) /\ EndsDeleted(events, g) => ~NoneDeleted(events, g)
      /\ e = Deleted(g) => ~NoneDeleted(events, g)
  BY <1>1, TailLast DEF e
<1>7. CASE e = Created(g)
  <2>1. /\ EndsDeleted(events, g) => ~NoneDeleted(events', g)
        /\ procPc' = "create" /\ procEv'.gw = g
    BY <1>1, <1>2, <1>3, <1>4, <1>7, TailOwn DEF InOrder, e
  <2>2. Present(g)'
    BY <2>1 DEF Present, Leaving
  <2>3. inQueue[g] = "absent" => EndsDeleted(events, g)
    BY <1>4 DEF InOrder
  <2> QED
    BY <1>1, <1>4, <1>6, <1>7, <2>1, <2>2, <2>3 DEF Tracked
<1>8. CASE e = Deleted(g)
  <2>1. procPc' = "lookup" /\ procEv'.gw = g
    BY <1>1, <1>2, <1>3, <1>8
  <2>2. Free(g)' /\ Created(g) # Deleted(g)
    BY <2>1 DEF Free, Clear, Leaving, Created, Deleted
  <2> QED
    BY <1>1, <1>4, <1>6, <1>8, <2>2 DEF Tracked
<1>9. CASE e # Created(g) /\ e # Deleted(g)
  <2>1. /\ EndsDeleted(events, g) => EndsDeleted(events', g)
        /\ NoneDeleted(events', g) => NoneDeleted(events, g)
    BY <1>1, <1>9, TailOther DEF e
  <2>2. ~Entering(g)' /\ ~Leaving(g)'
    BY <1>1, <1>2, <1>3, <1>9 DEF Entering, Leaving
  <2>3. /\ Present(g) => Present(g)'
        /\ Free(g) => Free(g)'
        /\ Unknown(g) => Unknown(g)'
    BY <1>1, <1>5, <2>2 DEF Present, Free, Clear, Unknown
  <2> QED
    BY <1>1, <1>4, <1>6, <1>9, <2>1, <2>3 DEF Tracked
<1> QED
  BY <1>7, <1>8, <1>9

LEMMA HandleTrack ==
    ASSUME IInv, TrackInv, Handle
    PROVE  TrackInv'
<1> USE DEF brokerVars, linkVars, mainVars, procVars
<1>1. /\ MapInv /\ TypeOK /\ EntriesMatch /\ ProcessorHolds
      /\ UNCHANGED <<inQueue, connUp, mainPc>>
  BY DEF IInv, MapInv, Handle, Create, Add, Get, Close, Remove
<1> SUFFICES ASSUME NEW g \in Gateways, connUp, ~Cancelled
             PROVE  Tracked(g)'
  BY <1>1 DEF TrackInv, Cancelled
<1>2. Tracked(g) /\ InOrder(g) /\ events \in Seq(Event)
  BY <1>1 DEF TrackInv, IInv, OrderInv, EventsInOrder, TypeOK
<1>3. gwChans[g] # 0 => gwChans[g] \in DOMAIN chans
  BY <1>1 DEF TypeOK
<1>4. CASE Create
  <2>1. /\ procPc = "create" /\ procEv.gw \in Gateways
        /\ bound /\ gwChans[procEv.gw] = 0
    BY <1>1, <1>4
       DEF Create, IInv, OrderInv, CreatesAreClear, QuietBeforeBound,
           ProcessorHolds, Event
  <2>2. ~HasOpen(procEv.gw)
    BY <1>1, <2>1, NoneOpen
  <2>3. /\ procPc' = "add" /\ procCh' = Len(chans')
        /\ chans' = Append(chans, [gw |-> procEv.gw, open |-> TRUE])
        /\ UNCHANGED <<procEv, gwChans>>
        /\ events' = Append(events, [type |-> "created", gw |-> procEv.gw,
                                    dir |-> "out"])
    BY <1>4, <2>1, <2>2 DEF Create, Notify
  <2>4. /\ \A i \in DOMAIN chans : chans'[i] = chans[i]
        /\ chans'[procCh'].open
    BY <1>1, <2>3 DEF TypeOK
  <2>5. /\ Present(g) => Present(g)'
        /\ Free(g) => Free(g)'
        /\ Unknown(g) => Unknown(g)'
    BY <1>3, <2>1, <2>3, <2>4
       DEF Present, Free, Clear, Unknown, Entering, Leaving
  <2>6. \E e \in Event : /\ e # Created(g) /\ e # Deleted(g)
                         /\ events' = Append(events, e)
    BY <2>1, <2>3 DEF Event, Created, Deleted
  <2> QED
    BY <1>1, <1>2, <2>5, <2>6, OtherTracked
<1>5. CASE Add
  <2>1. /\ procPc = "add" /\ procPc' = "read" /\ procEv.gw \in Gateways
        /\ gwChans' = [gwChans EXCEPT ![procEv.gw] = procCh] /\ procCh # 0
        /\ UNCHANGED <<events, procEv, procCh, chans>>
    BY <1>1, <1>5 DEF Add, ProcessorHolds, Event
  <2>2. gwChans'[g] = IF procEv.gw = g THEN procCh ELSE gwChans[g]
    BY <1>1, <2>1 DEF TypeOK
  <2>3. CASE procEv.gw = g /\ Present(g) /\ inQueue[g] = "seen"
    <3>1. chans[procCh].open
      BY <1>1, <2>1, <2>3, <1>3 DEF Present, ProcessorHolds, EntriesMatch
    <3>2. Present(g)'
      BY <2>1, <2>2, <2>3, <3>1 DEF Present, Leaving
    <3> QED
      BY <1>1, <1>2, <2>1, <2>3, <3>2 DEF Tracked
  <2>4. CASE procEv.gw = g /\ ~(Present(g) /\ inQueue[g] = "seen")
    <3>1. ~Free(g) /\ ~Unknown(g)
      BY <2>1, <2>4 DEF Free, Clear, Unknown, Entering, Leaving
    <3> QED
      BY <1>1, <1>2, <2>1, <2>4, <3>1 DEF Tracked
  <2>5. CASE procEv.gw # g
    <3>1. /\ Present(g) => Present(g)'
          /\ Free(g) => Free(g)'
          /\ Unknown(g) => Unknown(g)'
      BY <2>1, <2>2, <2>5 DEF Present, Free, Clear, Unknown, Entering, Leaving
    <3> QED
      BY <1>1, <1>2, <2>1, <3>1, OtherTracked
  <2> QED
    BY <2>3, <2>4, <2>5
<1>6. CASE Get
  <2>1. /\ procPc = "lookup" /\ procEv.gw \in Gateways
        /\ procPc' = IF gwChans[procEv.gw] = 0 THEN "read" ELSE "close"
        /\ UNCHANGED <<events, procEv, chans, gwChans>>
    BY <1>1, <1>6 DEF Get, ProcessorHolds, Event
  <2>2. /\ Present(g) => Present(g)'
        /\ Free(g) => Free(g)'
        /\ Unknown(g) => Unknown(g)'
    BY <2>1 DEF Present, Free, Clear, Unknown, Entering, Leaving
  <2> QED
    BY <1>1, <1>2, <2>1, <2>2, OtherTracked
<1>7. CASE Close
  <2>1. /\ procPc = "close" /\ procPc' = "remove"
        /\ CloseChannel(procCh) /\ procCh \in DOMAIN chans
        /\ procEv.gw \in Gateways /\ procCh = gwChans[procEv.gw]
        /\ procCh # 0
        /\ UNCHANGED <<procEv, procCh, gwChans>>
    BY <1>1, <1>7 DEF Close, ProcessorHolds, TypeOK, Event
  <2>2. \A i \in DOMAIN chans : i # procCh => chans'[i] = chans[i]
    BY <1>1, <2>1 DEF CloseChannel, TypeOK
  <2>3. procEv.gw # g => gwChans[g] # procCh
    BY <1>1, <2>1 DEF EntriesMatch
  <2>4. /\ Present(g) => Present(g)'
        /\ Free(g) => Free(g)'
        /\ Unknown(g) => Unknown(g)'
    BY <1>3, <2>1, <2>2, <2>3
       DEF Present, Free, Clear, Unknown, Entering, Leaving
  <2>5. \/ events' = events
        \/ \E e \in Event : /\ e # Created(g) /\ e # Deleted(g)
                            /\ events' = Append(events, e)
    BY <1>1, <2>1, CloseChannelOrder
  <2> QED
    BY <1>1, <1>2, <2>4, <2>5, OtherTracked
<1>8. CASE Remove
  <2>1. /\ procPc = "remove" /\ procPc' = "read" /\ procEv.gw \in Gateways
        /\ gwChans' = [gwChans EXCEPT ![procEv.gw] = 0]
        /\ UNCHANGED <<events, procEv, chans>>
    BY <1>1, <1>8 DEF Remove, ProcessorHolds, Event
  <2>2. gwChans'[g] = IF procEv.gw = g THEN 0 ELSE gwChans[g]
    BY <1>1, <2>1 DEF TypeOK
  <2>3. /\ Present(g) => Present(g)'
        /\ Free(g) => Free(g)'
        /\ Unknown(g) => Unknown(g)'
    BY <2>1, <2>2 DEF Present, Free, Clear, Unknown, Entering, Leaving
  <2> QED
    BY <1>1, <1>2, <2>1, <2>3, OtherTracked
<1> QED
  BY <1>4, <1>5, <1>6, <1>7, <1>8 DEF Handle

LEMMA BrokerTrack ==
    ASSUME IInv, TrackInv,
           Broker \/ (\E i \in DOMAIN chans : ReaderNilEnvelope(i))
    PROVE  TrackInv'
<1> USE DEF brokerVars, linkVars, mainVars, procVars
<1>1. CASE LoseConnection \/ DropEvents
           \/ (\E i \in DOMAIN chans : ReaderNilEnvelope(i))
  <2>1. ~connUp'
    BY <1>1 DEF LoseConnection, DropEvents, ReaderNilEnvelope
  <2> QED
    BY <2>1 DEF TrackInv
<1>2. ASSUME NEW h \in Gateways, DeclareIn(h) \/ DeleteIn(h),
             NEW g \in Gateways, connUp, ~Cancelled
      PROVE  Tracked(g)'
  <2>1. /\ UNCHANGED <<connUp, bound, mainPc, procVars, chans, gwChans>>
        /\ inQueue \in [Gateways -> {"absent", "unseen", "seen"}]
        /\ events \in Seq(Event) /\ bound \in BOOLEAN
    BY <1>2 DEF DeclareIn, DeleteIn, IInv, MapInv, TypeOK
  <2>2. Tracked(g) /\ InOrder(g)
    BY <1>2 DEF TrackInv, IInv, OrderInv, EventsInOrder
  <2>3. /\ Present(g)' <=> Present(g)
        /\ Free(g)' <=> Free(g)
        /\ Unknown(g)' <=> Unknown(g)
    BY <2>1, SameHold
  <2>4. CASE g # h
    <3>1. inQueue'[g] = inQueue[g]
      BY <1>2, <2>1, <2>4 DEF DeclareIn, DeleteIn
    <3>2. \/ events' = events
          \/ events' = Append(events, Created(h))
          \/ events' = Append(events, Deleted(h))
      BY <1>2 DEF DeclareIn, DeleteIn, Notify, Created, Deleted
    <3>3. \A e \in {Created(h), Deleted(h)} :
            e \in Event /\ e # Created(g) /\ e # Deleted(g)
      BY <2>4 DEF Created, Deleted, Event
    <3> QED
      BY <2>1, <2>2, <2>3, <3>1, <3>2, <3>3, OtherTracked
  <2>5. CASE g = h /\ bound /\ DeclareIn(h)
    <3>1. inQueue'[g] = "seen" /\ events' = Append(events, Created(g))
      BY <2>1, <2>5 DEF DeclareIn, Notify, Created
    <3>2. ~EndsDeleted(events', g)
      BY <2>1, <3>1, AppendCreated
    <3> QED
      BY <3>1, <3>2 DEF Tracked
  <2>6. CASE g = h /\ bound /\ DeleteIn(h)
    <3>1. inQueue'[g] = "absent" /\ events' = Append(events, Deleted(g))
      BY <2>1, <2>6 DEF DeleteIn, Notify, Deleted
    <3>2. ~NoneDeleted(events', g)
      BY <2>1, <3>1, AppendDeleted
    <3> QED
      BY <3>1, <3>2 DEF Tracked
  <2>7. CASE g = h /\ ~bound
    <3>1. /\ events' = <<>> /\ procPc = "off" /\ gwChans[g] = 0
          /\ inQueue'[g] # "seen"
      BY <1>2, <2>1, <2>7
         DEF IInv, MapInv, TypeOK, OrderInv, QuietBeforeBound, DeclareIn,
             DeleteIn, Notify
    <3>2. Unknown(g)' /\ Free(g)'
      BY <2>1, <3>1 DEF Unknown, Free, Clear, Entering, Leaving
    <3>3. EndsDeleted(events', g) /\ NoneDeleted(events', g)
      BY <3>1, EmptyOrder DEF NoneDeleted, DeletedAt
    <3> QED
      BY <3>1, <3>2, <3>3 DEF Tracked
  <2> QED
    BY <1>2, <2>1, <2>4, <2>5, <2>6, <2>7
<1>3. ASSUME NEW h \in Gateways, DeclareIn(h) \/ DeleteIn(h)
      PROVE  UNCHANGED <<connUp, mainPc>>
  BY <1>3 DEF DeclareIn, DeleteIn
<1>4. CASE \E h \in Gateways : DeclareIn(h) \/ DeleteIn(h)
  BY <1>2, <1>3, <1>4 DEF TrackInv, Cancelled
<1> QED
  BY <1>1, <1>4 DEF Broker

LEMMA NextTrack == IInv /\ TrackInv /\ [Next]_vars => TrackInv'
<1> SUFFICES ASSUME IInv, TrackInv, [Next]_vars PROVE TrackInv'
  OBVIOUS
<1>1. CASE Next
  BY <1>1, MainTrack, ReadTrack, HandleTrack, BrokerTrack DEF Next, IInv
<1>2. CASE UNCHANGED vars
  <2>1. /\ UNCHANGED <<inQueue, connUp, events, procVars, gwChans, chans>>
        /\ Cancelled' = Cancelled
    BY <1>2 DEF vars, brokerVars, linkVars, mainVars, procVars, Cancelled
  <2>2. ASSUME NEW g \in Gateways, Tracked(g) PROVE Tracked(g)'
    BY <2>1, <2>2, SameHold, OtherTracked DEF IInv, MapInv, TypeOK
  <2> QED
    BY <2>1, <2>2 DEF TrackInv
<1> QED
  BY <1>1, <1>2

\* However the queues of gateways come and go while the server runs, once the
\* processor has caught up the map holds an open channel for each gateway that
\* came online after start-up and none for the others (ProcessExchangeEvents).
THEOREM SettledTracks == Spec => []SettledTracking
<1>1. Init => IInv /\ TrackInv
  BY InitMapInv, InitOrder, InitTrack DEF IInv
<1>2. IInv /\ TrackInv => SettledTracking
  <2> SUFFICES ASSUME IInv, TrackInv, Settled, NEW g \in Gateways
               PROVE  /\ inQueue[g] = "seen" =>
                           gwChans[g] # 0 /\ chans[gwChans[g]].open
                      /\ inQueue[g] # "seen" => gwChans[g] = 0
    BY DEF SettledTracking
  <2>1. Tracked(g) /\ events = <<>> /\ procPc = "read"
    BY DEF TrackInv, Settled, Cancelled
  <2>2. EndsDeleted(events, g) /\ NoneDeleted(events, g)
    BY <2>1, EmptyOrder DEF NoneDeleted, DeletedAt
  <2>3. inQueue[g] \in {"absent", "unseen", "seen"}
    BY DEF IInv, MapInv, TypeOK
  <2> QED
    BY <2>1, <2>2, <2>3
       DEF Tracked, Present, Free, Clear, Unknown, Entering, Leaving
<1>3. IInv /\ TrackInv /\ [Next]_vars => IInv' /\ TrackInv'
  BY NextIInv, NextTrack
<1> QED
  BY <1>1, <1>2, <1>3, PTL DEF Spec
-----------------------------------------------------------------------------
(* The manager keeps the registry.                                         *)

\* The event queue hangs on the connection.
BoundUp == bound => connUp

LEMMA NextBoundUp == BoundUp /\ [Next]_vars => BoundUp'
<1> SUFFICES ASSUME BoundUp, [Next]_vars PROVE BoundUp'
  OBVIOUS
<1> USE DEF BoundUp, brokerVars, linkVars, mainVars, procVars
<1>1. CASE Main
  BY <1>1
     DEF Main, ListQueues, Restart, EventExchangeInit, Interrupt, CloseStored,
         CloseConnection, Exit
<1>2. CASE ReadEvent \/ Handle
  BY <1>2 DEF ReadEvent, Handle, Create, Add, Get, Close, Remove
<1>3. CASE Broker \/ (\E i \in DOMAIN chans : ReaderNilEnvelope(i))
  BY <1>3
     DEF Broker, DeclareIn, DeleteIn, LoseConnection, DropEvents,
         ReaderNilEnvelope
<1>4. CASE UNCHANGED vars
  BY <1>4 DEF vars
<1> QED
  BY <1>1, <1>2, <1>3, <1>4 DEF Next

\* The events "created" of g that a queue holds, and the one in hand.
Left(s, g) == Cardinality({i \in DOMAIN s : s[i] = Created(g)})
Hand(g) == IF procPc = "create" /\ procEv.gw = g THEN 1 ELSE 0

\* They are finitely many.
LEMMA LeftType ==
    ASSUME NEW s \in Seq(Event), NEW g
    PROVE  /\ IsFiniteSet({i \in DOMAIN s : s[i] = Created(g)})
           /\ Left(s, g) \in Nat
<1>1. DOMAIN s = 1 .. Len(s) /\ Len(s) \in Nat
  OBVIOUS
<1>2. IsFiniteSet(DOMAIN s)
  BY <1>1, FS_Interval
<1>3. IsFiniteSet({i \in DOMAIN s : s[i] = Created(g)})
  BY <1>2, FS_Subset
<1> QED
  BY <1>3, FS_CardinalityType DEF Left

\* An event that is added counts for its own gateway.
LEMMA LeftAppend ==
    ASSUME NEW s \in Seq(Event), NEW e \in Event, NEW g
    PROVE  Left(Append(s, e), g)
             = IF e = Created(g) THEN Left(s, g) + 1 ELSE Left(s, g)
<1> DEFINE A == {i \in DOMAIN s : s[i] = Created(g)}
           B == {i \in DOMAIN Append(s, e) : Append(s, e)[i] = Created(g)}
           n == Len(s) + 1
<1>1. /\ DOMAIN s = 1 .. Len(s) /\ Len(s) \in Nat
      /\ DOMAIN Append(s, e) = 1 .. n /\ Append(s, e)[n] = e
      /\ \A i \in 1 .. Len(s) : Append(s, e)[i] = s[i]
  OBVIOUS
<1>2. CASE e = Created(g)
  <2>1. B = A \cup {n}
    BY <1>1, <1>2
  <2>2. IsFiniteSet(A) /\ A = DOMAIN s \cap A
    BY LeftType
  <2>3. n \notin DOMAIN s
    BY <1>1
  <2>4. Cardinality(B) = Cardinality(A) + 1
    BY <2>1, <2>2, <2>3, FS_AddElement
  <2> QED
    BY <1>2, <2>4 DEF Left
<1>3. CASE e # Created(g)
  <2>1. B = A
    BY <1>1, <1>3
  <2> QED
    BY <1>3, <2>1 DEF Left
<1> QED
  BY <1>2, <1>3

\* The first event is taken away once.
LEMMA LeftTail ==
    ASSUME NEW s \in Seq(Event), s # <<>>, NEW g
    PROVE  Left(s, g) = IF Head(s) = Created(g) THEN Left(Tail(s), g) + 1
                        ELSE Left(Tail(s), g)
<1> DEFINE A == {i \in DOMAIN s : s[i] = Created(g)}
           B == {i \in DOMAIN Tail(s) : Tail(s)[i] = Created(g)}
           C == A \ {1}
           f == [i \in B |-> i + 1]
<1>1. /\ DOMAIN s = 1 .. Len(s) /\ Len(s) \in Nat /\ Len(s) >= 1
      /\ Head(s) = s[1] /\ Tail(s) \in Seq(Event)
      /\ DOMAIN Tail(s) = 1 .. (Len(s) - 1)
      /\ \A i \in 1 .. (Len(s) - 1) : Tail(s)[i] = s[i + 1]
  OBVIOUS
<1>2. IsFiniteSet(A) /\ IsFiniteSet(B)
  BY <1>1, LeftType
<1>3. \A i \in B : i \in Nat /\ i + 1 \in C
  BY <1>1
<1>4. \A j \in C : j - 1 \in B /\ (j - 1) + 1 = j
  BY <1>1
<1>5. f \in Bijection(B, C)
  <2>1. f \in [B -> C]
    BY <1>3
  <2>2. \A i, j \in B : f[i] = f[j] => i = j
    BY <1>3
  <2>3. \A j \in C : \E i \in B : f[i] = j
    BY <1>4
  <2> QED
    BY <2>1, <2>2, <2>3, Fun_IsBij
<1>6. Cardinality(C) = Cardinality(B)
  BY <1>2, <1>5, FS_Bijection DEF ExistsBijection
<1>7. Cardinality(C) = IF 1 \in A THEN Cardinality(A) - 1 ELSE Cardinality(A)
  BY <1>2, FS_RemoveElement
<1>8. 1 \in A <=> Head(s) = Created(g)
  BY <1>1
<1>9. /\ Left(s, g) = Cardinality(A) /\ Left(Tail(s), g) = Cardinality(B)
      /\ Cardinality(A) \in Nat
  BY <1>2, FS_CardinalityType DEF Left
<1> HIDE DEF A, B, C
<1> QED
  BY <1>6, <1>7, <1>8, <1>9

\* An empty queue holds none, one that holds an event "created" some.
LEMMA LeftEmpty == \A g : Left(<<>>, g) = 0
<1>1. \A g : {i \in DOMAIN <<>> : <<>>[i] = Created(g)} = {}
  OBVIOUS
<1> QED
  BY <1>1, FS_EmptySet DEF Left

LEMMA LeftSome ==
    ASSUME NEW s \in Seq(Event), NEW g, NEW i \in Nat, CreatedAt(s, g, i)
    PROVE  Left(s, g) > 0
<1> DEFINE A == {j \in DOMAIN s : s[j] = Created(g)}
<1>1. i \in A
  BY DEF CreatedAt
<1>2. IsFiniteSet(A) /\ Left(s, g) = Cardinality(A) /\ Left(s, g) \in Nat
  BY LeftType DEF Left
<1>3. Cardinality(A) # 0
  BY <1>1, <1>2, FS_EmptySet
<1> QED
  BY <1>2, <1>3

LEMMA JoinsAre ==
    ASSUME NEW g
    PROVE  Joins(g) = Left(events, g) + Hand(g)
  BY DEF Joins, Left, Hand, Created

\* The registry's view of the manager.
Online == {g \in Gateways : inQueue[g] = "seen"}
Served == {g \in Gateways : HasOpen(g)}
Listed == {g \in Gateways : gwChans[g] # 0}
AllJoins == [g \in Gateways |-> Joins(g)]

LEMMA RegistrySteps ==
    ASSUME NEW g \in Gateways
    PROVE  /\ Registry!Join(g) <=>
                /\ connUp /\ g \notin Online
                /\ Online' = Online \cup {g}
                /\ AllJoins' = [AllJoins EXCEPT ![g] = @ + 1]
                /\ UNCHANGED <<Served, Listed, connUp, Cancelled>>
           /\ Registry!Leave(g) <=>
                /\ Online' = Online \ {g}
                /\ UNCHANGED <<AllJoins, Served, Listed, connUp, Cancelled>>
           /\ Registry!Open(g) <=>
                /\ connUp /\ g \notin Served \cup Listed /\ AllJoins[g] > 0
                /\ AllJoins' = [AllJoins EXCEPT ![g] = @ - 1]
                /\ Served' = Served \cup {g}
                /\ UNCHANGED <<Online, Listed, connUp, Cancelled>>
           /\ Registry!List(g) <=>
                /\ g \in Served \ Listed
                /\ Listed' = Listed \cup {g}
                /\ UNCHANGED <<Online, AllJoins, Served, connUp, Cancelled>>
           /\ Registry!Close(g) <=>
                /\ g \in Served \cap Listed
                /\ g \notin Online \/ AllJoins[g] > 0 \/ Cancelled \/ ~connUp
                /\ Served' = Served \ {g}
                /\ UNCHANGED <<Online, AllJoins, Listed, connUp, Cancelled>>
           /\ Registry!Unlist(g) <=>
                /\ g \in Listed \ Served
                /\ Listed' = Listed \ {g}
                /\ UNCHANGED <<Online, AllJoins, Served, connUp, Cancelled>>
  BY DEF Registry!Join, Registry!Leave, Registry!Open, Registry!List,
         Registry!Close, Registry!Unlist, Online, Served, Listed, AllJoins

\* A step that changes none of it is a stuttering step of the registry.
LEMMA RegistryStutters ==
    UNCHANGED <<Online, AllJoins, Served, Listed, connUp, Cancelled>>
        => UNCHANGED Registry!vars
  BY DEF Registry!vars, Online, Served, Listed, AllJoins

\* What the registry does not see.
LEMMA Unseen ==
    ASSUME UNCHANGED <<inQueue, connUp, gwChans, Cancelled>>,
           \A g \in Gateways : /\ Joins(g)' = Joins(g)
                               /\ HasOpen(g)' <=> HasOpen(g)
    PROVE  UNCHANGED Registry!vars
<1>1. UNCHANGED <<Online, Served, Listed, AllJoins>>
  BY DEF Online, Served, Listed, AllJoins
<1> QED
  BY <1>1, RegistryStutters

\* The joins that are left when the processor takes nothing in hand: an
\* event "created" of an input queue adds one.
LEMMA JoinsAppend ==
    ASSUME TypeOK, NEW g \in Gateways, UNCHANGED <<procPc, procEv>>,
           NEW e \in Event, events' = Append(events, e)
    PROVE  Joins(g)' = IF e = Created(g) THEN Joins(g) + 1 ELSE Joins(g)
<1>1. events \in Seq(Event) /\ Left(events, g) \in Nat /\ Hand(g) \in {0, 1}
  BY LeftType DEF TypeOK, Hand
<1>2. Left(events', g)
        = IF e = Created(g) THEN Left(events, g) + 1 ELSE Left(events, g)
  BY <1>1, LeftAppend
<1>3. Joins(g) = Left(events, g) + Hand(g)
  BY JoinsAre
<1>4. Joins(g)' = Left(events', g) + Hand(g)
  BY DEF Joins, Left, Hand, Created
<1> QED
  BY <1>1, <1>2, <1>3, <1>4

LEMMA JoinsSame ==
    ASSUME NEW g \in Gateways, UNCHANGED <<events, procPc, procEv>>
    PROVE  Joins(g)' = Joins(g)
  BY DEF Joins

\* A gateway has one open channel at most: to close it, the registry's Close,
\* or to close a closed one, which the registry does not see.
LEMMA CloseServed ==
    ASSUME MapInv, NEW n \in DOMAIN chans, CloseChannel(n)
    PROVE  /\ chans[n].gw \in Gateways
           /\ chans[n].open => Served' = Served \ {chans[n].gw}
           /\ ~chans[n].open => events' = events /\ Served' = Served
           /\ UNCHANGED <<procPc, procEv>> =>
                \A g \in Gateways : Joins(g)' = Joins(g)
<1>1. /\ TypeOK /\ ProcessorHolds /\ NoLeakedChannel
      /\ chans \in Seq(Channel) /\ chans[n] \in Channel
  BY DEF MapInv, TypeOK
<1>2. /\ DOMAIN chans' = DOMAIN chans /\ ~chans'[n].open
      /\ \A i \in DOMAIN chans : chans'[i].gw = chans[i].gw
  BY <1>1, CloseChannelMap
<1>3. \A i \in DOMAIN chans : i # n => chans'[i] = chans[i]
  BY <1>1 DEF CloseChannel
<1>4. chans[n].gw \in Gateways
  BY <1>1 DEF Channel
<1>5. ASSUME chans[n].open
      PROVE  Served' = Served \ {chans[n].gw}
  <2>1. ASSUME NEW i \in DOMAIN chans, chans[i].open, chans[i].gw = chans[n].gw
        PROVE  i = n
    BY <1>1, <1>5, <2>1 DEF NoLeakedChannel, ProcessorHolds
  <2>2. ASSUME NEW g \in Gateways
        PROVE  HasOpen(g)' <=> HasOpen(g) /\ g # chans[n].gw
    BY <1>2, <1>3, <2>1 DEF HasOpen
  <2> QED
    BY <2>2 DEF Served
<1>6. ASSUME ~chans[n].open
      PROVE  events' = events /\ Served' = Served
  <2>1. \A i \in DOMAIN chans : chans'[i].open <=> chans[i].open
    BY <1>2, <1>3, <1>6
  <2>2. ASSUME NEW g \in Gateways PROVE HasOpen(g)' <=> HasOpen(g)
    BY <1>2, <2>1 DEF HasOpen
  <2> QED
    BY <1>6, <2>2 DEF Served, CloseChannel
<1>7. ASSUME UNCHANGED <<procPc, procEv>>, NEW g \in Gateways
      PROVE  Joins(g)' = Joins(g)
  <2> DEFINE e == [type |-> "deleted", gw |-> chans[n].gw, dir |-> "out"]
  <2>1. events' = events \/ events' = Append(events, e)
    BY DEF CloseChannel, Notify
  <2>2. e \in Event /\ e # Created(g)
    BY <1>4 DEF Event, Created
  <2> HIDE DEF e
  <2> QED
    BY <1>1, <1>7, <2>1, <2>2, JoinsAppend, JoinsSame
<1> QED
  BY <1>4, <1>5, <1>6, <1>7

LEMMA InitRegistry == Init => Registry!Init
<1> SUFFICES ASSUME Init PROVE Registry!Init
  OBVIOUS
<1>1. \A g \in Gateways : Joins(g) = 0
  <2>1. \A g : Left(events, g) = 0 /\ Hand(g) = 0
    BY LeftEmpty DEF Init, Hand
  <2> QED
    BY <2>1, JoinsAre
<1> QED
  BY <1>1 DEF Init, Registry!Init, HasOpen, Cancelled

LEMMA MainRegistry ==
    ASSUME IInv, BoundUp, Main
    PROVE  [Registry!Next]_(Registry!vars)
<1> USE DEF brokerVars, linkVars, mainVars, procVars
<1>0. MapInv /\ TypeOK /\ ProcessorHolds
  BY DEF IInv, MapInv
<1>1. CASE ListQueues \/ (\E g \in Gateways : Restart(g)) \/ Exit
  <2>1. UNCHANGED <<inQueue, connUp, Cancelled, events, procPc, procEv, chans,
                    gwChans>>
    BY <1>1 DEF ListQueues, Restart, Exit, Cancelled
  <2> QED
    BY <2>1, JoinsSame, Unseen DEF HasOpen
<1>2. CASE EventExchangeInit
  <2>1. /\ UNCHANGED <<inQueue, connUp, events, procEv, chans, gwChans>>
        /\ procPc = "off"
    BY <1>0, <1>2 DEF EventExchangeInit, ProcessorHolds
  <2>2. procPc' \in {"off", "read"}
    BY <1>2, <2>1 DEF EventExchangeInit
  <2>3. \A g \in Gateways : /\ Joins(g)' = Joins(g)
                            /\ HasOpen(g)' <=> HasOpen(g)
    BY <2>1, <2>2 DEF Joins, HasOpen
  <2>4. CASE connUp
    <3>1. Cancelled' = Cancelled
      BY <1>2, <2>4 DEF EventExchangeInit, Cancelled
    <3> QED
      BY <2>1, <2>3, <3>1, Unseen
  <2>5. CASE ~connUp
    <3>1. Cancelled'
      BY <1>2, <2>5 DEF EventExchangeInit, Cancelled
    <3>2. Registry!Stop
      BY <2>1, <2>3, <3>1 DEF Registry!Stop
    <3> QED
      BY <3>2 DEF Registry!Next
  <2> QED
    BY <2>4, <2>5
<1>3. CASE Interrupt
  <2>1. /\ UNCHANGED <<inQueue, connUp, events, procPc, procEv, chans,
                        gwChans>>
        /\ Cancelled'
    BY <1>3 DEF Interrupt, Cancelled
  <2>2. \A g \in Gateways : Joins(g)' = Joins(g)
    BY <2>1, JoinsSame
  <2>3. Registry!Stop
    BY <2>1, <2>2 DEF Registry!Stop, HasOpen
  <2> QED
    BY <2>3 DEF Registry!Next
<1>4. ASSUME NEW n \in toClose, CloseStored(n)
      PROVE  [Registry!Next]_(Registry!vars)
  <2>1. /\ n \in DOMAIN chans /\ CloseChannel(n) /\ Cancelled
        /\ UNCHANGED <<inQueue, connUp, procPc, procEv, mainPc, gwChans>>
    BY <1>0, <1>4 DEF CloseStored, Cancelled, TypeOK
  <2>2. /\ UNCHANGED <<Online, AllJoins, Listed, connUp, Cancelled>>
        /\ chans[n].gw \in Gateways
    BY <1>0, <2>1, CloseServed DEF Online, AllJoins, Listed, Cancelled
  <2>3. CASE chans[n].open
    <3>1. Served' = Served \ {chans[n].gw}
      BY <1>0, <2>1, <2>3, CloseServed
    <3>2. gwChans[chans[n].gw] = n /\ n # 0
      BY <1>0, <1>4, <2>1, <2>3
         DEF IInv, MapInv, NoLeakedChannel, AddsAreClear, TypeOK
    <3>3. chans[n].gw \in Served \cap Listed
      BY <2>1, <2>2, <2>3, <3>2 DEF Served, Listed, HasOpen
    <3>4. Registry!Close(chans[n].gw)
      BY <2>1, <2>2, <3>1, <3>3, RegistrySteps
    <3> QED
      BY <2>2, <3>4 DEF Registry!Next
  <2>4. CASE ~chans[n].open
    <3>1. UNCHANGED Served
      BY <1>0, <2>1, <2>4, CloseServed
    <3> QED
      BY <2>2, <3>1, RegistryStutters
  <2> QED
    BY <2>3, <2>4
<1>5. CASE CloseConnection
  <2>1. /\ UNCHANGED <<inQueue, events, procPc, procEv, chans, gwChans,
                        Cancelled>>
        /\ ~connUp'
    BY <1>0, <1>5 DEF CloseConnection, Cancelled, TypeOK
  <2>2. \A g \in Gateways : Joins(g)' = Joins(g)
    BY <2>1, JoinsSame
  <2>3. Registry!Lose
    BY <2>1, <2>2 DEF Registry!Lose, HasOpen
  <2> QED
    BY <2>3 DEF Registry!Next
<1> QED
  BY <1>1, <1>2, <1>3, <1>4, <1>5 DEF Main

\* The event that the processor takes in hand is still to be handled.
LEMMA ReadRegistry ==
    ASSUME IInv, ReadEvent
    PROVE  UNCHANGED Registry!vars
<1> USE DEF brokerVars, linkVars, mainVars, procVars
<1> DEFINE e == Head(events)
<1>1. /\ procPc = "read" /\ events # <<>> /\ events \in Seq(Event)
      /\ events' = Tail(events) /\ procEv' = e /\ e \in Event
      /\ UNCHANGED <<inQueue, connUp, mainPc, chans, gwChans>>
      /\ procPc' = IF e.dir # "in" THEN "read"
                   ELSE IF e.type = "created" THEN "create" ELSE "lookup"
  BY DEF ReadEvent, IInv, MapInv, TypeOK
<1> HIDE DEF e
<1>2. ASSUME NEW g \in Gateways PROVE Joins(g)' = Joins(g)
  <2>1. e = Created(g) <=> e.gw = g /\ e.dir = "in" /\ e.type = "created"
    BY <1>1 DEF Event, Created
  <2>2. Hand(g) = 0 /\ Hand(g)' = IF e = Created(g) THEN 1 ELSE 0
    BY <1>1, <2>1 DEF Hand
  <2>3. /\ Left(events, g) = Left(events', g)
                              + (IF e = Created(g) THEN 1 ELSE 0)
        /\ Left(events, g) \in Nat /\ Left(events', g) \in Nat
    <3>1. events' \in Seq(Event)
      BY <1>1
    <3>2. Left(events, g) \in Nat /\ Left(events', g) \in Nat
      BY <1>1, <3>1, LeftType
    <3> QED
      BY <1>1, <3>2, LeftTail DEF e
  <2>4. Joins(g) = Left(events, g) + Hand(g)
    BY JoinsAre
  <2>5. Joins(g)' = Left(events', g) + Hand(g)'
    BY DEF Joins, Left, Hand, Created
  <2> QED
    BY <2>2, <2>3, <2>4, <2>5
<1> QED
  BY <1>1, <1>2, Unseen DEF HasOpen, Cancelled

\* A channel is built for a join and listed where none was.  It is closed
\* only when its gateway left, or joined again, or the server is going down,
\* and then unlisted.
LEMMA HandleRegistry ==
    ASSUME IInv, TrackInv, Handle
    PROVE  [Registry!Next]_(Registry!vars)
<1> USE DEF brokerVars, linkVars, mainVars, procVars
<1>0. /\ MapInv /\ TypeOK /\ EntriesMatch /\ ProcessorHolds /\ NoLeakedChannel
      /\ OrderInv /\ AddsAreClear
  BY DEF IInv, MapInv
<1>1. CASE Create
  <2>1. CASE connUp /\ ~HasOpen(procEv.gw) /\ UNCHANGED crash
    <3> DEFINE h == procEv.gw
               out == [type |-> "created", gw |-> h, dir |-> "out"]
               new == [gw |-> h, open |-> TRUE]
    <3>1. /\ procPc = "create" /\ procPc' = "add"
          /\ procEv' = procEv /\ h \in Gateways
          /\ UNCHANGED <<inQueue, connUp, mainPc, gwChans>>
          /\ chans \in Seq(Channel) /\ events \in Seq(Event)
      BY <1>0, <1>1, <2>1 DEF Create, ProcessorHolds, Event, TypeOK
    <3>2. /\ chans' = Append(chans, new)
          /\ events' = events \/ events' = Append(events, out)
      BY <1>1, <2>1 DEF Create, Notify
    <3>3. /\ DOMAIN chans' = DOMAIN chans \cup {Len(chans) + 1}
          /\ \A i \in DOMAIN chans : chans'[i] = chans[i]
          /\ chans'[Len(chans) + 1] = new
      BY <3>1, <3>2
    <3>4. Served' = Served \cup {h} /\ h \notin Served \cup Listed
      BY <1>0, <2>1, <3>1, <3>3
         DEF Served, Listed, HasOpen, OrderInv, CreatesAreClear
    <3>5. ASSUME NEW g \in Gateways
          PROVE  /\ Joins(g)' = IF g = h THEN Joins(g) - 1 ELSE Joins(g)
                 /\ Joins(g) \in Nat /\ (g = h => Joins(g) > 0)
      <4>1. out \in Event /\ out # Created(g)
        BY <3>1 DEF Event, Created
      <4> HIDE DEF out
      <4>2. Left(events, g) \in Nat /\ Left(events', g) = Left(events, g)
        <5>1. /\ Left(events, g) \in Nat
              /\ Left(Append(events, out), g) = Left(events, g)
          BY <3>1, <4>1, LeftType, LeftAppend
        <5> QED
          BY <3>2, <5>1
      <4>3. Hand(g) = (IF g = h THEN 1 ELSE 0) /\ Hand(g)' = 0
        BY <3>1 DEF Hand
      <4>4. Joins(g) = Left(events, g) + Hand(g)
        BY JoinsAre
      <4>5. Joins(g)' = Left(events', g) + Hand(g)'
        BY DEF Joins, Left, Hand, Created
      <4> QED
        BY <4>2, <4>3, <4>4, <4>5
    <3>6. AllJoins' = [AllJoins EXCEPT ![h] = @ - 1] /\ AllJoins[h] > 0
      BY <3>1, <3>5 DEF AllJoins
    <3>7. UNCHANGED <<Online, Listed, connUp, Cancelled>>
      BY <3>1 DEF Online, Listed, Cancelled
    <3>8. Registry!Open(h)
      BY <2>1, <3>1, <3>4, <3>6, <3>7, RegistrySteps
    <3> QED
      BY <3>1, <3>8 DEF Registry!Next
  <2>2. CASE UNCHANGED <<chans, events, procCh, procPc>>
    <3>1. UNCHANGED <<inQueue, connUp, mainPc, events, procPc, procEv, chans,
                      gwChans>>
      BY <1>1, <2>2 DEF Create
    <3> QED
      BY <3>1, JoinsSame, Unseen DEF HasOpen, Cancelled
  <2> QED
    BY <1>1, <2>1, <2>2 DEF Create
<1>2. CASE Add \/ Get \/ Remove
  <2>1. /\ UNCHANGED <<inQueue, connUp, mainPc, events, procEv, chans>>
        /\ procPc # "create" /\ procPc' # "create"
    BY <1>2 DEF Add, Get, Remove
  <2>2. \A g \in Gateways : Joins(g)' = Joins(g)
    BY <2>1 DEF Joins
  <2>3. UNCHANGED <<Online, AllJoins, Served, connUp, Cancelled>>
    BY <2>1, <2>2 DEF Online, AllJoins, Served, HasOpen, Cancelled
  <2>4. PICK h \in Gateways : h = procEv.gw
    BY <1>0, <1>2 DEF Add, Get, Remove, ProcessorHolds, Event
  <2>5. CASE Add
    <3>1. /\ procPc = "add" /\ gwChans' = [gwChans EXCEPT ![h] = procCh]
          /\ procCh \in DOMAIN chans /\ procCh # 0 /\ gwChans[h] = 0
          /\ chans[procCh].gw = h /\ chans[procCh].open
      BY <1>0, <2>4, <2>5 DEF Add, ProcessorHolds, AddsAreClear, TypeOK
    <3>2. Listed' = Listed \cup {h} /\ h \in Served \ Listed
      BY <1>0, <3>1 DEF Listed, Served, HasOpen, TypeOK
    <3>3. Registry!List(h)
      BY <2>3, <3>2, RegistrySteps
    <3> QED
      BY <3>3 DEF Registry!Next
  <2>6. CASE Get
    <3>1. UNCHANGED Listed
      BY <2>6 DEF Get, Listed
    <3> QED
      BY <2>3, <3>1, RegistryStutters
  <2>7. CASE Remove
    <3>1. /\ procPc = "remove" /\ gwChans' = [gwChans EXCEPT ![h] = 0]
          /\ procCh = gwChans[h] /\ procCh # 0 /\ ~chans[procCh].open
      BY <1>0, <2>4, <2>7 DEF Remove, ProcessorHolds
    <3>2. ~HasOpen(h)
      BY <1>0, <3>1 DEF HasOpen, NoLeakedChannel
    <3>3. Listed' = Listed \ {h} /\ h \in Listed \ Served
      BY <1>0, <3>1, <3>2 DEF Listed, Served, TypeOK
    <3>4. Registry!Unlist(h)
      BY <2>3, <3>3, RegistrySteps
    <3> QED
      BY <3>4 DEF Registry!Next
  <2> QED
    BY <1>2, <2>5, <2>6, <2>7
<1>3. CASE Close
  <2> DEFINE h == procEv.gw
  <2>1. /\ procPc = "close" /\ procPc' = "remove" /\ h \in Gateways
        /\ CloseChannel(procCh) /\ procCh \in DOMAIN chans
        /\ chans[procCh].gw = h /\ gwChans[h] # 0
        /\ UNCHANGED <<inQueue, connUp, mainPc, procEv, gwChans>>
    BY <1>0, <1>3
       DEF Close, MapInv, EntriesMatch, ProcessorHolds, TypeOK, Event
  <2>2. ASSUME NEW g \in Gateways PROVE Joins(g)' = Joins(g)
    <3> DEFINE out == [type |-> "deleted", gw |-> h, dir |-> "out"]
    <3>1. events' = events \/ events' = Append(events, out)
      BY <2>1 DEF CloseChannel, Notify
    <3>2. out \in Event /\ out # Created(g) /\ events \in Seq(Event)
      BY <1>0, <2>1 DEF Event, Created, TypeOK
    <3> HIDE DEF out
    <3>3. Left(events', g) = Left(events, g)
      <4>1. Left(Append(events, out), g) = Left(events, g)
        BY <3>2, LeftAppend
      <4> QED
        BY <3>1, <4>1
    <3>4. Hand(g) = 0 /\ Hand(g)' = 0
      BY <2>1 DEF Hand
    <3>5. Joins(g) = Left(events, g) + Hand(g)
      BY JoinsAre
    <3>6. Joins(g)' = Left(events', g) + Hand(g)'
      BY DEF Joins, Left, Hand, Created
    <3> QED
      BY <3>3, <3>4, <3>5, <3>6
  <2>3. UNCHANGED <<Online, AllJoins, Listed, connUp, Cancelled>>
    BY <2>1, <2>2 DEF Online, AllJoins, Listed, Cancelled
  <2>4. h \notin Online \/ AllJoins[h] > 0 \/ Cancelled \/ ~connUp
    <3>1. SUFFICES ASSUME connUp, ~Cancelled, inQueue[h] = "seen"
                   PROVE  Joins(h) > 0
      BY <2>1 DEF Online, AllJoins
    <3>2. Tracked(h) /\ ~Present(h)
      BY <2>1, <3>1 DEF TrackInv, Present, Leaving
    <3>3. PICK i \in Nat : CreatedAt(events, h, i)
      BY <3>1, <3>2 DEF Tracked, EndsDeleted
    <3>4. Left(events, h) > 0 /\ Left(events, h) \in Nat
      BY <1>0, <3>3, LeftSome, LeftType DEF TypeOK
    <3> QED
      BY <3>4, JoinsAre DEF Hand
  <2>5. CASE chans[procCh].open
    <3>1. Served' = Served \ {h}
      BY <1>0, <2>1, <2>5, CloseServed
    <3>2. h \in Served \cap Listed
      BY <2>1, <2>5 DEF Served, Listed, HasOpen
    <3>3. Registry!Close(h)
      BY <2>1, <2>3, <2>4, <3>1, <3>2, RegistrySteps
    <3> QED
      BY <2>1, <3>3 DEF Registry!Next
  <2>6. CASE ~chans[procCh].open
    <3>1. UNCHANGED Served
      BY <1>0, <2>1, <2>6, CloseServed
    <3> QED
      BY <2>3, <3>1, RegistryStutters
  <2> QED
    BY <2>5, <2>6
<1> QED
  BY <1>1, <1>2, <1>3 DEF Handle

LEMMA BrokerRegistry ==
    ASSUME IInv, BoundUp,
           Broker \/ (\E i \in DOMAIN chans : ReaderNilEnvelope(i))
    PROVE  [Registry!Next]_(Registry!vars)
<1> USE DEF brokerVars, linkVars, mainVars, procVars
<1>0. TypeOK /\ inQueue \in [Gateways -> {"absent", "unseen", "seen"}]
  BY DEF IInv, MapInv, TypeOK
<1>1. ASSUME NEW h \in Gateways, DeclareIn(h)
      PROVE  [Registry!Next]_(Registry!vars)
  <2>1. /\ UNCHANGED <<connUp, bound, mainPc, procPc, procEv, chans, gwChans>>
        /\ inQueue[h] = "absent"
        /\ inQueue' = [inQueue EXCEPT ![h] = IF bound THEN "seen"
                                                      ELSE "unseen"]
        /\ events' = IF bound THEN Append(events, Created(h)) ELSE events
    BY <1>1 DEF DeclareIn, Notify, Created
  <2>2. UNCHANGED <<Served, Listed, connUp, Cancelled>>
    BY <2>1 DEF Served, Listed, HasOpen, Cancelled
  <2>3. CASE bound
    <3>1. Created(h) \in Event /\ \A g : Created(h) = Created(g) => g = h
      BY DEF Event, Created
    <3>2. \A g \in Gateways :
            Joins(g)' = IF g = h THEN Joins(g) + 1 ELSE Joins(g)
      BY <1>0, <2>1, <2>3, <3>1, JoinsAppend
    <3>3. AllJoins' = [AllJoins EXCEPT ![h] = @ + 1]
      BY <3>2 DEF AllJoins
    <3>4. Online' = Online \cup {h} /\ h \notin Online
      BY <1>0, <2>1, <2>3 DEF Online
    <3>5. Registry!Join(h)
      BY <2>2, <2>3, <3>3, <3>4, RegistrySteps DEF BoundUp
    <3> QED
      BY <3>5 DEF Registry!Next
  <2>4. CASE ~bound
    <3>1. Online' = Online
      BY <1>0, <2>1, <2>4 DEF Online
    <3>2. AllJoins' = AllJoins
      BY <2>1, <2>4, JoinsSame DEF AllJoins
    <3> QED
      BY <2>2, <3>1, <3>2, RegistryStutters
  <2> QED
    BY <2>3, <2>4
<1>2. ASSUME NEW h \in Gateways, DeleteIn(h)
      PROVE  [Registry!Next]_(Registry!vars)
  <2>1. /\ UNCHANGED <<connUp, mainPc, procPc, procEv, chans, gwChans>>
        /\ inQueue' = [inQueue EXCEPT ![h] = "absent"]
        /\ events' = events \/ events' = Append(events, Deleted(h))
    BY <1>2 DEF DeleteIn, Notify, Deleted
  <2>2. \A g \in Gateways : Joins(g)' = Joins(g)
    <3>1. Deleted(h) \in Event /\ \A g : Deleted(h) # Created(g)
      BY DEF Event, Created, Deleted
    <3> QED
      BY <1>0, <2>1, <3>1, JoinsAppend, JoinsSame
  <2>3. UNCHANGED <<AllJoins, Served, Listed, connUp, Cancelled>>
    BY <2>1, <2>2 DEF AllJoins, Served, Listed, HasOpen, Cancelled
  <2>4. Online' = Online \ {h}
    BY <1>0, <2>1 DEF Online
  <2>5. Registry!Leave(h)
    BY <2>3, <2>4, RegistrySteps
  <2> QED
    BY <2>5 DEF Registry!Next
<1>3. CASE LoseConnection
  <2>1. /\ UNCHANGED <<inQueue, events, mainPc, procPc, procEv, chans,
                        gwChans>>
        /\ connUp' = FALSE
    BY <1>3 DEF LoseConnection
  <2>2. \A g \in Gateways : Joins(g)' = Joins(g)
    BY <2>1, JoinsSame
  <2>3. Registry!Lose
    BY <2>1, <2>2 DEF Registry!Lose, HasOpen, Cancelled
  <2> QED
    BY <2>3 DEF Registry!Next
<1>4. CASE DropEvents
  <2>1. /\ UNCHANGED <<inQueue, connUp, mainPc, procPc, procEv, chans,
                        gwChans>>
        /\ ~connUp /\ events' = <<>> /\ events \in Seq(Event)
    BY <1>0, <1>4 DEF DropEvents, TypeOK
  <2>2. ASSUME NEW g \in Gateways
        PROVE  Joins(g)' \in Nat /\ Joins(g)' <= Joins(g)
    <3>1. Left(events', g) = 0 /\ Left(events, g) \in Nat
      BY <2>1, LeftEmpty, LeftType
    <3>2. Hand(g) \in {0, 1} /\ Hand(g)' = Hand(g)
      BY <2>1 DEF Hand
    <3>3. Joins(g) = Left(events, g) + Hand(g)
      BY JoinsAre
    <3>4. Joins(g)' = Left(events', g) + Hand(g)'
      BY DEF Joins, Left, Hand, Created
    <3> QED
      BY <3>1, <3>2, <3>3, <3>4
  <2>3. Registry!Forget
    BY <2>1, <2>2 DEF Registry!Forget, HasOpen, Cancelled
  <2> QED
    BY <2>3 DEF Registry!Next
<1>5. CASE \E i \in DOMAIN chans : ReaderNilEnvelope(i)
  <2>1. UNCHANGED <<inQueue, connUp, mainPc, events, procPc, procEv, chans,
                    gwChans>>
    BY <1>5 DEF ReaderNilEnvelope
  <2> QED
    BY <2>1, JoinsSame, Unseen DEF HasOpen, Cancelled
<1> QED
  BY <1>1, <1>2, <1>3, <1>4, <1>5 DEF Broker

\* However the queues of gateways come and go, the connection breaks and main
\* shuts the server down: a gateway has one channel at most, each is built for
\* one join, the processor closes it only when its gateway has left, and the
\* map never replaces one by another (ProcessExchangeEvents,
\* NewGatewayChannel, Manager.Close, GatewayChannelsMap).
THEOREM Refinement == Spec => KeepsRegistry
<1>1. Init => IInv /\ TrackInv /\ BoundUp /\ Registry!Init
  <2>1. Init => BoundUp
    BY DEF Init, BoundUp
  <2> QED
    BY <2>1, InitMapInv, InitOrder, InitTrack, InitRegistry DEF IInv
<1>2. IInv /\ TrackInv /\ BoundUp /\ [Next]_vars
        => IInv' /\ TrackInv' /\ BoundUp'
  BY NextIInv, NextTrack, NextBoundUp
<1>3. IInv /\ TrackInv /\ BoundUp /\ [Next]_vars
        => [Registry!Next]_(Registry!vars)
  <2> SUFFICES ASSUME IInv, TrackInv, BoundUp, [Next]_vars
               PROVE  [Registry!Next]_(Registry!vars)
    OBVIOUS
  <2>1. CASE Next
    BY <2>1, MainRegistry, ReadRegistry, HandleRegistry, BrokerRegistry
       DEF Next
  <2>2. CASE UNCHANGED vars
    <3>1. UNCHANGED <<inQueue, connUp, mainPc, events, procPc, procEv, chans,
                      gwChans>>
      BY <2>2 DEF vars, brokerVars, linkVars, mainVars, procVars
    <3> QED
      BY <3>1, JoinsSame, Unseen DEF HasOpen, Cancelled
  <2> QED
    BY <2>1, <2>2
<1> QED
  BY <1>1, <1>2, <1>3, PTL DEF Spec, KeepsRegistry, Registry!Spec
=============================================================================
