---------------------------- MODULE GatewayEvents ----------------------------
(***************************************************************************)
(* The Manager: main starts and shuts it down, its event processor turns   *)
(* the broker's queue events into gateway channels and keeps them in the   *)
(* channels map.  A gateway is online while its queue <gateway>.in exists; *)
(* the server's own queue <gateway>.out, declared with each channel,       *)
(* raises events of the same exchange.                                     *)
(*                                                                         *)
(* What happens inside one channel is the subject of GatewayRpc: here      *)
(* Close of a channel is one step, and its reader shows only when the      *)
(* connection is lost under an open channel.                               *)
(***************************************************************************)
EXTENDS Naturals, Sequences, FiniteSets, Functions

CONSTANTS Gateways,   \* the gateways that may connect
          MaxCreated  \* bound: how often each declares its input queue

ASSUME EventsAssumption == MaxCreated \in Nat \ {0}

VARIABLES
    inQueue,    \* <gateway>.in: "absent", or present and declared "unseen"
                \* before or "seen" after the event queue was bound
    created,    \* how often each input queue was declared
    restartCmd, \* gateways with a restart command in their input queue
    renewed,    \* gateways that restarted on such a command
    connUp,     \* m.Conn is open
    bound,      \* the event queue is bound and consumed
    events,     \* m.evChan
    mainPc,     \* where main is
    toRestart,  \* gateways still to be sent a restart command
    toClose,    \* channels Manager.Close has still to close
    procPc,     \* where ProcessExchangeEvents is
    procEv,     \* the event it handles
    procCh,     \* the channel it handles, 0 for nil
    chans,      \* every GatewayChannel built, in order
    gwChans,    \* the channels map: an index of chans, 0 when absent
    crash       \* "none" or the panic that ended the process

brokerVars == <<inQueue, created, restartCmd, renewed>>
linkVars == <<connUp, bound>>
mainVars == <<mainPc, toRestart, toClose>>
procVars == <<procPc, procEv, procCh>>
vars == <<brokerVars, linkVars, events, mainVars, procVars, chans, gwChans,
          crash>>

Event == [type : {"created", "deleted"}, gw : Gateways, dir : {"in", "out"}]
NoEvent == [type |-> "none"]
Channel == [gw : Gateways, open : BOOLEAN]

Init ==
    /\ inQueue \in [Gateways -> {"absent", "unseen"}]
    /\ created = [g \in Gateways |-> IF inQueue[g] = "absent" THEN 0 ELSE 1]
    /\ restartCmd = {}
    /\ renewed = {}
    /\ connUp = TRUE
    /\ bound = FALSE
    /\ events = <<>>
    /\ mainPc = "list"
    /\ toRestart = {}
    /\ toClose = {}
    /\ procPc = "off"
    /\ procEv = NoEvent
    /\ procCh = 0
    /\ chans = <<>>
    /\ gwChans = [g \in Gateways |-> 0]
    /\ crash = "none"

Alive == crash = "none" /\ mainPc # "exited"
Cancelled == mainPc \in {"closing", "closed", "exited"}

\* The broker reports a queue to the event queue once that is bound.
Notify(type, g, dir) ==
    IF bound THEN Append(events, [type |-> type, gw |-> g, dir |-> dir])
             ELSE events

HasOpen(g) == \E i \in DOMAIN chans : chans[i].gw = g /\ chans[i].open

\* GatewayChannel.Close: cancels the context, deletes <gateway>.out, closes
\* both AMQP channels.  On a closed channel it only logs.
CloseChannel(i) ==
    /\ chans' = [chans EXCEPT ![i].open = FALSE]
    /\ events' = IF chans[i].open THEN Notify("deleted", chans[i].gw, "out")
                                  ELSE events
-----------------------------------------------------------------------------
(* main: RestartGateways, EventExchangeInit, Manager.Close.                *)

\* The management plugin lists the queues; on any error nothing is restarted.
ListQueues ==
    /\ Alive /\ mainPc = "list"
    /\ mainPc' = "restart"
    /\ toRestart' \in {{}, {g \in Gateways : inQueue[g] # "absent"}}
    /\ UNCHANGED <<brokerVars, linkVars, events, toClose, procVars, chans,
                   gwChans, crash>>

\* One iteration of the loop.  The command is lost when the queue is gone.
\* On a closed connection NewAmqpWriter returns nil and wr.Write panics.
Restart(g) ==
    /\ Alive /\ mainPc = "restart" /\ g \in toRestart
    /\ \/ /\ connUp
          /\ toRestart' = toRestart \ {g}
          /\ restartCmd' = IF inQueue[g] = "absent" THEN restartCmd
                                                    ELSE restartCmd \cup {g}
          /\ UNCHANGED crash
       \/ /\ ~connUp
          /\ crash' = "nilWriter"
          /\ UNCHANGED <<toRestart, restartCmd>>
    /\ UNCHANGED <<inQueue, created, renewed, linkVars, events, mainPc,
                   toClose, procVars, chans, gwChans>>

\* Declares, binds and consumes the event queue and starts the processor;
\* on an error logger.Fatal ends the process.
EventExchangeInit ==
    /\ Alive /\ mainPc = "restart" /\ toRestart = {}
    /\ \/ /\ connUp
          /\ mainPc' = "serve"
          /\ bound' = TRUE
          /\ procPc' = "read"
       \/ /\ ~connUp
          /\ mainPc' = "exited"
          /\ UNCHANGED <<bound, procPc>>
    /\ UNCHANGED <<brokerVars, connUp, events, toRestart, toClose, procEv,
                   procCh, chans, gwChans, crash>>

\* Mutant of Interrupt: the nil values of GetChannels are not skipped.
InterruptWithNils ==
    /\ Alive /\ mainPc = "serve"
    /\ mainPc' = "closing"
    /\ toClose' = Range(gwChans)
    /\ UNCHANGED <<brokerVars, linkVars, events, toRestart, procVars, chans,
                   gwChans, crash>>

\* SIGTERM: cancel(), then Manager.Close takes its copy of the map.
Interrupt ==
    /\ Alive /\ mainPc = "serve"
    /\ mainPc' = "closing"
    /\ toClose' = Range(gwChans) \ {0}
    /\ UNCHANGED <<brokerVars, linkVars, events, toRestart, procVars, chans,
                   gwChans, crash>>

CloseStored(i) ==
    /\ Alive /\ mainPc = "closing" /\ i \in toClose
    /\ CloseChannel(i)
    /\ toClose' = toClose \ {i}
    /\ UNCHANGED <<brokerVars, linkVars, mainPc, toRestart, procVars, gwChans,
                   crash>>

\* The event queue is deleted, m.Ch and m.Conn are closed.
CloseConnection ==
    /\ Alive /\ mainPc = "closing" /\ toClose = {}
    /\ mainPc' = "closed"
    /\ connUp' = FALSE
    /\ bound' = FALSE
    /\ UNCHANGED <<brokerVars, events, toRestart, toClose, procVars, chans,
                   gwChans, crash>>

\* The REST server and the database are closed and main returns.
Exit ==
    /\ Alive /\ mainPc = "closed"
    /\ mainPc' = "exited"
    /\ UNCHANGED <<brokerVars, linkVars, events, toRestart, toClose, procVars,
                   chans, gwChans, crash>>
-----------------------------------------------------------------------------
(* ProcessExchangeEvents.  Its loop never ends: a cancelled context and a  *)
(* closed evChan only make it try again, and its select may still take an  *)
(* event after the context was cancelled.                                  *)

\* Mutants of ReadEvent: the second part of the queue name is not tested;
\* an event of another queue ends the loop.
ReadEventOfAnyQueue ==
    /\ Alive /\ procPc = "read" /\ events # <<>>
    /\ events' = Tail(events)
    /\ procEv' = Head(events)
    /\ procPc' = IF Head(events).type = "created" THEN "create" ELSE "lookup"
    /\ UNCHANGED <<brokerVars, linkVars, mainVars, procCh, chans, gwChans,
                   crash>>

ReadEventReturns ==
    /\ Alive /\ procPc = "read" /\ events # <<>>
    /\ events' = Tail(events)
    /\ procEv' = Head(events)
    /\ procPc' = IF Head(events).dir # "in" THEN "off"
                 ELSE IF Head(events).type = "created" THEN "create"
                 ELSE "lookup"
    /\ UNCHANGED <<brokerVars, linkVars, mainVars, procCh, chans, gwChans,
                   crash>>

ReadEvent ==
    /\ Alive /\ procPc = "read" /\ events # <<>>
    /\ events' = Tail(events)
    /\ procEv' = Head(events)
    /\ procPc' = IF Head(events).dir # "in" THEN "read"
                 ELSE IF Head(events).type = "created" THEN "create"
                 ELSE "lookup"
    /\ UNCHANGED <<brokerVars, linkVars, mainVars, procCh, chans, gwChans,
                   crash>>

\* NewGatewayChannel declares <gateway>.out and consumes it exclusively.  It
\* returns nil on a closed connection or when the queue has a consumer, and
\* the processor calls Start on the result: a panic, or a running reader.
Create ==
    /\ Alive /\ procPc = "create"
    /\ \/ /\ connUp /\ ~HasOpen(procEv.gw)
          /\ chans' = Append(chans, [gw |-> procEv.gw, open |-> TRUE])
          /\ events' = Notify("created", procEv.gw, "out")
          /\ procCh' = Len(chans')
          /\ procPc' = "add"
          /\ UNCHANGED crash
       \/ /\ ~connUp \/ HasOpen(procEv.gw)
          /\ crash' = "nilChannel"
          /\ UNCHANGED <<chans, events, procCh, procPc>>
    /\ UNCHANGED <<brokerVars, linkVars, mainVars, procEv, gwChans>>

Add ==
    /\ Alive /\ procPc = "add"
    /\ gwChans' = [gwChans EXCEPT ![procEv.gw] = procCh]
    /\ procPc' = "read"
    /\ UNCHANGED <<brokerVars, linkVars, events, mainVars, procEv, procCh,
                   chans, crash>>

\* A deleted queue without stored channel is only logged.
Get ==
    /\ Alive /\ procPc = "lookup"
    /\ procCh' = gwChans[procEv.gw]
    /\ procPc' = IF gwChans[procEv.gw] = 0 THEN "read" ELSE "close"
    /\ UNCHANGED <<brokerVars, linkVars, events, mainVars, procEv, chans,
                   gwChans, crash>>

\* Mutant of Close: the channel is taken from the map without being closed.
CloseForgotten ==
    /\ Alive /\ procPc = "close"
    /\ procPc' = "remove"
    /\ UNCHANGED <<brokerVars, linkVars, events, mainVars, procEv, procCh,
                   chans, gwChans, crash>>

Close ==
    /\ Alive /\ procPc = "close"
    /\ CloseChannel(procCh)
    /\ procPc' = "remove"
    /\ UNCHANGED <<brokerVars, linkVars, mainVars, procEv, procCh, gwChans,
                   crash>>

\* Mutant of Remove: the closed channel stays in the map.
RemoveForgotten ==
    /\ Alive /\ procPc = "remove"
    /\ procPc' = "read"
    /\ UNCHANGED <<brokerVars, linkVars, events, mainVars, procEv, procCh,
                   chans, gwChans, crash>>

Remove ==
    /\ Alive /\ procPc = "remove"
    /\ gwChans' = [gwChans EXCEPT ![procEv.gw] = 0]
    /\ procPc' = "read"
    /\ UNCHANGED <<brokerVars, linkVars, events, mainVars, procEv, procCh,
                   chans, crash>>
-----------------------------------------------------------------------------
(* The reader goroutine of an open channel takes the closed delivery       *)
(* channel and dereferences the nil envelope.                              *)

ReaderNilEnvelope(i) ==
    /\ Alive /\ chans[i].open /\ ~connUp
    /\ crash' = "nilEnvelope"
    /\ UNCHANGED <<brokerVars, linkVars, events, mainVars, procVars, chans,
                   gwChans>>
-----------------------------------------------------------------------------
(* The gateways and the broker.                                            *)

DeclareIn(g) ==
    /\ Alive /\ inQueue[g] = "absent" /\ created[g] < MaxCreated
    /\ inQueue' = [inQueue EXCEPT ![g] = IF bound THEN "seen" ELSE "unseen"]
    /\ created' = [created EXCEPT ![g] = @ + 1]
    /\ events' = Notify("created", g, "in")
    /\ UNCHANGED <<restartCmd, renewed, linkVars, mainVars, procVars, chans,
                   gwChans, crash>>

\* The gateway goes offline, or it obeys a restart command and will be back.
DeleteIn(g) ==
    /\ Alive /\ inQueue[g] # "absent"
    /\ inQueue' = [inQueue EXCEPT ![g] = "absent"]
    /\ events' = Notify("deleted", g, "in")
    /\ restartCmd' = restartCmd \ {g}
    /\ renewed' = renewed \cup (restartCmd \cap {g})
    /\ UNCHANGED <<created, linkVars, mainVars, procVars, chans, gwChans,
                   crash>>

\* The server's connection breaks; its exclusive queues go with it.
LoseConnection ==
    /\ Alive /\ connUp
    /\ connUp' = FALSE
    /\ bound' = FALSE
    /\ UNCHANGED <<brokerVars, events, mainVars, procVars, chans, gwChans,
                   crash>>

\* The AMQP library drops the events of a closed channel.
DropEvents ==
    /\ Alive /\ ~connUp /\ events # <<>>
    /\ events' = <<>>
    /\ UNCHANGED <<brokerVars, linkVars, mainVars, procVars, chans, gwChans,
                   crash>>
-----------------------------------------------------------------------------

Main ==
    \/ ListQueues
    \/ \E g \in Gateways : Restart(g)
    \/ EventExchangeInit
    \/ Interrupt
    \/ \E i \in toClose : CloseStored(i)
    \/ CloseConnection
    \/ Exit

\* The processor with an event in hand.
Handle == Create \/ Add \/ Get \/ Close \/ Remove

Broker ==
    \/ \E g \in Gateways : DeclareIn(g) \/ DeleteIn(g)
    \/ LoseConnection
    \/ DropEvents

Next ==
    \/ Main
    \/ ReadEvent
    \/ Handle
    \/ \E i \in DOMAIN chans : ReaderNilEnvelope(i)
    \/ Broker

Spec == Init /\ [][Next]_vars

\* The scheduler runs the processor.  Once the context is cancelled its
\* select may ignore the events for ever, so only handling is fair then.
Fairness == WF_vars(ReadEvent /\ ~Cancelled) /\ WF_vars(Handle)

FairSpec == Spec /\ Fairness
-----------------------------------------------------------------------------
(* Properties.                                                             *)

\* The values the manager's state takes; the map points at built channels.
TypeOK ==
    /\ inQueue \in [Gateways -> {"absent", "unseen", "seen"}]
    /\ created \in [Gateways -> 0 .. MaxCreated]
    /\ restartCmd \subseteq Gateways
    /\ renewed \subseteq Gateways
    /\ connUp \in BOOLEAN
    /\ bound \in BOOLEAN
    /\ events \in Seq(Event)
    /\ mainPc \in {"list", "restart", "serve", "closing", "closed", "exited"}
    /\ toRestart \subseteq Gateways
    /\ toClose \subseteq DOMAIN chans
    /\ procPc \in {"off", "read", "create", "add", "lookup", "close",
                   "remove"}
    /\ procEv \in Event \cup {NoEvent}
    /\ procCh \in {0} \cup DOMAIN chans
    /\ chans \in Seq(Channel)
    /\ gwChans \in [Gateways -> {0} \cup DOMAIN chans]
    /\ crash \in {"none", "nilWriter", "nilChannel", "nilEnvelope"}

\* Every open channel is in the map under its gateway, or is the one the
\* processor is about to enter: however gateways come and go, none is
\* forgotten with its consumer and goroutine (ProcessExchangeEvents).
NoLeakedChannel ==
    \A i \in DOMAIN chans : chans[i].open =>
        \/ gwChans[chans[i].gw] = i
        \/ procPc = "add" /\ procCh = i

\* NewGatewayChannel hands nil to the processor only without connection: a
\* gateway that reconnects never meets the consumer of its old channel.
NilChannelOnlyOffline == crash = "nilChannel" => ~connUp

\* When the processor has caught up, the map holds exactly the gateways that
\* are online, but for those that came online before the event queue.
Settled == mainPc = "serve" /\ procPc = "read" /\ events = <<>> /\ connUp

SettledTracking ==
    Settled => \A g \in Gateways :
        /\ inQueue[g] = "seen" => gwChans[g] # 0 /\ chans[gwChans[g]].open
        /\ inQueue[g] # "seen" => gwChans[g] = 0

Interrupted == ~connUp \/ Cancelled \/ crash # "none"

\* A gateway that comes online after start-up gets its channel, and one that
\* goes offline loses it, unless it changes its mind, the connection breaks,
\* the server is stopped or the process dies (ProcessExchangeEvents).
EventuallyFollowed ==
    \A g \in Gateways :
        /\ inQueue[g] = "seen" ~>
              gwChans[g] # 0 \/ inQueue[g] # "seen" \/ Interrupted
        /\ inQueue[g] = "absent" ~>
              gwChans[g] = 0 \/ inQueue[g] # "absent" \/ Interrupted
-----------------------------------------------------------------------------
(* The abstract registry.                                                  *)

\* How often g joined without a channel built for it: the events that are
\* left and the one that the processor has in hand.
Joins(g) ==
    Cardinality({i \in DOMAIN events :
                    events[i] = [type |-> "created", gw |-> g, dir |-> "in"]})
    + IF procPc = "create" /\ procEv.gw = g THEN 1 ELSE 0

Registry == INSTANCE GatewayRegistry WITH
    online <- {g \in Gateways : inQueue[g] = "seen"},
    joins <- [g \in Gateways |-> Joins(g)],
    served <- {g \in Gateways : HasOpen(g)},
    listed <- {g \in Gateways : gwChans[g] # 0},
    up <- connUp,
    stopping <- Cancelled

\* The manager refines GatewayRegistry: each time a gateway joins it gets one
\* channel, never two at a time, and loses it only when it has left; the map
\* never replaces a channel by another.
KeepsRegistry == Registry!Spec
-----------------------------------------------------------------------------
(* What the comments of the code say and the code does not do.             *)

\* "Restart connected gateways to renew their statuses"
\* (gocloudserver.go:61): a gateway that restarted on that command and is
\* back online has its channel once the processor has caught up.
RestartedIsTracked ==
    Settled => \A g \in renewed : inQueue[g] # "absent" => gwChans[g] # 0

=============================================================================
