------------------------------- MODULE Server -------------------------------
(***************************************************************************)
(* The running server seen from main and from the REST API: requests look  *)
(* up the channels of the gateways they name and use them, gateways come   *)
(* and go, and an interrupted main closes the channels, stops the REST     *)
(* server, closes the database and returns.  Nothing stops the handlers    *)
(* from using a channel that is closed or replaced after they found it.    *)
(*                                                                         *)
(* Building, closing and forgetting a channel is one step each here: their *)
(* own steps, and what they do to the process, are in GatewayEvents and    *)
(* GatewayRpc.  An RPC is its outcome (RpcPromise), the effect of a push   *)
(* command is in LogicLoader, that of setRecording in CameraLogic.         *)
(***************************************************************************)
EXTENDS Naturals, Sequences

CONSTANTS Gateways,
          Requests,   \* requests to the REST API
          Lists,      \* lists of gateways a command may name
          MaxChannels \* bound: channels built for one gateway

ASSUME ServerAssumption ==
    /\ Lists \subseteq Seq(Gateways)
    /\ MaxChannels \in Nat

Commands == {"configure", "push", "switch", "setRecording", "malformed"}

VARIABLES
    process,  \* "running", "exited", "fatal" or "panic"
    mainPc,   \* where main is
    toClose,  \* channels that Manager.Close has yet to close
    srv,      \* s.srv: "unset", "listening" or "shutdown"
    stopErr,  \* restAPI.Stop returned an error
    built,    \* how many channels were built for each gateway
    stored,   \* the channel in the channels map, 0 when absent
    open,     \* channels that are not closed, as pairs <<gateway, number>>
    pc,       \* where each request is
    command,  \* what it asks for
    list,     \* gateways it names
    todo,     \* gateways it has yet to look at
    reqCh,    \* number of the channel it has found for Head(todo)
    gwFound,  \* it has found a channel
    response, \* its HTTP status, 0 before
    tasks,    \* SendGatewayMessageTasks: request and channel
    sent,     \* requests and channels whose message was published
    applied,  \* requests and channels that started ApplyLogic
    seen      \* history: the channels stored when a request came

mainVars == <<mainPc, toClose, stopErr>>
chanVars == <<built, stored, open>>
inputVars == <<command, list, seen>>
loopVars == <<todo, reqCh, gwFound>>
effectVars == <<tasks, sent, applied>>
reqVars == <<pc, inputVars, loopVars, response>>
vars == <<process, srv, mainVars, chanVars, reqVars, effectVars>>

Init ==
    /\ process = "running"
    /\ mainPc = "serve" /\ toClose = {} /\ stopErr = FALSE
    /\ srv = "unset"
    /\ built = [g \in Gateways |-> 0]
    /\ stored = [g \in Gateways |-> 0]
    /\ open = {}
    /\ pc = [r \in Requests |-> "idle"]
    /\ command = [r \in Requests |-> "malformed"]
    /\ list = [r \in Requests |-> <<>>]
    /\ seen = [r \in Requests |-> stored]
    /\ todo = list
    /\ reqCh = [r \in Requests |-> 0]
    /\ gwFound = [r \in Requests |-> FALSE]
    /\ response = [r \in Requests |-> 0]
    /\ tasks = {} /\ sent = {} /\ applied = {}

Running == process = "running"
Active == {r \in Requests : pc[r] \notin {"idle", "answered"}}
Channel(g) == <<g, stored[g]>>
-----------------------------------------------------------------------------
(* Gateways, until the connection to the broker is closed.                 *)

Connected == Running /\ mainPc \in {"serve", "closing"}

Join(g) ==
    /\ Connected /\ stored[g] = 0 /\ built[g] < MaxChannels
    /\ built' = [built EXCEPT ![g] = @ + 1]
    /\ stored' = [stored EXCEPT ![g] = built[g] + 1]
    /\ open' = open \cup {<<g, built[g] + 1>>}
    /\ UNCHANGED <<process, srv, mainVars, reqVars, effectVars>>

Leave(g) ==
    /\ Connected /\ stored[g] # 0
    /\ stored' = [stored EXCEPT ![g] = 0]
    /\ open' = open \ {Channel(g)}
    /\ UNCHANGED <<process, srv, mainVars, built, reqVars, effectVars>>

\* A goroutine of a channel that was closed, or Close itself, panics, or one
\* that opens a channel on a closed connection.
ChannelPanics ==
    /\ Running
    /\ mainPc # "serve" \/ \E g \in Gateways : \E n \in 1..built[g] :
                              <<g, n>> \notin open
    /\ process' = "panic"
    /\ UNCHANGED <<srv, mainVars, chanVars, reqVars, effectVars>>
-----------------------------------------------------------------------------
(* The REST API.                                                           *)

Goto(r, from, to) ==
    /\ Running
    /\ pc[r] = from
    /\ pc' = [pc EXCEPT ![r] = to]

Answer(r, from, status) ==
    /\ Goto(r, from, "answered")
    /\ response' = [response EXCEPT ![r] = status]

\* Start runs in a goroutine of its own, whenever that is scheduled.
StartRest ==
    /\ Running /\ srv = "unset"
    /\ srv' = "listening"
    /\ UNCHANGED <<process, mainVars, chanVars, reqVars, effectVars>>

\* ListenAndServe fails: logger.Fatal ends the process.
StartRestFails ==
    /\ Running /\ srv = "unset"
    /\ process' = "fatal"
    /\ UNCHANGED <<srv, mainVars, chanVars, reqVars, effectVars>>

\* "configure" has its one gateway in the path.
Arrive(r) ==
    /\ srv = "listening"
    /\ Goto(r, "idle", "lookup")
    /\ \E c \in Commands, l \in Lists :
          /\ c = "configure" => Len(l) = 1
          /\ command' = [command EXCEPT ![r] = c]
          /\ list' = [list EXCEPT ![r] = l]
          /\ todo' = [todo EXCEPT ![r] = l]
    /\ seen' = [seen EXCEPT ![r] = stored]
    /\ UNCHANGED <<process, srv, mainVars, chanVars, reqCh, gwFound, response,
                   effectVars>>

Refuse(r) ==
    /\ command[r] = "malformed"
    /\ Answer(r, "lookup", 400)
    /\ UNCHANGED <<process, srv, mainVars, chanVars, inputVars, loopVars,
                   effectVars>>

\* handleGatewayConfigure without a channel.
NoChannel(r) ==
    /\ command[r] = "configure" /\ stored[Head(todo[r])] = 0
    /\ Answer(r, "lookup", 400)
    /\ UNCHANGED <<process, srv, mainVars, chanVars, inputVars, loopVars,
                   effectVars>>

Looks(r) == command[r] # "malformed" /\ todo[r] # <<>>

\* Mutant of Lookup: gwFound tells of the last gateway of the list.
LookupLast(r) ==
    LET g == Head(todo[r]) IN
    /\ Looks(r) /\ stored[g] # 0
    /\ Goto(r, "lookup", "use")
    /\ reqCh' = [reqCh EXCEPT ![r] = stored[g]]
    /\ gwFound' = [gwFound EXCEPT ![r] = Len(todo[r]) = 1]
    /\ UNCHANGED <<process, srv, mainVars, chanVars, inputVars, todo, response,
                   effectVars>>

\* GetGatewayChannel, or the first line of DoGatewayRPC: the pointer found is
\* used after the lock of the map is released.
Lookup(r) ==
    LET g == Head(todo[r]) IN
    /\ Looks(r) /\ stored[g] # 0
    /\ Goto(r, "lookup", "use")
    /\ reqCh' = [reqCh EXCEPT ![r] = stored[g]]
    /\ gwFound' = [gwFound EXCEPT ![r] = TRUE]
    /\ UNCHANGED <<process, srv, mainVars, chanVars, inputVars, todo, response,
                   effectVars>>

\* Mutant of Skip: the loop ends, `break` instead of `continue`.
SkipAll(r) ==
    /\ Looks(r) /\ command[r] # "configure" /\ stored[Head(todo[r])] = 0
    /\ Goto(r, "lookup", "lookup")
    /\ todo' = [todo EXCEPT ![r] = <<>>]
    /\ UNCHANGED <<process, srv, mainVars, chanVars, inputVars, reqCh, gwFound,
                   response, effectVars>>

\* A gateway without channel is logged and passed over.
Skip(r) ==
    /\ Looks(r) /\ command[r] # "configure" /\ stored[Head(todo[r])] = 0
    /\ Goto(r, "lookup", "lookup")
    /\ todo' = [todo EXCEPT ![r] = Tail(@)]
    /\ UNCHANGED <<process, srv, mainVars, chanVars, inputVars, reqCh, gwFound,
                   response, effectVars>>

Found(r) == <<Head(todo[r]), reqCh[r]>>

\* What a command does with the channel it has found.  "push" sets a flag of
\* its logic if it has one; the others leave the work to a goroutine.
UseChannel(r) ==
    /\ command[r] # "configure"
    /\ Goto(r, "use", "lookup")
    /\ todo' = [todo EXCEPT ![r] = Tail(@)]
    /\ tasks' = IF command[r] = "switch"
                THEN tasks \cup {<<r, Found(r)>>} ELSE tasks
    /\ applied' = IF command[r] = "setRecording"
                  THEN applied \cup {<<r, Found(r)>>} ELSE applied
    /\ UNCHANGED <<process, srv, mainVars, chanVars, inputVars, reqCh, gwFound,
                   response, sent>>

\* GetLogic has returned half an interface value: gin recovers the panic.
PushPanics(r) ==
    /\ command[r] = "push"
    /\ Answer(r, "use", 500)
    /\ UNCHANGED <<process, srv, mainVars, chanVars, inputVars, loopVars,
                   effectVars>>

\* The command is answered: OK when any of its gateways was found.
Finish(r) ==
    /\ command[r] # "malformed" /\ todo[r] = <<>>
    /\ Answer(r, "lookup", IF gwFound[r] THEN 200 ELSE 404)
    /\ UNCHANGED <<process, srv, mainVars, chanVars, inputVars, loopVars,
                   effectVars>>

\* DoRPC publishes on an open channel and returns an error else.
BeginRpc(r) ==
    /\ command[r] = "configure"
    /\ IF Found(r) \in open
       THEN Goto(r, "use", "rpc") /\ UNCHANGED response
       ELSE Answer(r, "use", 400)
    /\ UNCHANGED <<process, srv, mainVars, chanVars, inputVars, loopVars,
                   effectVars>>

\* Mutant of EndRpc: DoRPC returns only with an answer.
EndRpcAnswered(r) ==
    /\ Answer(r, "rpc", 200)
    /\ stored[Head(todo[r])] = reqCh[r]
    /\ UNCHANGED <<process, srv, mainVars, chanVars, inputVars, loopVars,
                   effectVars>>

\* DoRPC returns an answer, or nil because the channel was closed, or the
\* timeout error.
EndRpc(r) ==
    /\ \E status \in {200, 400} : Answer(r, "rpc", status)
    /\ UNCHANGED <<process, srv, mainVars, chanVars, inputVars, loopVars,
                   effectVars>>

Serve(r) ==
    \/ Refuse(r) \/ NoChannel(r) \/ Lookup(r) \/ Skip(r) \/ UseChannel(r)
    \/ PushPanics(r) \/ Finish(r) \/ BeginRpc(r) \/ EndRpc(r)

\* SendGatewayMessageTask: a write on a closed channel fails and is logged.
SendMessage(r, ch) ==
    /\ Running /\ <<r, ch>> \in tasks
    /\ tasks' = tasks \ {<<r, ch>>}
    /\ sent' = IF ch \in open THEN sent \cup {<<r, ch>>} ELSE sent
    /\ UNCHANGED <<process, srv, mainVars, chanVars, reqVars, applied>>
-----------------------------------------------------------------------------
(* main.                                                                   *)

MainGoto(from, to) ==
    /\ Running
    /\ mainPc = from
    /\ mainPc' = to

\* A signal, and GetChannels, the first step of Manager.Close.
Interrupt ==
    /\ MainGoto("serve", "closing")
    /\ toClose' = {ch \in open : ch[2] = stored[ch[1]]}
    /\ UNCHANGED <<process, srv, stopErr, chanVars, reqVars, effectVars>>

\* Manager.Close closes channels and leaves them in the map.
CloseChannel ==
    /\ MainGoto("closing", "closing")
    /\ \E ch \in toClose : toClose' = toClose \ {ch} /\ open' = open \ {ch}
    /\ UNCHANGED <<process, srv, stopErr, built, stored, reqVars, effectVars>>

\* With the connection every channel is closed.
CloseConnection ==
    /\ MainGoto("closing", "stopping")
    /\ toClose = {}
    /\ open' = {}
    /\ UNCHANGED <<process, srv, toClose, stopErr, built, stored, reqVars,
                   effectVars>>

\* Mutant of StopRest: Stop waits for the server instead of giving up.
StopRestWaits ==
    /\ srv = "listening"
    /\ MainGoto("stopping", "draining")
    /\ srv' = "shutdown"
    /\ UNCHANGED <<process, toClose, stopErr, chanVars, reqVars, effectVars>>

\* restAPI.Stop: an error when Start has not run yet, else no new requests.
StopRest ==
    /\ IF srv = "unset"
       THEN /\ MainGoto("stopping", "stopped")
            /\ stopErr' = TRUE
            /\ UNCHANGED srv
       ELSE /\ MainGoto("stopping", "draining")
            /\ srv' = "shutdown"
            /\ UNCHANGED stopErr
    /\ UNCHANGED <<process, toClose, chanVars, reqVars, effectVars>>

\* Mutant of Drain: Stop does not wait for the requests it still serves.
DrainNever ==
    /\ MainGoto("draining", "stopped")
    /\ UNCHANGED stopErr
    /\ UNCHANGED <<process, srv, toClose, chanVars, reqVars, effectVars>>

\* Shutdown returns when no request is served or after five seconds.
Drain ==
    /\ MainGoto("draining", "stopped")
    /\ stopErr' \in {Active # {}, TRUE}
    /\ UNCHANGED <<process, srv, toClose, chanVars, reqVars, effectVars>>

\* conn.Close and the return of main: the process ends with its goroutines.
Exit ==
    /\ MainGoto("stopped", "returned")
    /\ process' = "exited"
    /\ UNCHANGED <<srv, toClose, stopErr, chanVars, reqVars, effectVars>>

Shutdown == CloseChannel \/ CloseConnection \/ StopRest \/ Drain \/ Exit
-----------------------------------------------------------------------------
Next ==
    \/ \E g \in Gateways : Join(g) \/ Leave(g)
    \/ ChannelPanics
    \/ StartRest \/ StartRestFails
    \/ \E r \in Requests : Arrive(r) \/ Serve(r)
    \/ \E t \in tasks : SendMessage(t[1], t[2])
    \/ Interrupt \/ Shutdown

Spec == Init /\ [][Next]_vars

\* Goroutines are scheduled; an RPC and Shutdown have timeouts.  Nothing
\* forces gateways, clients or signals.
FairSpec ==
    /\ Spec
    /\ WF_vars(Shutdown)
    /\ \A r \in Requests : WF_vars(Serve(r))
-----------------------------------------------------------------------------
(* Properties.                                                             *)

TypeOK ==
    /\ process \in {"running", "exited", "fatal", "panic"}
    /\ mainPc \in {"serve", "closing", "stopping", "draining", "stopped",
                   "returned"}
    /\ srv \in {"unset", "listening", "shutdown"}
    /\ stopErr \in BOOLEAN
    /\ built \in [Gateways -> 0..MaxChannels]
    /\ stored \in [Gateways -> 0..MaxChannels]
    /\ open \subseteq Gateways \X (1..MaxChannels)
    /\ toClose \subseteq Gateways \X (1..MaxChannels)
    /\ pc \in [Requests -> {"idle", "lookup", "use", "rpc", "answered"}]
    /\ command \in [Requests -> Commands]
    /\ list \in [Requests -> Seq(Gateways)]
    /\ todo \in [Requests -> Seq(Gateways)]
    /\ \A r \in Requests : pc[r] \in {"use", "rpc"} => todo[r] # <<>>
    /\ reqCh \in [Requests -> 0..MaxChannels]
    /\ gwFound \in [Requests -> BOOLEAN]
    /\ response \in [Requests -> {0, 200, 400, 404, 500}]
    /\ \A r \in Requests : response[r] # 0 => pc[r] = "answered"
    /\ tasks \subseteq Requests \X (Gateways \X (1..MaxChannels))
    /\ sent \subseteq Requests \X (Gateways \X (1..MaxChannels))
    /\ applied \subseteq Requests \X (Gateways \X (1..MaxChannels))
    /\ seen \in [Requests -> [Gateways -> 0..MaxChannels]]

Started(r) == {t \in tasks \cup sent \cup applied : t[1] = r}

\* handleCommand: a command answered with "no gateways found" has started
\* nothing on any gateway of its list, and one that is refused neither.
ErrorMeansNothingDone ==
    \A r \in Requests : response[r] \in {400, 404} => Started(r) = {}

\* handleCommand: a "switch" command that is answered has reached each gateway
\* of its list that was connected when the request came and has stayed so,
\* unless its task has yet to run, and whatever happened to the others.
SwitchReachesGateway ==
    \A r \in Requests :
        command[r] = "switch" /\ pc[r] = "answered" =>
            \A i \in DOMAIN list[r] :
                LET ch == <<list[r][i], seen[r][list[r][i]]>>
                IN ch \in open => <<r, ch>> \in tasks \cup sent

\* main and Server.Stop: when Stop returns no error, main returns with every
\* request answered and none can come in.
GracefulStop ==
    mainPc \in {"stopped", "returned"} /\ ~stopErr
        => Active = {} /\ srv = "shutdown"

\* main: an interrupted server ends, whatever its requests and tasks do.
ShutdownEnds == mainPc = "closing" ~> ~Running

\* handleGatewayConfigure and handleCommand: a request is answered, or the
\* process has ended before.
RequestsAnswered ==
    \A r \in Requests : pc[r] = "lookup" ~> pc[r] = "answered" \/ ~Running
=============================================================================
