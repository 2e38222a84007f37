----------------------------- MODULE GatewayRpc -----------------------------
(***************************************************************************)
(* One GatewayChannel: the goroutines in DoRPC, the goroutine started by   *)
(* Start that reads the gateway's output queue, and the goroutines that    *)
(* call Close, which share the table of pending calls and the unbuffered   *)
(* channel `done` of each of its entries.                                  *)
(*                                                                         *)
(* A call stands for one execution of DoRPC and for the correlation id it  *)
(* draws (a UUID, hence unique).  A section under rpcMx is one action: it  *)
(* neither blocks nor touches state that is accessed without the mutex in  *)
(* a way the interleaving could show.  A panic in any of these goroutines  *)
(* ends the process; `crash` says which one occurred.                      *)
(***************************************************************************)
EXTENDS Naturals, Sequences, FiniteSets

CONSTANTS Calls,      \* executions of DoRPC and their correlation ids
          Closers,    \* goroutines that call Close once each
          Nil,        \* Go's nil pointer
          Plain,      \* a gateway message without correlation id
          Malformed,  \* a body that json.Unmarshal refuses
          MaxReplies, \* bound: answers of the gateway to one request
          MaxPlain,   \* bound: messages without correlation id
          MaxQueue    \* bound: messages waiting in the output queue

ASSUME RpcAssumption ==
    /\ Nil \notin Calls /\ Plain \notin Calls /\ Malformed \notin Calls
    /\ Plain # Malformed
    /\ MaxReplies \in Nat /\ MaxPlain \in Nat /\ MaxQueue \in Nat

VARIABLES
    callPc,     \* where each call is in DoRPC
    rpcCalls,   \* the keys of c.rpcCalls
    doneClosed, \* the entries whose channel `done` was closed
    data,       \* field `data` of each entry: Nil or the reply stored
    response,   \* result `response` of each call
    err,        \* result `err` of each call: "nil", "timeout" or "write"
    readerPc,   \* where the goroutine of Start is
    readerMsg,  \* the message it has read
    readerCall, \* the pending entry it has looked up
    closePc,    \* where each closer is in Close
    ctxDone,    \* c.cancel() was called
    inOpen,     \* the AMQP channel of the writer c.in is open
    outOpen,    \* the AMQP channel of the reader c.out is open
    out,        \* messages of the output queue not yet received
    requests,   \* the calls whose request was published
    replies,    \* how often the gateway answered each request
    plainSent,  \* messages without correlation id published
    applied,    \* messages handed to a goroutine in ApplyLogic
    crash       \* "none" or the panic that ended the process

callVars == <<callPc, rpcCalls, data, response, err>>
readerVars == <<readerPc, readerMsg, readerCall, applied>>
closeVars == <<closePc, ctxDone, doneClosed>>
linkVars == <<inOpen, outOpen>>
gatewayVars == <<requests, replies, plainSent>>
vars == <<callVars, readerVars, closeVars, linkVars, gatewayVars, out, crash>>

Message == Calls \cup {Plain, Malformed}

Init ==
    /\ callPc = [c \in Calls |-> "idle"]
    /\ rpcCalls = {}
    /\ doneClosed = {}
    /\ data = [c \in Calls |-> Nil]
    /\ response = [c \in Calls |-> Nil]
    /\ err = [c \in Calls |-> "nil"]
    /\ readerPc = "check"
    /\ readerMsg = Nil
    /\ readerCall = Nil
    /\ closePc = [k \in Closers |-> "idle"]
    /\ ctxDone = FALSE
    /\ inOpen = TRUE
    /\ outOpen = TRUE
    /\ out = <<>>
    /\ requests = {}
    /\ replies = [c \in Calls |-> 0]
    /\ plainSent = 0
    /\ applied = 0
    /\ crash = "none"

Running == crash = "none"

Goto(c, from, to) ==
    /\ callPc[c] = from
    /\ callPc' = [callPc EXCEPT ![c] = to]

-----------------------------------------------------------------------------
(* DoRPC.                                                                  *)

\* WriteEnvelope succeeds: the request is on its way before the call is
\* entered in rpcCalls.
Publish(c) ==
    /\ Running /\ inOpen
    /\ Goto(c, "idle", "register")
    /\ requests' = requests \cup {c}
    /\ UNCHANGED <<rpcCalls, data, response, err, readerVars, closeVars,
                   linkVars, replies, plainSent, out, crash>>

\* WriteEnvelope fails on a closed AMQP channel and DoRPC returns its error.
PublishFails(c) ==
    /\ Running /\ ~inOpen
    /\ Goto(c, "idle", "returned")
    /\ err' = [err EXCEPT ![c] = "write"]
    /\ UNCHANGED <<rpcCalls, data, response, readerVars, closeVars,
                   linkVars, gatewayVars, out, crash>>

Register(c) ==
    /\ Running
    /\ Goto(c, "register", "wait")
    /\ rpcCalls' = rpcCalls \cup {c}
    /\ UNCHANGED <<data, response, err, readerVars, closeVars, linkVars,
                   gatewayVars, out, crash>>

\* The select takes `done` because Close closed it: response is whatever
\* the entry holds, nil unless the reader stored a reply meanwhile.
WakeByClose(c) ==
    /\ Running /\ c \in doneClosed
    /\ Goto(c, "wait", "release")
    /\ response' = [response EXCEPT ![c] = data[c]]
    /\ UNCHANGED <<rpcCalls, data, err, readerVars, closeVars, linkVars,
                   gatewayVars, out, crash>>

\* Mutants of Timeout: the pending object is not released; the select has no
\* timeout case.
TimeoutWithoutRelease(c) ==
    /\ Running
    /\ Goto(c, "wait", "returned")
    /\ err' = [err EXCEPT ![c] = "timeout"]
    /\ UNCHANGED <<rpcCalls, data, response, readerVars, closeVars, linkVars,
                   gatewayVars, out, crash>>

TimeoutNever(c) == FALSE

\* The select takes time.After.
Timeout(c) ==
    /\ Running
    /\ Goto(c, "wait", "release")
    /\ err' = [err EXCEPT ![c] = "timeout"]
    /\ UNCHANGED <<rpcCalls, data, response, readerVars, closeVars, linkVars,
                   gatewayVars, out, crash>>

\* Mutant of Release: the channel `done` is closed with the entry.
ReleaseClosingDone(c) ==
    /\ Running
    /\ Goto(c, "release", "returned")
    /\ rpcCalls' = rpcCalls \ {c}
    /\ doneClosed' = doneClosed \cup {c}
    /\ UNCHANGED <<data, response, err, readerVars, closePc, ctxDone, linkVars,
                   gatewayVars, out, crash>>

Release(c) ==
    /\ Running
    /\ Goto(c, "release", "returned")
    /\ rpcCalls' = rpcCalls \ {c}
    /\ UNCHANGED <<data, response, err, readerVars, closeVars, linkVars,
                   gatewayVars, out, crash>>
-----------------------------------------------------------------------------
(* The goroutine of Start.                                                 *)

\* Mutant of CheckContext: the loop does not look at the context.
CheckContextIgnored ==
    /\ Running /\ readerPc = "check"
    /\ readerPc' = "read"
    /\ UNCHANGED <<callVars, readerMsg, readerCall, applied, closeVars,
                   linkVars, gatewayVars, out, crash>>

CheckContext ==
    /\ Running /\ readerPc = "check"
    /\ readerPc' = IF ctxDone THEN "returned" ELSE "read"
    /\ UNCHANGED <<callVars, readerMsg, readerCall, applied, closeVars,
                   linkVars, gatewayVars, out, crash>>

\* ReadEnvelope: the select takes ctx.Done and reports toBeClosed.
ReadCancelled ==
    /\ Running /\ readerPc = "read" /\ ctxDone
    /\ readerPc' = "check"
    /\ UNCHANGED <<callVars, readerMsg, readerCall, applied, closeVars,
                   linkVars, gatewayVars, out, crash>>

\* ReadEnvelope: the select takes a delivery.  A malformed body is logged
\* and skipped, a message without correlation id goes to ApplyLogic.
ReadMessage ==
    /\ Running /\ readerPc = "read" /\ out # <<>>
    /\ out' = Tail(out)
    /\ \/ /\ Head(out) \in Calls
          /\ readerMsg' = Head(out)
          /\ readerPc' = "lookup"
          /\ UNCHANGED applied
       \/ /\ Head(out) = Plain
          /\ applied' = applied + 1
          /\ readerPc' = "check"
          /\ UNCHANGED readerMsg
       \/ /\ Head(out) = Malformed
          /\ readerPc' = "check"
          /\ UNCHANGED <<applied, readerMsg>>
    /\ UNCHANGED <<callVars, readerCall, closeVars, linkVars, gatewayVars,
                   crash>>

\* ReadEnvelope: the delivery channel is closed.  It returns no envelope, no
\* error and toBeClosed = false, and Start dereferences the nil envelope.
ReadClosed ==
    /\ Running /\ readerPc = "read" /\ out = <<>> /\ ~outOpen
    /\ crash' = "nilEnvelope"
    /\ UNCHANGED <<callVars, readerVars, closeVars, linkVars, gatewayVars,
                   out>>

\* Mutants of Lookup: `ok` is ignored; a reply without entry goes on to
\* ApplyLogic.
LookupUnchecked ==
    /\ Running /\ readerPc = "lookup"
    /\ readerCall' = readerMsg
    /\ readerPc' = "store"
    /\ UNCHANGED <<callVars, readerMsg, applied, closeVars, linkVars,
                   gatewayVars, out, crash>>

LookupFallsThrough ==
    /\ Running /\ readerPc = "lookup"
    /\ \/ /\ readerMsg \in rpcCalls
          /\ readerCall' = readerMsg
          /\ readerPc' = "store"
          /\ UNCHANGED applied
       \/ /\ readerMsg \notin rpcCalls
          /\ readerPc' = "check"
          /\ applied' = applied + 1
          /\ UNCHANGED readerCall
    /\ UNCHANGED <<callVars, readerMsg, closeVars, linkVars, gatewayVars,
                   out, crash>>

\* A reply is looked up in rpcCalls by its correlation id, and dropped when
\* there is no such entry.
Lookup ==
    /\ Running /\ readerPc = "lookup"
    /\ \/ /\ readerMsg \in rpcCalls
          /\ readerCall' = readerMsg
          /\ readerPc' = "store"
       \/ /\ readerMsg \notin rpcCalls
          /\ readerPc' = "check"
          /\ UNCHANGED readerCall
    /\ UNCHANGED <<callVars, readerMsg, applied, closeVars, linkVars,
                   gatewayVars, out, crash>>

\* Mutant of StoreReply: the caller is woken before the reply is stored.
StoreReplyForgotten ==
    /\ Running /\ readerPc = "store"
    /\ readerPc' = "send"
    /\ UNCHANGED <<callVars, readerMsg, readerCall, applied, closeVars,
                   linkVars, gatewayVars, out, crash>>

StoreReply ==
    /\ Running /\ readerPc = "store"
    /\ data' = [data EXCEPT ![readerCall] = readerMsg]
    /\ readerPc' = "send"
    /\ UNCHANGED <<callPc, rpcCalls, response, err, readerMsg, readerCall,
                   applied, closeVars, linkVars, gatewayVars, out, crash>>

\* `rpcCall.done <- true` meets the select of the waiting call.
Deliver ==
    /\ Running /\ readerPc = "send" /\ readerCall \notin doneClosed
    /\ Goto(readerCall, "wait", "release")
    /\ response' = [response EXCEPT ![readerCall] = data[readerCall]]
    /\ readerPc' = "check"
    /\ UNCHANGED <<rpcCalls, data, err, readerMsg, readerCall, applied,
                   closeVars, linkVars, gatewayVars, out, crash>>

\* `rpcCall.done <- true` on a closed channel panics.
SendOnClosed ==
    /\ Running /\ readerPc = "send" /\ readerCall \in doneClosed
    /\ crash' = "sendOnClosed"
    /\ UNCHANGED <<callVars, readerVars, closeVars, linkVars, gatewayVars,
                   out>>
-----------------------------------------------------------------------------
(* Close.                                                                  *)

\* c.Stop() cancels the context (the "off" status task it starts is the
\* subject of GatewayStatus).
Stop(k) ==
    /\ Running /\ closePc[k] = "idle"
    /\ closePc' = [closePc EXCEPT ![k] = "calls"]
    /\ ctxDone' = TRUE
    /\ UNCHANGED <<callVars, readerVars, doneClosed, linkVars, gatewayVars,
                   out, crash>>

\* The loop over rpcCalls under the mutex.  Entries are not removed, so one
\* may already be closed, and closing it again panics.
CloseCalls(k) ==
    /\ Running /\ closePc[k] = "calls"
    /\ \/ /\ rpcCalls \cap doneClosed = {}
          /\ doneClosed' = doneClosed \cup rpcCalls
          /\ closePc' = [closePc EXCEPT ![k] = "out"]
          /\ UNCHANGED crash
       \/ /\ rpcCalls \cap doneClosed # {}
          /\ crash' = "closeOfClosed"
          /\ UNCHANGED <<doneClosed, closePc>>
    /\ UNCHANGED <<callVars, readerVars, ctxDone, linkVars, gatewayVars, out>>

\* c.out.Close(): the queue is deleted and its channel closed; an error of
\* a channel that is closed already is only logged.
CloseOut(k) ==
    /\ Running /\ closePc[k] = "out"
    /\ closePc' = [closePc EXCEPT ![k] = "in"]
    /\ outOpen' = FALSE
    /\ UNCHANGED <<callVars, readerVars, ctxDone, doneClosed, inOpen,
                   gatewayVars, out, crash>>

CloseIn(k) ==
    /\ Running /\ closePc[k] = "in"
    /\ closePc' = [closePc EXCEPT ![k] = "closed"]
    /\ inOpen' = FALSE
    /\ UNCHANGED <<callVars, readerVars, ctxDone, doneClosed, outOpen,
                   gatewayVars, out, crash>>
-----------------------------------------------------------------------------
(* The gateway and the broker.                                             *)

\* The gateway answers a request it was sent, perhaps late or twice.
Reply(c) ==
    /\ Running /\ c \in requests /\ replies[c] < MaxReplies
    /\ outOpen /\ Len(out) < MaxQueue
    /\ out' = Append(out, c)
    /\ replies' = [replies EXCEPT ![c] = @ + 1]
    /\ UNCHANGED <<callVars, readerVars, closeVars, linkVars, requests,
                   plainSent, crash>>

SendPlain ==
    /\ Running /\ plainSent < MaxPlain
    /\ outOpen /\ Len(out) < MaxQueue
    /\ out' = Append(out, Plain)
    /\ plainSent' = plainSent + 1
    /\ UNCHANGED <<callVars, readerVars, closeVars, linkVars, requests,
                   replies, crash>>

SendMalformed ==
    /\ Running /\ outOpen /\ Len(out) < MaxQueue
    /\ out' = Append(out, Malformed)
    /\ UNCHANGED <<callVars, readerVars, closeVars, linkVars, gatewayVars,
                   crash>>

\* The connection to the broker breaks and both AMQP channels close.
LoseConnection ==
    /\ Running /\ (inOpen \/ outOpen)
    /\ inOpen' = FALSE
    /\ outOpen' = FALSE
    /\ UNCHANGED <<callVars, readerVars, closeVars, gatewayVars, out, crash>>

\* The AMQP library gives up deliveries of a closed channel that nobody has
\* received.
DropInFlight ==
    /\ Running /\ ~outOpen /\ out # <<>>
    /\ out' = <<>>
    /\ UNCHANGED <<callVars, readerVars, closeVars, linkVars, gatewayVars,
                   crash>>
-----------------------------------------------------------------------------

DoRPC(c) ==
    \/ Publish(c) \/ PublishFails(c) \/ Register(c)
    \/ WakeByClose(c) \/ Timeout(c) \/ Release(c)

Reader ==
    \/ CheckContext \/ ReadCancelled \/ ReadMessage \/ ReadClosed
    \/ Lookup \/ StoreReply \/ Deliver \/ SendOnClosed

Close(k) == Stop(k) \/ CloseCalls(k) \/ CloseOut(k) \/ CloseIn(k)

Broker ==
    \/ \E c \in Calls : Reply(c)
    \/ SendPlain \/ SendMalformed \/ LoseConnection \/ DropInFlight

Next ==
    \/ \E c \in Calls : DoRPC(c)
    \/ Reader
    \/ \E k \in Closers : Close(k)
    \/ Broker

Spec == Init /\ [][Next]_vars

\* The Go scheduler runs every runnable goroutine and the timer fires; a
\* client need not call, the gateway need not answer, nobody need close.
Fairness ==
    /\ \A c \in Calls :
         WF_vars(Register(c) \/ WakeByClose(c) \/ Timeout(c) \/ Release(c))
    /\ WF_vars(Reader)
    /\ \A k \in Closers : WF_vars(CloseCalls(k) \/ CloseOut(k) \/ CloseIn(k))

FairSpec == Spec /\ Fairness
-----------------------------------------------------------------------------
(* Properties.                                                             *)

\* The values the shared structures of a channel take; in particular the
\* reader treats a message as a reply only when it carries the id of a call.
TypeOK ==
    /\ callPc \in [Calls -> {"idle", "register", "wait", "release",
                           "returned"}]
    /\ rpcCalls \subseteq Calls
    /\ doneClosed \subseteq Calls
    /\ data \in [Calls -> Calls \cup {Nil}]
    /\ response \in [Calls -> Calls \cup {Nil}]
    /\ err \in [Calls -> {"nil", "timeout", "write"}]
    /\ readerPc \in {"check", "read", "lookup", "store", "send", "returned"}
    /\ readerMsg \in Calls \cup {Nil}
    /\ readerCall \in Calls \cup {Nil}
    /\ closePc \in [Closers -> {"idle", "calls", "out", "in", "closed"}]
    /\ ctxDone \in BOOLEAN
    /\ inOpen \in BOOLEAN
    /\ outOpen \in BOOLEAN
    /\ out \in Seq(Message)
    /\ requests \subseteq Calls
    /\ replies \in [Calls -> Nat]
    /\ plainSent \in Nat
    /\ applied \in Nat
    /\ crash \in {"none", "nilEnvelope", "sendOnClosed", "closeOfClosed"}

\* The table holds exactly the calls between registration and release:
\* whichever way a call ends, and however it races with the reader and with
\* Close, no entry outlives it (DoRPC, Close).
PendingAreTheWaiting ==
    rpcCalls = {c \in Calls : callPc[c] \in {"wait", "release"}}

\* A panic of this channel needs a Close or a lost connection; ordinary
\* traffic, with late, repeated or malformed replies, never causes one.
CrashOnlyWhenStopping ==
    crash # "none" => ctxDone \/ ~outOpen

\* When the reader is blocked on an entry whose call has stopped listening,
\* then the call timed out, or the gateway answered it more than once, or
\* Close closed the entry: the three ways into head-of-line blocking.
BlockedReaderExplained ==
    (readerPc = "send" /\ callPc[readerCall] # "wait") =>
        \/ err[readerCall] = "timeout"
        \/ replies[readerCall] > 1
        \/ readerCall \in doneClosed

Count(s, m) == Cardinality({i \in DOMAIN s : s[i] = m})

\* While the output queue is open no message without correlation id is lost
\* or handed over twice, whatever RPC traffic it is mixed with (Start).
PlainConserved == outOpen => plainSent = applied + Count(out, Plain)

\* Once DoRPC has published, its caller gets an outcome, unless the process
\* dies: neither a lost reply nor a Close leaves a caller blocked.
EveryCallReturns ==
    \A c \in Calls :
        callPc[c] = "register" ~> (callPc[c] = "returned" \/ ~Running)

\* After Close the reader goroutine ends, unless it hangs on an entry whose
\* call is gone, or the process dies.
StoppedReaderEnds ==
    ctxDone ~> \/ readerPc = "returned" \/ ~Running
               \/ readerPc = "send" /\ callPc[readerCall] # "wait"

\* How the caller sees a call: once the outcome is decided, it has returned.
Phase(c) ==
    CASE callPc[c] = "idle" -> "idle"
      [] callPc[c] \in {"register", "wait"} -> "active"
      [] OTHER -> "returned"

Promise == INSTANCE RpcPromise WITH
    phase <- [c \in Calls |-> Phase(c)],
    answered <- {c \in Calls : replies[c] > 0},
    stopping <- ctxDone

\* DoRPC refines RpcPromise: a call returns the answer to its own request, a
\* timeout, a write error, or, only when the channel is closing, nothing.
KeepsPromise == Promise!Spec
-----------------------------------------------------------------------------
(* What the comments of the code say and the code does not do.             *)

\* "Close pending calls to quit blocked goroutines" (gatewaychannel.go:90):
\* a Close that has completed leaves no goroutine of the channel blocked.
CloseQuitsBlocked ==
    (\E k \in Closers : closePc[k] = "closed")
        ~> (readerPc = "returned" \/ ~Running)
=============================================================================
