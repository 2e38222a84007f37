-------------------------- MODULE GatewayRpcProofs --------------------------
(***************************************************************************)
(* Proofs about GatewayRpc for any number of calls, closers, replies and   *)
(* messages: its type correctness, the table of pending calls, the panics  *)
(* that ordinary traffic cannot cause, and that DoRPC keeps the promise of *)
(* RpcPromise.                                                             *)
(***************************************************************************)
EXTENDS GatewayRpc, FunctionTheorems, FiniteSetTheorems, TLAPS

\* What the reader holds: a reply that some gateway answer put there and,
\* from "store" on, the entry of that very call, which was in the table.
ReaderHolds ==
    /\ readerPc = "lookup" => readerMsg \in Calls /\ replies[readerMsg] > 0
    /\ readerPc \in {"store", "send"} =>
         /\ readerCall \in Calls
         /\ readerMsg = readerCall
         /\ replies[readerCall] > 0
         /\ callPc[readerCall] \in {"wait", "release", "returned"}
    /\ readerPc = "send" => data[readerCall] = readerCall

\* An entry holds no reply but the one the gateway gave to its own call.
OwnReplies ==
    \A c \in Calls : data[c] # Nil => data[c] = c /\ replies[c] > 0

\* A reply in the output queue was published by the gateway.
QueuedRepliesAreAnswers ==
    \A i \in 1 .. Len(out) : out[i] \in Calls => replies[out[i]] > 0

\* Only requests that were published are answered.
AnsweredWereSent ==
    \A c \in Calls : replies[c] > 0 => c \in requests /\ callPc[c] # "idle"

RequestsAreCalls == \A c \in requests : callPc[c] # "idle"

\* Entries are closed only by a Close, which cancels the context first.
ClosedAfterCancel ==
    /\ doneClosed # {} => ctxDone
    /\ \A k \in Closers : closePc[k] # "idle" => ctxDone

\* A call that is under way has no response yet.
NoEarlyResponse ==
    \A c \in Calls :
        callPc[c] \in {"idle", "register", "wait"} => response[c] = Nil

\* The inductive invariant.
IInv ==
    /\ TypeOK
    /\ PendingAreTheWaiting
    /\ CrashOnlyWhenStopping
    /\ ReaderHolds
    /\ OwnReplies
    /\ QueuedRepliesAreAnswers
    /\ AnsweredWereSent
    /\ RequestsAreCalls
    /\ ClosedAfterCancel
    /\ NoEarlyResponse
-----------------------------------------------------------------------------
(* The inductive invariant holds initially and in every step.              *)

LEMMA InitIInv == Init => IInv
<1> SUFFICES ASSUME Init PROVE IInv
  OBVIOUS
<1>1. TypeOK
  <2>1. out \in Seq(Message)
    BY DEF Init
  <2>2. replies \in [Calls -> Nat]
    BY DEF Init
  <2>3. ctxDone \in BOOLEAN /\ inOpen \in BOOLEAN /\ outOpen \in BOOLEAN
    BY DEF Init
  <2> QED
    BY <2>1, <2>2, <2>3 DEF Init, TypeOK
<1>2. PendingAreTheWaiting /\ CrashOnlyWhenStopping
  BY DEF Init, PendingAreTheWaiting, CrashOnlyWhenStopping
<1>3. ReaderHolds /\ OwnReplies
  BY DEF Init, ReaderHolds, OwnReplies
<1>4. QueuedRepliesAreAnswers
  <2>1. Len(out) = 0
    BY DEF Init
  <2> QED
    BY <2>1 DEF QueuedRepliesAreAnswers
<1>5. /\ AnsweredWereSent /\ RequestsAreCalls
      /\ ClosedAfterCancel /\ NoEarlyResponse
  BY DEF Init, AnsweredWereSent, RequestsAreCalls, ClosedAfterCancel,
         NoEarlyResponse
<1> QED
  BY <1>1, <1>2, <1>3, <1>4, <1>5 DEF IInv

\* The steps of DoRPC.  The reader may hold the entry of a call that moves
\* on to "release" or "returned", never of one that has not registered.
LEMMA DoRPCIInv ==
    ASSUME NEW c \in Calls, IInv, DoRPC(c)
    PROVE  IInv'
<1> USE DEF IInv, TypeOK, Message, PendingAreTheWaiting, CrashOnlyWhenStopping,
            ReaderHolds, OwnReplies, QueuedRepliesAreAnswers, AnsweredWereSent,
            RequestsAreCalls, ClosedAfterCancel, NoEarlyResponse,
            callVars, readerVars, closeVars, linkVars, gatewayVars
<1>1. CASE Publish(c)
  BY <1>1 DEF Publish, Goto
<1>2. CASE PublishFails(c)
  BY <1>2 DEF PublishFails, Goto
<1>3. CASE Register(c)
  BY <1>3 DEF Register, Goto
<1>4. CASE WakeByClose(c)
  BY <1>4 DEF WakeByClose, Goto
<1>5. CASE Timeout(c)
  BY <1>5 DEF Timeout, Goto
<1>6. CASE Release(c)
  BY <1>6 DEF Release, Goto
<1> QED
  BY <1>1, <1>2, <1>3, <1>4, <1>5, <1>6 DEF DoRPC

\* The steps of the reader.
LEMMA ReaderIInv ==
    ASSUME IInv, Reader
    PROVE  IInv'
<1> USE DEF IInv, TypeOK, Message, PendingAreTheWaiting, CrashOnlyWhenStopping,
            ReaderHolds, OwnReplies, QueuedRepliesAreAnswers, AnsweredWereSent,
            RequestsAreCalls, ClosedAfterCancel, NoEarlyResponse,
            callVars, readerVars, closeVars, linkVars, gatewayVars
<1>1. CASE CheckContext
  BY <1>1 DEF CheckContext
<1>2. CASE ReadCancelled
  BY <1>2 DEF ReadCancelled
<1>3. CASE ReadMessage
  <2>1. /\ out # <<>> /\ out \in Seq(Message)
        /\ out' = Tail(out) /\ replies' = replies
    BY <1>3 DEF ReadMessage
  <2>2. Head(out) = out[1] /\ 1 \in 1 .. Len(out)
    BY <2>1
  <2>3. out' \in Seq(Message)
        /\ \A i \in 1 .. Len(out') :
              i + 1 \in 1 .. Len(out) /\ out'[i] = out[i + 1]
    BY <2>1
  <2>4. QueuedRepliesAreAnswers'
    BY <2>1, <2>3
  <2>5. ReaderHolds'
    BY <1>3, <2>2 DEF ReadMessage
  <2> QED
    BY <1>3, <2>3, <2>4, <2>5 DEF ReadMessage
<1>4. CASE ReadClosed
  BY <1>4 DEF ReadClosed
<1>5. CASE Lookup
  BY <1>5 DEF Lookup
<1>6. CASE StoreReply
  BY <1>6 DEF StoreReply
<1>7. CASE Deliver
  BY <1>7 DEF Deliver, Goto
<1>8. CASE SendOnClosed
  BY <1>8 DEF SendOnClosed
<1> QED
  BY <1>1, <1>2, <1>3, <1>4, <1>5, <1>6, <1>7, <1>8 DEF Reader

\* The steps of Close: only Stop precedes a closed entry.
LEMMA CloseIInv ==
    ASSUME NEW k \in Closers, IInv, Close(k)
    PROVE  IInv'
<1> USE DEF IInv, TypeOK, Message, PendingAreTheWaiting, CrashOnlyWhenStopping,
            ReaderHolds, OwnReplies, QueuedRepliesAreAnswers, AnsweredWereSent,
            RequestsAreCalls, ClosedAfterCancel, NoEarlyResponse,
            callVars, readerVars, closeVars, linkVars, gatewayVars
<1>1. CASE Stop(k)
  BY <1>1 DEF Stop
<1>2. CASE CloseCalls(k)
  BY <1>2 DEF CloseCalls
<1>3. CASE CloseOut(k)
  BY <1>3 DEF CloseOut
<1>4. CASE CloseIn(k)
  BY <1>4 DEF CloseIn
<1> QED
  BY <1>1, <1>2, <1>3, <1>4 DEF Close

\* What the gateway and the broker do.
LEMMA BrokerIInv ==
    ASSUME IInv, Broker
    PROVE  IInv'
<1> USE DEF IInv, TypeOK, Message, PendingAreTheWaiting, CrashOnlyWhenStopping,
            ReaderHolds, OwnReplies, QueuedRepliesAreAnswers, AnsweredWereSent,
            RequestsAreCalls, ClosedAfterCancel, NoEarlyResponse,
            callVars, readerVars, closeVars, linkVars, gatewayVars
<1>1. ASSUME NEW c \in Calls, Reply(c) PROVE IInv'
  BY <1>1 DEF Reply
<1>2. CASE SendPlain
  BY <1>2, RpcAssumption DEF SendPlain
<1>3. CASE SendMalformed
  BY <1>3, RpcAssumption DEF SendMalformed
<1>4. CASE LoseConnection
  BY <1>4 DEF LoseConnection
<1>5. CASE DropInFlight
  <2>1. out' = <<>> /\ Len(out') = 0
    BY <1>5 DEF DropInFlight
  <2> QED
    BY <1>5, <2>1 DEF DropInFlight
<1> QED
  BY <1>1, <1>2, <1>3, <1>4, <1>5 DEF Broker

LEMMA NextIInv == IInv /\ [Next]_vars => IInv'
<1> SUFFICES ASSUME IInv, [Next]_vars PROVE IInv'
  OBVIOUS
<1>1. CASE Next
  BY <1>1, DoRPCIInv, ReaderIInv, CloseIInv, BrokerIInv DEF Next
<1>2. CASE UNCHANGED vars
  BY <1>2 DEF vars, callVars, readerVars, closeVars, linkVars, gatewayVars,
              IInv, TypeOK, Message, PendingAreTheWaiting,
              CrashOnlyWhenStopping, ReaderHolds, OwnReplies,
              QueuedRepliesAreAnswers, AnsweredWereSent, RequestsAreCalls,
              ClosedAfterCancel, NoEarlyResponse
<1> QED
  BY <1>1, <1>2

\* The inductive invariant holds in every reachable state.
THEOREM Inductive == Spec => []IInv
  BY InitIInv, NextIInv, PTL DEF Spec

\* The shared structures of a channel keep their types; the reader takes a
\* message for a reply only when it carries the id of a call (Start).
THEOREM TypeCorrect == Spec => []TypeOK
<1>1. IInv => TypeOK
  BY DEF IInv
<1> QED
  BY Inductive, <1>1, PTL

\* However calls, reader and closers interleave, the table holds exactly the
\* calls between registration and release (DoRPC): no entry leaks.
THEOREM PendingTableExact == Spec => []PendingAreTheWaiting
<1>1. IInv => PendingAreTheWaiting
  BY DEF IInv
<1> QED
  BY Inductive, <1>1, PTL

\* Late, repeated, malformed or foreign messages never panic the process: a
\* panic needs a Close or a lost connection (Start, DoRPC, Close).
THEOREM NoCrashInTraffic == Spec => []CrashOnlyWhenStopping
<1>1. IInv => CrashOnlyWhenStopping
  BY DEF IInv
<1> QED
  BY Inductive, <1>1, PTL

-----------------------------------------------------------------------------
(* Messages are counted: where the answers to a call and the messages      *)
(* without correlation id are.                                             *)

\* The places of a message in a queue are finitely many.
LEMMA CountType ==
    ASSUME NEW S, NEW s \in Seq(S), NEW m
    PROVE  IsFiniteSet({i \in DOMAIN s : s[i] = m}) /\ Count(s, m) \in Nat
<1>1. DOMAIN s = 1 .. Len(s) /\ Len(s) \in Nat
  OBVIOUS
<1>2. IsFiniteSet(DOMAIN s)
  BY <1>1, FS_Interval
<1>3. IsFiniteSet({i \in DOMAIN s : s[i] = m})
  BY <1>2, FS_Subset
<1> QED
  BY <1>3, FS_CardinalityType DEF Count

\* Publishing a message counts it once.
LEMMA CountAppend ==
    ASSUME NEW S, NEW s \in Seq(S), NEW x \in S, NEW m
    PROVE  Count(Append(s, x), m)
             = IF x = m THEN Count(s, m) + 1 ELSE Count(s, m)
<1> DEFINE A == {i \in DOMAIN s : s[i] = m}
           B == {i \in DOMAIN Append(s, x) : Append(s, x)[i] = m}
           n == Len(s) + 1
<1>1. /\ DOMAIN s = 1 .. Len(s) /\ Len(s) \in Nat
      /\ DOMAIN Append(s, x) = 1 .. n /\ Append(s, x)[n] = x
      /\ \A i \in 1 .. Len(s) : Append(s, x)[i] = s[i]
  OBVIOUS
<1>2. IsFiniteSet(A)
  BY CountType
<1>3. CASE x = m
  <2>1. B = A \cup {n}
    BY <1>1, <1>3
  <2>2. n \notin A
    BY <1>1
  <2>3. Cardinality(B) = Cardinality(A) + 1
    BY <1>2, <2>1, <2>2, FS_AddElement
  <2> QED
    BY <1>3, <2>3 DEF Count
<1>4. CASE x # m
  <2>1. B = A
    BY <1>1, <1>4
  <2> QED
    BY <1>4, <2>1 DEF Count
<1> QED
  BY <1>3, <1>4

\* Receiving the first message takes it away once.
LEMMA CountTail ==
    ASSUME NEW S, NEW s \in Seq(S), s # <<>>, NEW m
    PROVE  Count(s, m) = IF Head(s) = m THEN Count(Tail(s), m) + 1
                         ELSE Count(Tail(s), m)
<1> DEFINE A == {i \in DOMAIN s : s[i] = m}
           B == {i \in DOMAIN Tail(s) : Tail(s)[i] = m}
           C == A \ {1}
           f == [i \in B |-> i + 1]
<1>1. /\ DOMAIN s = 1 .. Len(s) /\ Len(s) \in Nat /\ Len(s) >= 1
      /\ Head(s) = s[1] /\ Tail(s) \in Seq(S)
      /\ DOMAIN Tail(s) = 1 .. (Len(s) - 1)
      /\ \A i \in 1 .. (Len(s) - 1) : Tail(s)[i] = s[i + 1]
  OBVIOUS
<1>2. IsFiniteSet(A) /\ IsFiniteSet(B)
  BY <1>1, CountType
<1>3. \A i \in B : i \in Nat /\ i + 1 \in C
  BY <1>1
<1>4. \A j \in C : j - 1 \in B /\ (j - 1) + 1 = j
  BY <1>1
<1>5. f \in Bijection(B, C)
  <2>1. f \in [B -> C]
    BY <1>3
  <2>2. \A i, j \in B : f[i] = f[j] => i = j
    BY <1>3
  <2>3. \A j \in C : \E i \in B : f[i] = j
    BY <1>4
  <2> QED
    BY <2>1, <2>2, <2>3, Fun_IsBij
<1>6. ExistsBijection(B, C)
  BY <1>5 DEF ExistsBijection
<1>7. Cardinality(C) = Cardinality(B)
  BY <1>2, <1>6, FS_Bijection
<1>8. Cardinality(C) = IF 1 \in A THEN Cardinality(A) - 1 ELSE Cardinality(A)
  BY <1>2, FS_RemoveElement
<1>9. 1 \in A <=> Head(s) = m
  BY <1>1
<1>10. Count(s, m) = Cardinality(A) /\ Count(Tail(s), m) = Cardinality(B)
  BY DEF Count
<1>11. Cardinality(A) \in Nat
  BY <1>2, FS_CardinalityType
<1> HIDE DEF A, B, C
<1> QED
  BY <1>7, <1>8, <1>9, <1>10, <1>11

\* An empty queue holds nothing.
LEMMA CountEmpty == \A m : Count(<<>>, m) = 0
<1> SUFFICES ASSUME NEW m PROVE Count(<<>>, m) = 0
  OBVIOUS
<1>1. {i \in DOMAIN <<>> : <<>>[i] = m} = {}
  OBVIOUS
<1> QED
  BY <1>1, FS_EmptySet DEF Count

\* The reader has an answer to the call in its hands.
Held(c) ==
    IF \/ readerPc = "lookup" /\ readerMsg = c
       \/ readerPc \in {"store", "send"} /\ readerCall = c
    THEN 1 ELSE 0

\* The call has left its select with an answer.
Taken(c) ==
    IF callPc[c] \in {"release", "returned"} /\ err[c] = "nil"
         /\ c \notin doneClosed
    THEN 1 ELSE 0

\* Each answer is in one place at most, and a call that took none of the
\* other two ways out has used one up.
AnswersCounted ==
    \A c \in Calls : Count(out, c) + Held(c) + Taken(c) <= replies[c]

\* A call that is under way has no error yet.
NoEarlyError ==
    \A c \in Calls :
        callPc[c] \in {"idle", "register", "wait"} => err[c] = "nil"

\* A call that could not publish is never answered.
WriteErrorsUnsent ==
    \A c \in Calls : err[c] = "write" => callPc[c] = "returned"
                                          /\ c \notin requests

CountInv ==
    PlainConserved /\ AnswersCounted /\ NoEarlyError /\ WriteErrorsUnsent

LEMMA InitCount == Init => CountInv
<1> SUFFICES ASSUME Init PROVE CountInv
  OBVIOUS
<1>1. out = <<>> /\ \A m : Count(out, m) = 0
  BY CountEmpty DEF Init
<1>2. \A c \in Calls : Held(c) = 0 /\ Taken(c) = 0 /\ replies[c] = 0
  BY DEF Init, Held, Taken
<1>3. AnswersCounted
  BY <1>1, <1>2 DEF AnswersCounted
<1>4. PlainConserved /\ NoEarlyError /\ WriteErrorsUnsent
  BY <1>1 DEF Init, PlainConserved, NoEarlyError, WriteErrorsUnsent
<1> QED
  BY <1>3, <1>4 DEF CountInv

\* The steps that leave the queue alone: an answer moves from the reader to
\* its call, or is thrown away.
LEMMA CountQuiet ==
    ASSUME IInv, CountInv, out' = out,
           \/ \E c \in Calls : DoRPC(c)
           \/ Reader
           \/ \E k \in Closers : Close(k)
           \/ LoseConnection
    PROVE  CountInv'
<1> USE DEF callVars, readerVars, closeVars, linkVars, gatewayVars
<1>0. /\ TypeOK /\ ReaderHolds /\ RequestsAreCalls
      /\ \A m : Count(out', m) = Count(out, m)
      /\ \A c \in Calls : Count(out, c) \in Nat
  BY CountType DEF IInv, TypeOK
<1>1. PlainConserved'
  <2>1. plainSent' = plainSent /\ (outOpen' => outOpen)
    BY DEF DoRPC, Publish, PublishFails, Register, WakeByClose, Timeout,
           Release, Reader, CheckContext, ReadCancelled, ReadMessage,
           ReadClosed, Lookup, StoreReply, Deliver, SendOnClosed, Close, Stop,
           CloseCalls, CloseOut, CloseIn, LoseConnection
  <2>2. ~ReadMessage
    BY <1>0 DEF ReadMessage, TypeOK
  <2>3. applied' = applied
    BY <2>2
       DEF DoRPC, Publish, PublishFails, Register, WakeByClose, Timeout,
           Release, Reader, CheckContext, ReadCancelled, ReadClosed, Lookup,
           StoreReply, Deliver, SendOnClosed, Close, Stop, CloseCalls,
           CloseOut, CloseIn, LoseConnection
  <2> QED
    BY <1>0, <2>1, <2>3 DEF CountInv, PlainConserved
<1>2. NoEarlyError' /\ WriteErrorsUnsent'
  <2> USE DEF CountInv, NoEarlyError, WriteErrorsUnsent, TypeOK, Goto
  <2>1. ASSUME NEW d \in Calls, DoRPC(d)
        PROVE  NoEarlyError' /\ WriteErrorsUnsent'
    <3>1. CASE Publish(d)
      BY <1>0, <3>1 DEF Publish
    <3>2. CASE PublishFails(d)
      BY <1>0, <3>2 DEF PublishFails, RequestsAreCalls
    <3>3. CASE Register(d) \/ WakeByClose(d) \/ Timeout(d) \/ Release(d)
      BY <1>0, <3>3 DEF Register, WakeByClose, Timeout, Release
    <3> QED
      BY <2>1, <3>1, <3>2, <3>3 DEF DoRPC
  <2>2. CASE Reader
    BY <1>0, <2>2
       DEF Reader, CheckContext, ReadCancelled, ReadMessage, ReadClosed,
           Lookup, StoreReply, Deliver, SendOnClosed
  <2>3. CASE (\E k \in Closers : Close(k)) \/ LoseConnection
    BY <1>0, <2>3
       DEF Close, Stop, CloseCalls, CloseOut, CloseIn, LoseConnection
  <2> QED
    BY <2>1, <2>2, <2>3
<1>3. ASSUME NEW c \in Calls
      PROVE  /\ Held(c)' + Taken(c)' <= Held(c) + Taken(c)
             /\ replies'[c] = replies[c]
  <2> USE DEF Held, Taken
  <2>1. CASE \E d \in Calls : DoRPC(d)
    <3>1. err[c] = "nil" \/ callPc[c] \notin {"idle", "register", "wait"}
      BY DEF CountInv, NoEarlyError
    <3> QED
      BY <1>0, <2>1, <3>1
         DEF TypeOK, Goto, DoRPC, Publish, PublishFails, Register, WakeByClose,
             Timeout, Release
  <2>2. CASE Reader
    BY <1>0, <2>2
       DEF TypeOK, ReaderHolds, Goto, Reader, CheckContext, ReadCancelled,
           ReadMessage, ReadClosed, Lookup, StoreReply, Deliver, SendOnClosed
  <2>3. CASE \E k \in Closers : Close(k)
    BY <1>0, <2>3 DEF TypeOK, Close, Stop, CloseCalls, CloseOut, CloseIn
  <2>4. CASE LoseConnection
    BY <2>4 DEF LoseConnection
  <2> QED
    BY <2>1, <2>2, <2>3, <2>4
<1>4. \A c \in Calls : /\ Held(c) \in Nat /\ Taken(c) \in Nat
                       /\ Held(c)' \in Nat /\ Taken(c)' \in Nat
                       /\ replies[c] \in Nat
  BY <1>0 DEF Held, Taken, TypeOK
<1>5. AnswersCounted'
  BY <1>0, <1>3, <1>4 DEF CountInv, AnswersCounted
<1> QED
  BY <1>1, <1>2, <1>5 DEF CountInv

\* The reader takes the first message from the queue.
LEMMA CountRead ==
    ASSUME IInv, CountInv, ReadMessage
    PROVE  CountInv'
<1> USE DEF callVars, readerVars, closeVars, linkVars, gatewayVars
<1>0. TypeOK
  BY DEF IInv
<1>1. /\ out \in Seq(Message) /\ out # <<>> /\ out' = Tail(out)
      /\ out' \in Seq(Message)
  BY <1>0 DEF ReadMessage, TypeOK
<1>2. \A m : /\ Count(out, m) = IF Head(out) = m THEN Count(out', m) + 1
                                ELSE Count(out', m)
             /\ Count(out', m) \in Nat
  BY <1>1, CountTail, CountType
<1>3. PlainConserved'
  BY <1>0, <1>2, RpcAssumption
     DEF ReadMessage, CountInv, PlainConserved, TypeOK
<1>4. ASSUME NEW c \in Calls
      PROVE  /\ Held(c) = 0 /\ Taken(c)' = Taken(c)
             /\ Held(c)' = IF Head(out) = c THEN 1 ELSE 0
  BY <1>0, RpcAssumption DEF ReadMessage, Held, Taken, TypeOK
<1>5. AnswersCounted'
  <2> SUFFICES ASSUME NEW c \in Calls
               PROVE  Count(out', c) + Held(c)' + Taken(c)' <= replies'[c]
    BY DEF AnswersCounted
  <2>1. Count(out, c) + Held(c) + Taken(c) <= replies[c] /\ replies' = replies
    BY DEF CountInv, AnswersCounted, ReadMessage
  <2>2. Taken(c) \in Nat /\ replies[c] \in Nat
    BY <1>0 DEF Taken, TypeOK
  <2> QED
    BY <1>2, <1>4, <2>1, <2>2
<1>6. NoEarlyError' /\ WriteErrorsUnsent'
  BY DEF ReadMessage, CountInv, NoEarlyError, WriteErrorsUnsent
<1> QED
  BY <1>3, <1>5, <1>6 DEF CountInv

\* The gateway publishes, or the queue is given up.
LEMMA CountBroker ==
    ASSUME IInv, CountInv, Broker, ~LoseConnection
    PROVE  CountInv'
<1> USE DEF callVars, readerVars, closeVars, linkVars, gatewayVars
<1>0. /\ TypeOK /\ out \in Seq(Message)
      /\ \A m : Count(out, m) \in Nat
  BY CountType DEF IInv, TypeOK
<1>1. /\ \A c \in Calls : Held(c)' = Held(c) /\ Taken(c)' = Taken(c)
      /\ \A c \in Calls : Held(c) \in Nat /\ Taken(c) \in Nat
      /\ applied' = applied /\ outOpen' = outOpen
      /\ NoEarlyError' /\ WriteErrorsUnsent'
  BY DEF Broker, Reply, SendPlain, SendMalformed, LoseConnection, DropInFlight,
         Held, Taken, CountInv, NoEarlyError, WriteErrorsUnsent
<1>2. ASSUME NEW d \in Calls, Reply(d) PROVE CountInv'
  <2>1. /\ out' = Append(out, d) /\ d \in Message /\ plainSent' = plainSent
        /\ replies' = [replies EXCEPT ![d] = @ + 1]
    BY <1>2 DEF Reply, Message
  <2>2. \A m : Count(out', m)
                 = IF d = m THEN Count(out, m) + 1 ELSE Count(out, m)
    BY <1>0, <2>1, CountAppend
  <2>3. PlainConserved'
    BY <1>0, <1>1, <2>1, <2>2, RpcAssumption DEF CountInv, PlainConserved
  <2>4. ASSUME NEW c \in Calls
        PROVE  Count(out', c) + Held(c)' + Taken(c)' <= replies'[c]
    <3>1. /\ Count(out, c) + Held(c) + Taken(c) <= replies[c]
          /\ Count(out, c) \in Nat /\ Held(c) \in Nat /\ Taken(c) \in Nat
          /\ replies[c] \in Nat
          /\ replies'[c] = IF c = d THEN replies[c] + 1 ELSE replies[c]
      BY <1>0, <1>1, <2>1 DEF CountInv, AnswersCounted, TypeOK
    <3> QED
      BY <1>1, <2>2, <3>1
  <2> QED
    BY <1>1, <2>3, <2>4 DEF CountInv, AnswersCounted
<1>3. CASE SendPlain \/ SendMalformed
  <2>1. PICK x \in {Plain, Malformed} :
            /\ out' = Append(out, x)
            /\ plainSent' = IF x = Plain THEN plainSent + 1 ELSE plainSent
            /\ replies' = replies
    BY <1>3, RpcAssumption DEF SendPlain, SendMalformed
  <2>2. \A m : Count(out', m)
                 = IF x = m THEN Count(out, m) + 1 ELSE Count(out, m)
    BY <1>0, <2>1, CountAppend DEF Message
  <2>3. PlainConserved'
    BY <1>0, <1>1, <2>1, <2>2 DEF CountInv, PlainConserved, TypeOK
  <2>4. AnswersCounted'
    BY <1>1, <2>1, <2>2, RpcAssumption DEF CountInv, AnswersCounted
  <2> QED
    BY <1>1, <2>3, <2>4 DEF CountInv
<1>4. CASE DropInFlight
  <2>1. /\ out' = <<>> /\ ~outOpen /\ replies' = replies
        /\ \A m : Count(out', m) = 0
    BY <1>4, CountEmpty DEF DropInFlight
  <2>2. AnswersCounted'
    BY <1>0, <1>1, <2>1 DEF CountInv, AnswersCounted, TypeOK
  <2> QED
    BY <1>1, <2>1, <2>2 DEF CountInv, PlainConserved
<1> QED
  BY <1>2, <1>3, <1>4 DEF Broker

LEMMA NextCount == IInv /\ CountInv /\ [Next]_vars => CountInv'
<1> SUFFICES ASSUME IInv, CountInv, [Next]_vars PROVE CountInv'
  OBVIOUS
<1>1. CASE ReadMessage
  BY <1>1, CountRead
<1>2. CASE Broker /\ ~LoseConnection
  BY <1>2, CountBroker
<1>3. CASE Next /\ ~ReadMessage /\ (~Broker \/ LoseConnection)
  <2>1. out' = out
    BY <1>3
       DEF Next, DoRPC, Publish, PublishFails, Register, WakeByClose, Timeout,
           Release, Reader, CheckContext, ReadCancelled, ReadClosed, Lookup,
           StoreReply, Deliver, SendOnClosed, Close, Stop, CloseCalls,
           CloseOut, CloseIn, LoseConnection
  <2> QED
    BY <1>3, <2>1, CountQuiet DEF Next
<1>4. CASE UNCHANGED vars
  BY <1>4 DEF vars, callVars, readerVars, closeVars, linkVars, gatewayVars,
              CountInv, PlainConserved, AnswersCounted, NoEarlyError,
              WriteErrorsUnsent, Held, Taken
<1> QED
  BY <1>1, <1>2, <1>3, <1>4

LEMMA Counting == Spec => [](IInv /\ CountInv)
  BY InitIInv, NextIInv, InitCount, NextCount, PTL DEF Spec

\* While the output queue is open each message without correlation id is
\* waiting or has been handed to ApplyLogic once (Start), for any traffic.
THEOREM PlainsConserved == Spec => []PlainConserved
<1>1. CountInv => PlainConserved
  BY DEF CountInv
<1> QED
  BY Counting, <1>1, PTL

\* The reader blocks on a call that listens no more only after a timeout, a
\* second answer or a Close (Start, DoRPC), for any number of calls.
THEOREM BlockedExplained == Spec => []BlockedReaderExplained
<1>1. IInv /\ CountInv => BlockedReaderExplained
  <2> SUFFICES ASSUME IInv, CountInv, readerPc = "send",
                      callPc[readerCall] # "wait",
                      err[readerCall] # "timeout",
                      readerCall \notin doneClosed
               PROVE  replies[readerCall] > 1
    BY DEF BlockedReaderExplained
  <2>1. /\ readerCall \in Calls /\ replies[readerCall] > 0
        /\ callPc[readerCall] \in {"release", "returned"}
        /\ err[readerCall] \in {"nil", "write"}
        /\ replies[readerCall] \in Nat
        /\ Count(out, readerCall) \in Nat
    BY CountType DEF IInv, ReaderHolds, TypeOK
  <2>2. err[readerCall] = "nil"
    BY <2>1 DEF CountInv, WriteErrorsUnsent, IInv, AnsweredWereSent
  <2>3. Held(readerCall) = 1 /\ Taken(readerCall) = 1
    BY <2>1, <2>2 DEF Held, Taken
  <2> QED
    BY <2>1, <2>3 DEF CountInv, AnswersCounted
<1> QED
  BY Counting, <1>1, PTL
-----------------------------------------------------------------------------
(* DoRPC keeps its promise.                                                *)

\* The initial states map to the initial state of the promise.
LEMMA InitPromise == Init => Promise!Init
<1> SUFFICES ASSUME Init PROVE Promise!Init
  OBVIOUS
<1>1. [c \in Calls |-> Phase(c)] = [c \in Calls |-> "idle"]
  BY DEF Init, Phase
<1>2. {c \in Calls : replies[c] > 0} = {}
  BY DEF Init
<1> QED
  BY <1>1, <1>2 DEF Init, Promise!Init

\* Steps that neither change the phase of a call nor answer one, nor cancel
\* the context, nor set a result are invisible.
LEMMA Invisible ==
    ASSUME TypeOK, callPc' = callPc, replies' = replies, ctxDone' = ctxDone,
           response' = response, err' = err
    PROVE  UNCHANGED Promise!vars
  BY DEF Promise!vars, Phase

\* Every step of DoRPC is a step of the promise or invisible.
LEMMA DoRPCPromise ==
    ASSUME NEW c \in Calls, IInv, DoRPC(c)
    PROVE  [Promise!Next]_(Promise!vars)
<1> DEFINE P == [d \in Calls |-> Phase(d)]
<1>0. /\ TypeOK /\ OwnReplies /\ NoEarlyResponse /\ ClosedAfterCancel
  BY DEF IInv
<1>1. CASE Publish(c)
  <2>1. P[c] = "idle" /\ P' = [P EXCEPT ![c] = "active"]
    BY <1>0, <1>1 DEF Publish, Goto, Phase, TypeOK
  <2>2. Promise!Invoke(c)
    BY <1>1, <2>1 DEF Publish, closeVars, Promise!Invoke
  <2> QED
    BY <2>2 DEF Promise!Next
<1>2. CASE PublishFails(c)
  <2>1. P[c] = "idle" /\ P' = [P EXCEPT ![c] = "returned"]
    BY <1>0, <1>2 DEF PublishFails, Goto, Phase, TypeOK
  <2>2. Promise!Refuse(c)
    BY <1>2, <2>1 DEF PublishFails, closeVars, gatewayVars, Promise!Refuse
  <2> QED
    BY <2>2 DEF Promise!Next
<1>3. CASE Register(c)
  <2>1. P' = P
    BY <1>0, <1>3 DEF Register, Goto, Phase, TypeOK
  <2> QED
    BY <1>3, <2>1 DEF Register, closeVars, gatewayVars, Promise!vars
<1>4. CASE WakeByClose(c)
  <2>1. P[c] = "active" /\ P' = [P EXCEPT ![c] = "returned"]
    BY <1>0, <1>4 DEF WakeByClose, Goto, Phase, TypeOK
  <2>2. ctxDone
    BY <1>0, <1>4 DEF WakeByClose, ClosedAfterCancel
  <2>3. CASE data[c] = Nil
    <3>1. response' = response
      BY <1>0, <1>4, <2>3 DEF WakeByClose, Goto, NoEarlyResponse, TypeOK
    <3>2. Promise!Return(c)
      BY <1>4, <2>1, <2>2, <3>1
         DEF WakeByClose, closeVars, gatewayVars, Promise!Return
    <3> QED
      BY <3>2 DEF Promise!Next
  <2>4. CASE data[c] # Nil
    <3>1. c \in {d \in Calls : replies[d] > 0} /\ data[c] = c
      BY <1>0, <2>4 DEF OwnReplies
    <3>2. Promise!Return(c)
      BY <1>4, <2>1, <3>1
         DEF WakeByClose, closeVars, gatewayVars, Promise!Return
    <3> QED
      BY <3>2 DEF Promise!Next
  <2> QED
    BY <2>3, <2>4
<1>5. CASE Timeout(c)
  <2>1. P[c] = "active" /\ P' = [P EXCEPT ![c] = "returned"]
    BY <1>0, <1>5 DEF Timeout, Goto, Phase, TypeOK
  <2>2. Promise!Return(c)
    BY <1>5, <2>1 DEF Timeout, closeVars, gatewayVars, Promise!Return
  <2> QED
    BY <2>2 DEF Promise!Next
<1>6. CASE Release(c)
  <2>1. P' = P
    BY <1>0, <1>6 DEF Release, Goto, Phase, TypeOK
  <2> QED
    BY <1>6, <2>1 DEF Release, closeVars, gatewayVars, Promise!vars
<1> QED
  BY <1>1, <1>2, <1>3, <1>4, <1>5, <1>6 DEF DoRPC

\* Of the reader's steps only Deliver is visible: it returns the reply to
\* the call that asked for it.
LEMMA ReaderPromise ==
    ASSUME IInv, Reader
    PROVE  [Promise!Next]_(Promise!vars)
<1> DEFINE P == [d \in Calls |-> Phase(d)]
<1>0. TypeOK /\ ReaderHolds
  BY DEF IInv
<1>1. CASE Deliver
  <2>1. readerCall \in Calls /\ data[readerCall] = readerCall
        /\ replies[readerCall] > 0
    BY <1>0, <1>1 DEF Deliver, ReaderHolds
  <2>2. P[readerCall] = "active" /\ P' = [P EXCEPT ![readerCall] = "returned"]
    BY <1>0, <1>1, <2>1 DEF Deliver, Goto, Phase, TypeOK
  <2>3. Promise!Return(readerCall)
    BY <1>1, <2>1, <2>2
       DEF Deliver, closeVars, gatewayVars, Promise!Return
  <2> QED
    BY <2>1, <2>3 DEF Promise!Next
<1>2. ASSUME ~Deliver PROVE UNCHANGED Promise!vars
  BY <1>0, <1>2, Invisible
     DEF Reader, CheckContext, ReadCancelled, ReadMessage, ReadClosed, Lookup,
         StoreReply, SendOnClosed, callVars, closeVars, gatewayVars
<1> QED
  BY <1>1, <1>2

\* Of the other steps, Stop and the gateway's answers are visible.
LEMMA ClosePromise ==
    ASSUME NEW k \in Closers, IInv, Close(k)
    PROVE  [Promise!Next]_(Promise!vars)
<1>0. TypeOK
  BY DEF IInv
<1>1. CASE Stop(k)
  <2>1. Promise!Stop
    BY <1>1 DEF Stop, callVars, gatewayVars, Phase, Promise!Stop
  <2> QED
    BY <2>1 DEF Promise!Next
<1>2. ASSUME ~Stop(k) PROVE UNCHANGED Promise!vars
  BY <1>0, <1>2, Invisible
     DEF Close, CloseCalls, CloseOut, CloseIn, callVars, closeVars, gatewayVars
<1> QED
  BY <1>1, <1>2

LEMMA BrokerPromise ==
    ASSUME IInv, Broker
    PROVE  [Promise!Next]_(Promise!vars)
<1>0. TypeOK /\ RequestsAreCalls
  BY DEF IInv
<1>1. ASSUME NEW c \in Calls, Reply(c) PROVE Promise!Answer(c)
  <2>1. Phase(c) # "idle"
    BY <1>0, <1>1 DEF Reply, RequestsAreCalls, Phase, TypeOK
  <2>2. {d \in Calls : replies'[d] > 0}
          = {d \in Calls : replies[d] > 0} \cup {c}
    BY <1>0, <1>1 DEF Reply, TypeOK
  <2> QED
    BY <1>1, <2>1, <2>2 DEF Reply, callVars, closeVars, Phase, Promise!Answer
<1>2. ASSUME \A c \in Calls : ~Reply(c) PROVE UNCHANGED Promise!vars
  BY <1>0, <1>2, Invisible
     DEF Broker, SendPlain, SendMalformed, LoseConnection, DropInFlight,
         callVars, closeVars, gatewayVars
<1> QED
  BY <1>1, <1>2 DEF Promise!Next

\* However a call races with the reader, with Close and with lost, late or
\* repeated replies, DoRPC returns the answer to its own request, a timeout,
\* a write error, or, only when the channel is closing, nothing.
THEOREM Refinement == Spec => KeepsPromise
<1>1. IInv /\ [Next]_vars => [Promise!Next]_(Promise!vars)
  <2> SUFFICES ASSUME IInv, [Next]_vars PROVE [Promise!Next]_(Promise!vars)
    OBVIOUS
  <2>1. CASE Next
    BY <2>1, DoRPCPromise, ReaderPromise, ClosePromise, BrokerPromise DEF Next
  <2>2. CASE UNCHANGED vars
    BY <2>2, Invisible DEF IInv, vars, callVars, closeVars, gatewayVars
  <2> QED
    BY <2>1, <2>2
<1> QED
  BY InitPromise, Inductive, <1>1, PTL DEF Spec, KeepsPromise, Promise!Spec
=============================================================================
