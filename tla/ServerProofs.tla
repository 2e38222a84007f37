---------------------------- MODULE ServerProofs ----------------------------
(***************************************************************************)
(* Proofs about Server for any gateways, requests, lists of gateways and   *)
(* number of channels: its type correctness, that an error means that      *)
(* nothing was started, that a "switch" command reaches every gateway that *)
(* stays connected, and what a Stop without error promises.                *)
(***************************************************************************)
EXTENDS Server, TLAPS

\* Channels are numbered as they are built, and only the stored one is open.
ChannelsNumbered ==
    /\ \A g \in Gateways : stored[g] <= built[g]
    /\ \A ch \in open : stored[ch[1]] = ch[2]

\* What a request has started, it has found a channel for.
Book(r) ==
    /\ pc[r] \in {"use", "rpc"} => reqCh[r] # 0 /\ gwFound[r]
    /\ pc[r] = "rpc" => command[r] = "configure"
    /\ Started(r) # {} => /\ pc[r] # "idle" /\ gwFound[r]
                          /\ command[r] \in {"switch", "setRecording"}
    /\ \A g \in Gateways : seen[r][g] <= built[g]

Seen(r, g) == <<g, seen[r][g]>>

\* A "switch" command has dealt with the first gateways of its list, and has
\* the rest to do.
Walk(r) ==
    pc[r] # "idle" /\ command[r] = "switch" =>
        /\ Len(todo[r]) <= Len(list[r])
        /\ \A j \in 1..Len(todo[r]) :
              todo[r][j] = list[r][Len(list[r]) - Len(todo[r]) + j]
        /\ pc[r] = "answered" => todo[r] = <<>>
        /\ pc[r] = "use" /\ Seen(r, Head(todo[r])) \in open =>
              reqCh[r] = seen[r][Head(todo[r])]
        /\ \A i \in 1..(Len(list[r]) - Len(todo[r])) :
              Seen(r, list[r][i]) \in open =>
                  <<r, Seen(r, list[r][i])>> \in tasks \cup sent

\* Stop was called on a server that had started, or has returned an error.
StopOrder == mainPc = "draining" => srv = "shutdown"

IInv ==
    /\ TypeOK
    /\ ChannelsNumbered
    /\ \A r \in Requests : Book(r) /\ Walk(r)
    /\ ErrorMeansNothingDone
    /\ StopOrder
    /\ GracefulStop

\* TypeOK in parts: a step leaves most of them alone.
WorldType ==
    /\ process \in {"running", "exited", "fatal", "panic"}
    /\ mainPc \in {"serve", "closing", "stopping", "draining", "stopped",
                   "returned"}
    /\ srv \in {"unset", "listening", "shutdown"}
    /\ stopErr \in BOOLEAN
    /\ built \in [Gateways -> 0..MaxChannels]
    /\ stored \in [Gateways -> 0..MaxChannels]
    /\ open \subseteq Gateways \X (1..MaxChannels)
    /\ toClose \subseteq Gateways \X (1..MaxChannels)

InputType ==
    /\ command \in [Requests -> Commands]
    /\ list \in [Requests -> Seq(Gateways)]
    /\ seen \in [Requests -> [Gateways -> 0..MaxChannels]]

LoopType ==
    /\ pc \in [Requests -> {"idle", "lookup", "use", "rpc", "answered"}]
    /\ todo \in [Requests -> Seq(Gateways)]
    /\ \A r \in Requests : pc[r] \in {"use", "rpc"} => todo[r] # <<>>
    /\ reqCh \in [Requests -> 0..MaxChannels]
    /\ gwFound \in [Requests -> BOOLEAN]
    /\ response \in [Requests -> {0, 200, 400, 404, 500}]
    /\ \A r \in Requests : response[r] # 0 => pc[r] = "answered"

EffectType ==
    /\ tasks \subseteq Requests \X (Gateways \X (1..MaxChannels))
    /\ sent \subseteq Requests \X (Gateways \X (1..MaxChannels))
    /\ applied \subseteq Requests \X (Gateways \X (1..MaxChannels))

LEMMA TypeParts ==
    /\ TypeOK <=> WorldType /\ InputType /\ LoopType /\ EffectType
    /\ TypeOK' <=> WorldType' /\ InputType' /\ LoopType' /\ EffectType'
<1>1. TypeOK <=> WorldType /\ InputType /\ LoopType /\ EffectType
  BY DEF TypeOK, WorldType, InputType, LoopType, EffectType
<1>2. TypeOK' <=> WorldType' /\ InputType' /\ LoopType' /\ EffectType'
  BY DEF TypeOK, WorldType, InputType, LoopType, EffectType
<1> QED
  BY <1>1, <1>2

USE ServerAssumption
USE DEF mainVars, chanVars, inputVars, loopVars, effectVars, reqVars
-----------------------------------------------------------------------------
(* The lists.                                                              *)

\* What is left of a list is again a list.
LEMMA HeadTail ==
    ASSUME NEW s \in Seq(Gateways), s # <<>>
    PROVE  /\ Head(s) \in Gateways /\ Tail(s) \in Seq(Gateways)
           /\ Head(s) = s[1]
           /\ Len(s) \in Nat /\ Len(s) > 0 /\ Len(Tail(s)) = Len(s) - 1
           /\ \A j \in 1..Len(Tail(s)) : Tail(s)[j] = s[j + 1]
  OBVIOUS

LEMMA Difference ==
    ASSUME NEW a \in Nat, NEW b \in Nat
    PROVE  /\ b <= a => a - b \in Nat /\ a = (a - b) + b
           /\ \A n \in Nat : a = n + b => a - b = n /\ b <= a
  OBVIOUS

\* The tail of the end of a list is the end of that list, one shorter.
LEMMA EndOfList ==
    ASSUME NEW l \in Seq(Gateways), NEW s \in Seq(Gateways), s # <<>>,
           NEW n \in Nat, Len(l) = n + Len(s),
           \A j \in 1..Len(s) : s[j] = l[n + j]
    PROVE  /\ Len(l) = (n + 1) + Len(Tail(s)) /\ Head(s) = l[n + 1]
           /\ \A j \in 1..Len(Tail(s)) : Tail(s)[j] = l[(n + 1) + j]
<1>1. /\ Head(s) = s[1]
      /\ Len(s) \in Nat /\ Len(s) > 0 /\ Len(Tail(s)) = Len(s) - 1
      /\ \A j \in 1..Len(Tail(s)) : Tail(s)[j] = s[j + 1]
  BY HeadTail
<1>2. Len(l) = (n + 1) + Len(Tail(s)) /\ Head(s) = l[n + 1]
  BY <1>1
<1>3. ASSUME NEW j \in 1..Len(Tail(s)) PROVE Tail(s)[j] = l[(n + 1) + j]
  <2>1. j + 1 \in 1..Len(s) /\ n + (j + 1) = (n + 1) + j
    BY <1>1
  <2> QED
    BY <1>1, <2>1
<1> QED
  BY <1>2, <1>3

LEMMA HeadIsGateway ==
    ASSUME TypeOK, NEW r \in Requests, pc[r] \in {"use", "rpc"}
    PROVE  Head(todo[r]) \in Gateways
  BY HeadTail DEF TypeOK
-----------------------------------------------------------------------------
(* Gateways.                                                               *)

\* Channels are opened and closed; none that a request has seen is opened.
LEMMA ChannelsIInv ==
    ASSUME IInv, ChannelsNumbered',
           UNCHANGED <<process, srv, reqVars, effectVars, stopErr>>,
           built' \in [Gateways -> 0..MaxChannels],
           stored' \in [Gateways -> 0..MaxChannels],
           open' \subseteq Gateways \X (1..MaxChannels),
           toClose' \subseteq Gateways \X (1..MaxChannels),
           mainPc' # mainPc => mainPc' \in {"closing", "stopping"},
           \A g \in Gateways : built'[g] >= built[g],
           \A g \in Gateways, n \in 1..MaxChannels :
              <<g, n>> \in open' /\ <<g, n>> \notin open => n > built[g]
    PROVE  IInv'
<1> USE DEF IInv
<1>1. TypeOK'
  <2>0. WorldType /\ InputType /\ LoopType /\ EffectType
    BY TypeParts DEF IInv
  <2>1. WorldType'
    BY <2>0 DEF WorldType
  <2>2. InputType'
    BY <2>0 DEF InputType
  <2>3. LoopType'
    BY <2>0 DEF LoopType
  <2>4. EffectType'
    BY <2>0 DEF EffectType
  <2> QED
    BY <2>1, <2>2, <2>3, <2>4, TypeParts
<1>2. ASSUME NEW r \in Requests PROVE Book(r)'
  BY DEF Book, Started, TypeOK
<1>3. ASSUME NEW r \in Requests, NEW g \in Gateways, Seen(r, g)' \in open'
      PROVE  Seen(r, g) \in open /\ Seen(r, g)' = Seen(r, g)
  <2>1. Seen(r, g)' = Seen(r, g) /\ seen[r][g] \in 1..MaxChannels
    BY <1>3 DEF Seen
  <2>2. seen[r][g] <= built[g]
    BY DEF Book
  <2>3. built[g] \in 0..MaxChannels
    BY DEF TypeOK
  <2> QED
    BY <1>3, <2>1, <2>2, <2>3 DEF Seen
<1>4. ASSUME NEW r \in Requests PROVE Walk(r)'
  <2>1. \A i \in 1..Len(list[r]) : list[r][i] \in Gateways
    BY DEF TypeOK
  <2>2. pc[r] = "use" => Head(todo[r]) \in Gateways
    BY HeadIsGateway
  <2>3. Len(list[r]) \in Nat /\ Len(todo[r]) \in Nat
    BY DEF TypeOK
  <2>4. SUFFICES ASSUME pc[r] # "idle", command[r] = "switch"
                 PROVE  Walk(r)'
    BY DEF Walk
  <2>5. pc[r] = "use" /\ Seen(r, Head(todo[r]))' \in open' =>
            reqCh[r] = seen[r][Head(todo[r])]
    BY <1>3, <2>2, <2>4 DEF Walk
  <2>6. \A i \in 1..(Len(list[r]) - Len(todo[r])) :
            Seen(r, list[r][i])' \in open' =>
                <<r, Seen(r, list[r][i])'>> \in tasks \cup sent
    <3> SUFFICES ASSUME NEW i \in 1..(Len(list[r]) - Len(todo[r])),
                        Seen(r, list[r][i])' \in open'
                 PROVE  <<r, Seen(r, list[r][i])'>> \in tasks \cup sent
      OBVIOUS
    <3>1. list[r][i] \in Gateways
      BY <2>1, <2>3
    <3> QED
      BY <1>3, <3>1, <2>4 DEF Walk
  <2> QED
    BY <2>4, <2>5, <2>6 DEF Walk
<1>5. ErrorMeansNothingDone'
  BY DEF ErrorMeansNothingDone, Started
<1>6. StopOrder' /\ GracefulStop'
  BY DEF StopOrder, GracefulStop, Active
<1> QED
  BY <1>1, <1>2, <1>4, <1>5, <1>6
-----------------------------------------------------------------------------
(* Requests.                                                               *)

\* A step of one request leaves what holds of the others alone.
LEMMA RequestIInv ==
    ASSUME IInv, NEW r \in Requests,
           UNCHANGED <<process, srv, mainVars, chanVars>>,
           TypeOK', Book(r)', Walk(r)',
           response'[r] \in {400, 404} => Started(r)' = {},
           \/ pc'[r] \in {"idle", "answered"}
           \/ pc[r] \notin {"idle", "answered"}
           \/ srv = "listening",
           \A q \in Requests \ {r} :
              /\ pc'[q] = pc[q] /\ command'[q] = command[q]
              /\ list'[q] = list[q] /\ seen'[q] = seen[q]
              /\ todo'[q] = todo[q] /\ reqCh'[q] = reqCh[q]
              /\ gwFound'[q] = gwFound[q] /\ response'[q] = response[q],
           \A t : t \in tasks' /\ t[1] # r <=> t \in tasks /\ t[1] # r,
           \A t : t \in sent' /\ t[1] # r <=> t \in sent /\ t[1] # r,
           \A t : t \in applied' /\ t[1] # r <=> t \in applied /\ t[1] # r
    PROVE  IInv'
<1> USE DEF IInv
<1>1. ASSUME NEW q \in Requests \ {r} PROVE Started(q)' = Started(q)
  BY <1>1 DEF Started
<1>2. ASSUME NEW q \in Requests \ {r} PROVE Book(q)'
  BY <1>1, <1>2 DEF Book
<1>3. ASSUME NEW q \in Requests \ {r} PROVE Walk(q)'
  <2>1. \A x : <<q, x>> \in tasks \cup sent
                  <=> <<q, x>> \in tasks' \cup sent'
    OBVIOUS
  <2>2. UNCHANGED open /\ seen'[q] = seen[q]
    OBVIOUS
  <2>3. /\ pc'[q] = pc[q] /\ command'[q] = command[q]
        /\ list'[q] = list[q] /\ todo'[q] = todo[q] /\ reqCh'[q] = reqCh[q]
    OBVIOUS
  <2>4. SUFFICES ASSUME pc[q] # "idle", command[q] = "switch"
                 PROVE  Walk(q)'
    BY <2>3 DEF Walk
  <2>5. /\ Len(todo[q]) <= Len(list[q])
        /\ \A j \in 1..Len(todo[q]) :
              todo[q][j] = list[q][Len(list[q]) - Len(todo[q]) + j]
        /\ pc[q] = "answered" => todo[q] = <<>>
    BY <2>4 DEF Walk
  <2>6. pc[q] = "use" /\ Seen(q, Head(todo[q])) \in open =>
            reqCh[q] = seen[q][Head(todo[q])]
    BY <2>4 DEF Walk
  <2>7. \A i \in 1..(Len(list[q]) - Len(todo[q])) :
            Seen(q, list[q][i]) \in open =>
                <<q, Seen(q, list[q][i])>> \in tasks' \cup sent'
    BY <2>1, <2>4 DEF Walk
  <2> HIDE DEF IInv
  <2> QED
    BY <2>2, <2>3, <2>5, <2>6, <2>7, ZenonT(30) DEF Walk, Seen
<1>4. ErrorMeansNothingDone'
  BY <1>1 DEF ErrorMeansNothingDone
<1>5. GracefulStop'
  <2>1. pc[r] \notin {"idle", "answered"} => r \in Active
    BY DEF Active
  <2>2. Active = {} => \A q \in Requests \ {r} : q \notin Active'
    BY DEF Active
  <2>3. Active' \subseteq Requests /\ (r \in Active' =>
                                        pc'[r] \notin {"idle", "answered"})
    BY DEF Active
  <2> QED
    BY <2>1, <2>2, <2>3 DEF GracefulStop
<1>6. ChannelsNumbered' /\ StopOrder'
  BY DEF ChannelsNumbered, StopOrder
<1> QED
  BY <1>2, <1>3, <1>4, <1>5, <1>6
\* A request that passes to the next gateway has dealt with the one before,
\* or that one was not connected throughout.
LEMMA Advance ==
    ASSUME IInv, NEW r \in Requests, todo[r] # <<>>, pc[r] # "idle",
           UNCHANGED <<command, list, seen, open>>,
           pc'[r] = "lookup", todo'[r] = Tail(todo[r]),
           \A x : <<r, x>> \in tasks \cup sent
                    => <<r, x>> \in tasks' \cup sent',
           command[r] = "switch" /\ Seen(r, Head(todo[r])) \in open =>
              <<r, Seen(r, Head(todo[r]))>> \in tasks' \cup sent'
    PROVE  Walk(r)'
<1> SUFFICES ASSUME command[r] = "switch" PROVE Walk(r)'
  BY DEF Walk
<1>1. /\ todo[r] \in Seq(Gateways) /\ list[r] \in Seq(Gateways)
      /\ Len(list[r]) \in Nat /\ Len(todo[r]) \in Nat
  BY DEF IInv, TypeOK
<1>2. /\ Len(todo[r]) <= Len(list[r])
      /\ \A j \in 1..Len(todo[r]) :
            todo[r][j] = list[r][Len(list[r]) - Len(todo[r]) + j]
      /\ \A i \in 1..(Len(list[r]) - Len(todo[r])) :
            Seen(r, list[r][i]) \in open =>
                <<r, Seen(r, list[r][i])>> \in tasks \cup sent
  BY DEF IInv, Walk
<1>3. PICK n \in Nat : n = Len(list[r]) - Len(todo[r])
  BY <1>1, <1>2, Difference
<1>4. Len(list[r]) = n + Len(todo[r])
  BY <1>1, <1>2, <1>3, Difference
<1>5. /\ Len(list[r]) = (n + 1) + Len(Tail(todo[r]))
      /\ Head(todo[r]) = list[r][n + 1]
      /\ \A j \in 1..Len(Tail(todo[r])) :
            Tail(todo[r])[j] = list[r][(n + 1) + j]
  BY <1>1, <1>2, <1>3, <1>4, EndOfList
<1>6. Len(Tail(todo[r])) \in Nat
  BY <1>1, HeadTail
<1>7. /\ Len(list[r]) - Len(Tail(todo[r])) = n + 1
      /\ Len(Tail(todo[r])) <= Len(list[r])
  <2>1. n + 1 \in Nat
    OBVIOUS
  <2> QED
    BY <1>1, <1>5, <1>6, <2>1, Difference
<1>8. ASSUME NEW i \in 1..(n + 1), Seen(r, list[r][i]) \in open
      PROVE  <<r, Seen(r, list[r][i])>> \in tasks' \cup sent'
  <2>1. CASE i = n + 1
    BY <1>5, <1>8, <2>1
  <2>2. CASE i # n + 1
    <3>1. i \in 1..n
      BY <2>2
    <3> QED
      BY <1>2, <1>3, <1>8, <3>1
  <2> QED
    BY <2>1, <2>2
<1> QED
  BY <1>5, <1>7, <1>8 DEF Walk, Seen

\* The type of what requests work on.
LEMMA RequestType ==
    ASSUME TypeOK,
           UNCHANGED <<process, srv, mainVars, chanVars, inputVars, effectVars>>,
           pc' \in [Requests -> {"idle", "lookup", "use", "rpc", "answered"}],
           todo' \in [Requests -> Seq(Gateways)],
           reqCh' \in [Requests -> 0..MaxChannels],
           gwFound' \in [Requests -> BOOLEAN],
           response' \in [Requests -> {0, 200, 400, 404, 500}],
           \A q \in Requests : pc'[q] \in {"use", "rpc"} => todo'[q] # <<>>,
           \A q \in Requests : response'[q] # 0 => pc'[q] = "answered"
    PROVE  TypeOK'
<1>0. WorldType /\ InputType /\ EffectType
  BY TypeParts
<1>1. WorldType'
  BY <1>0 DEF WorldType
<1>2. InputType'
  BY <1>0 DEF InputType
<1>3. LoopType'
  BY DEF LoopType
<1>4. EffectType'
  BY <1>0 DEF EffectType
<1> QED
  BY <1>1, <1>2, <1>3, <1>4, TypeParts

\* What a step may do to the answer and to where a request is.
LEMMA AnswerType ==
    ASSUME TypeOK, NEW r \in Requests, NEW from,
           NEW status \in {200, 400, 404, 500},
           Answer(r, from, status)
    PROVE  /\ pc[r] = from
           /\ pc' \in [Requests -> {"idle", "lookup", "use", "rpc", "answered"}]
           /\ response' \in [Requests -> {0, 200, 400, 404, 500}]
           /\ pc'[r] = "answered" /\ response'[r] = status
           /\ \A q \in Requests \ {r} : /\ pc'[q] = pc[q]
                                         /\ response'[q] = response[q]
  BY DEF TypeOK, Answer, Goto

\* A request is answered: nothing was started if it is answered with an
\* error, and a "switch" command has no gateway left.
LEMMA AnswerIInv ==
    ASSUME IInv, NEW r \in Requests,
           NEW from \in {"lookup", "use", "rpc"},
           NEW status \in {200, 400, 404, 500},
           Answer(r, from, status),
           UNCHANGED <<process, srv, mainVars, chanVars, inputVars, loopVars,
                       effectVars>>,
           status \in {400, 404} => Started(r) = {},
           command[r] = "switch" => todo[r] = <<>>
    PROVE  IInv'
<1> USE DEF IInv
<1>0. /\ pc[r] = from
      /\ pc' \in [Requests -> {"idle", "lookup", "use", "rpc", "answered"}]
      /\ response' \in [Requests -> {0, 200, 400, 404, 500}]
      /\ pc'[r] = "answered" /\ response'[r] = status
      /\ \A q \in Requests \ {r} : /\ pc'[q] = pc[q]
                                    /\ response'[q] = response[q]
  BY AnswerType
<1>1. TypeOK'
  <2>1. ASSUME NEW q \in Requests
        PROVE  /\ pc'[q] \in {"use", "rpc"} => todo[q] # <<>>
               /\ response'[q] # 0 => pc'[q] = "answered"
    <3>1. CASE q = r
      BY <1>0, <3>1
    <3>2. CASE q # r
      <4>1. pc'[q] = pc[q] /\ response'[q] = response[q]
        BY <1>0, <3>2
      <4>2. LoopType
        BY TypeParts
      <4> HIDE DEF IInv
      <4> QED
        BY <4>1, <4>2 DEF LoopType
    <3> QED
      BY <3>1, <3>2
  <2>2. /\ todo \in [Requests -> Seq(Gateways)]
        /\ reqCh \in [Requests -> 0..MaxChannels]
        /\ gwFound \in [Requests -> BOOLEAN]
    BY DEF TypeOK
  <2> QED
    BY <1>0, <2>1, <2>2, RequestType
<1>2. Book(r)'
  BY <1>0 DEF Book, Started
<1>3. Walk(r)'
  <2> SUFFICES ASSUME command[r] = "switch" PROVE Walk(r)'
    BY DEF Walk
  <2>1. todo[r] = <<>> /\ pc[r] # "idle"
    BY <1>0
  <2>2. /\ pc'[r] = "answered" /\ command'[r] = command[r]
        /\ list'[r] = list[r] /\ todo'[r] = todo[r] /\ seen'[r] = seen[r]
        /\ UNCHANGED <<open, tasks, sent>>
    BY <1>0
  <2>3. /\ Len(todo[r]) <= Len(list[r])
        /\ \A j \in 1..Len(todo[r]) :
              todo[r][j] = list[r][Len(list[r]) - Len(todo[r]) + j]
    BY <2>1 DEF Walk
  <2>4. \A i \in 1..(Len(list[r]) - Len(todo[r])) :
            Seen(r, list[r][i]) \in open =>
                <<r, Seen(r, list[r][i])>> \in tasks' \cup sent'
    BY <2>1, <2>2 DEF Walk
  <2> HIDE DEF IInv
  <2> QED
    BY <2>1, <2>2, <2>3, <2>4, ZenonT(30) DEF Walk, Seen
<1>4. Started(r)' = Started(r)
  BY DEF Started
<1> QED
  BY <1>0, <1>1, <1>2, <1>3, <1>4, RequestIInv

LEMMA NotAnswered ==
    ASSUME TypeOK, NEW r \in Requests, pc[r] # "answered"
    PROVE  response[r] = 0
  BY DEF TypeOK

\* The commands that refuse or answer.
LEMMA AnswersIInv ==
    ASSUME IInv, NEW r \in Requests,
           Refuse(r) \/ NoChannel(r) \/ PushPanics(r) \/ Finish(r) \/ EndRpc(r)
    PROVE  IInv'
<1> USE DEF IInv
<1>1. CASE Refuse(r)
  <2>1. Started(r) = {} /\ command[r] # "switch"
    BY <1>1 DEF Refuse, Book
  <2> QED
    BY <1>1, <2>1, AnswerIInv DEF Refuse
<1>2. CASE NoChannel(r)
  <2>1. Started(r) = {} /\ command[r] # "switch"
    BY <1>2 DEF NoChannel, Book
  <2> QED
    BY <1>2, <2>1, AnswerIInv DEF NoChannel
<1>3. CASE PushPanics(r)
  BY <1>3, AnswerIInv DEF PushPanics
<1>4. CASE Finish(r)
  <2>1. ~gwFound[r] => Started(r) = {}
    BY DEF Book
  <2>2. CASE gwFound[r]
    BY <1>4, <2>2, AnswerIInv DEF Finish
  <2>3. CASE ~gwFound[r]
    BY <1>4, <2>1, <2>3, AnswerIInv DEF Finish
  <2> QED
    BY <2>2, <2>3
<1>5. CASE EndRpc(r)
  <2>1. pc[r] = "rpc"
    BY <1>5 DEF EndRpc, Answer, Goto
  <2>2. Started(r) = {} /\ command[r] # "switch"
    BY <2>1 DEF Book
  <2> QED
    BY <1>5, <2>2, AnswerIInv DEF EndRpc
<1> QED
  BY <1>1, <1>2, <1>3, <1>4, <1>5

LEMMA BeginRpcIInv ==
    ASSUME IInv, NEW r \in Requests, BeginRpc(r)
    PROVE  IInv'
<1> USE DEF IInv
<1>1. Started(r) = {} /\ command[r] = "configure" /\ pc[r] = "use"
  BY DEF BeginRpc, Book, Answer, Goto
<1>2. CASE Found(r) \notin open
  BY <1>1, <1>2, AnswerIInv DEF BeginRpc
<1>3. CASE Found(r) \in open
  <2>1. /\ pc' = [pc EXCEPT ![r] = "rpc"]
        /\ UNCHANGED <<process, srv, mainVars, chanVars, inputVars, loopVars,
                       response, effectVars>>
    BY <1>3 DEF BeginRpc, Goto
  <2>2. /\ pc' \in [Requests -> {"idle", "lookup", "use", "rpc", "answered"}]
        /\ pc'[r] = "rpc" /\ \A q \in Requests \ {r} : pc'[q] = pc[q]
    BY <2>1 DEF TypeOK
  <2>3. TypeOK'
    <3>1. ASSUME NEW q \in Requests
          PROVE  /\ pc'[q] \in {"use", "rpc"} => todo[q] # <<>>
                 /\ response[q] # 0 => pc'[q] = "answered"
      <4>1. /\ pc[q] \in {"use", "rpc"} => todo[q] # <<>>
            /\ response[q] # 0 => pc[q] = "answered"
        BY DEF TypeOK
      <4> QED
        BY <1>1, <2>2, <4>1
    <3>2. /\ todo \in [Requests -> Seq(Gateways)]
          /\ reqCh \in [Requests -> 0..MaxChannels]
          /\ gwFound \in [Requests -> BOOLEAN]
          /\ response \in [Requests -> {0, 200, 400, 404, 500}]
      BY DEF TypeOK
    <3> QED
      BY <2>1, <2>2, <3>1, <3>2, RequestType
  <2>4. Book(r)'
    BY <1>1, <2>1, <2>2 DEF Book, Started
  <2>5. Walk(r)'
    BY <1>1, <2>1 DEF Walk
  <2>6. Started(r)' = {}
    BY <1>1, <2>1 DEF Started
  <2> QED
    BY <1>1, <2>1, <2>2, <2>3, <2>4, <2>5, <2>6, RequestIInv
<1> QED
  BY <1>2, <1>3

\* The channel found is the one the request has seen, if that is still open.
LEMMA LookupIInv ==
    ASSUME IInv, NEW r \in Requests, Lookup(r)
    PROVE  IInv'
<1> USE DEF IInv
<1> DEFINE g == Head(todo[r])
<1>1. /\ pc[r] = "lookup" /\ pc' = [pc EXCEPT ![r] = "use"]
      /\ reqCh' = [reqCh EXCEPT ![r] = stored[g]]
      /\ gwFound' = [gwFound EXCEPT ![r] = TRUE]
      /\ todo[r] # <<>> /\ stored[g] # 0
      /\ UNCHANGED <<process, srv, mainVars, chanVars, inputVars, todo,
                     response, effectVars>>
  BY DEF Lookup, Goto, Looks
<1>2. g \in Gateways /\ stored[g] \in 0..MaxChannels
  BY <1>1, HeadTail DEF TypeOK
<1> HIDE DEF g
<1>3. /\ pc' \in [Requests -> {"idle", "lookup", "use", "rpc", "answered"}]
      /\ reqCh' \in [Requests -> 0..MaxChannels]
      /\ gwFound' \in [Requests -> BOOLEAN]
      /\ pc'[r] = "use" /\ reqCh'[r] = stored[g] /\ gwFound'[r]
      /\ \A q \in Requests \ {r} : /\ pc'[q] = pc[q] /\ reqCh'[q] = reqCh[q]
                                    /\ gwFound'[q] = gwFound[q]
  BY <1>1, <1>2 DEF TypeOK
<1>4. TypeOK'
  <2>1. ASSUME NEW q \in Requests
        PROVE  /\ pc'[q] \in {"use", "rpc"} => todo[q] # <<>>
               /\ response[q] # 0 => pc'[q] = "answered"
    <3>1. LoopType
      BY TypeParts
    <3> HIDE DEF IInv
    <3> QED
      BY <1>1, <1>3, <3>1 DEF LoopType
  <2>2. /\ todo \in [Requests -> Seq(Gateways)]
        /\ response \in [Requests -> {0, 200, 400, 404, 500}]
    BY DEF TypeOK
  <2> QED
    BY <1>1, <1>3, <2>1, <2>2, RequestType
<1>5. Book(r)'
  BY <1>1, <1>3 DEF Book, Started
<1>6. Walk(r)'
  <2> SUFFICES ASSUME command[r] = "switch" PROVE Walk(r)'
    BY <1>1 DEF Walk
  <2>1. Seen(r, g) \in open => stored[g] = seen[r][g]
    BY DEF ChannelsNumbered, Seen
  <2>2. /\ Len(todo[r]) <= Len(list[r])
        /\ \A j \in 1..Len(todo[r]) :
              todo[r][j] = list[r][Len(list[r]) - Len(todo[r]) + j]
        /\ \A i \in 1..(Len(list[r]) - Len(todo[r])) :
              Seen(r, list[r][i]) \in open =>
                  <<r, Seen(r, list[r][i])>> \in tasks \cup sent
    BY <1>1 DEF Walk
  <2> HIDE DEF IInv
  <2> QED
    BY <1>1, <1>3, <2>1, <2>2 DEF Walk, Seen, g
<1>7. response[r] = 0 /\ response' = response
  BY <1>1, NotAnswered
<1>8. /\ UNCHANGED <<process, srv, mainVars, chanVars, command, list, seen, todo,
                     response, tasks, sent, applied>>
      /\ pc[r] = "lookup"
  BY <1>1
<1> HIDE DEF IInv
<1> QED
  BY <1>3, <1>4, <1>5, <1>6, <1>7, <1>8, RequestIInv
\* A gateway without channel is one whose channel has been closed.
LEMMA SkipIInv ==
    ASSUME IInv, NEW r \in Requests, Skip(r)
    PROVE  IInv'
<1> USE DEF IInv
<1>1. /\ pc[r] = "lookup" /\ pc' = [pc EXCEPT ![r] = "lookup"]
      /\ todo' = [todo EXCEPT ![r] = Tail(todo[r])]
      /\ todo[r] # <<>> /\ stored[Head(todo[r])] = 0
      /\ UNCHANGED <<process, srv, mainVars, chanVars, inputVars, reqCh,
                     gwFound, response, effectVars>>
  BY DEF Skip, Goto, Looks
<1>2. Head(todo[r]) \in Gateways /\ Tail(todo[r]) \in Seq(Gateways)
  BY <1>1, HeadTail DEF TypeOK
<1>3. /\ pc' = pc
      /\ todo' \in [Requests -> Seq(Gateways)]
      /\ todo'[r] = Tail(todo[r])
      /\ \A q \in Requests \ {r} : todo'[q] = todo[q]
  BY <1>1, <1>2 DEF TypeOK
<1>4. TypeOK'
  <2>1. ASSUME NEW q \in Requests
        PROVE  /\ pc'[q] \in {"use", "rpc"} => todo'[q] # <<>>
               /\ response[q] # 0 => pc'[q] = "answered"
    <3>1. LoopType
      BY TypeParts
    <3> HIDE DEF IInv
    <3> QED
      BY <1>1, <1>3, <3>1 DEF LoopType
  <2>2. /\ pc \in [Requests -> {"idle", "lookup", "use", "rpc", "answered"}]
        /\ reqCh \in [Requests -> 0..MaxChannels]
        /\ gwFound \in [Requests -> BOOLEAN]
        /\ response \in [Requests -> {0, 200, 400, 404, 500}]
    BY DEF TypeOK
  <2> QED
    BY <1>1, <1>3, <2>1, <2>2, RequestType
<1>5. Book(r)'
  BY <1>1, <1>3 DEF Book, Started
<1>6. Walk(r)'
  <2>1. Seen(r, Head(todo[r])) \notin open
    <3>1. Seen(r, Head(todo[r])) \in open => seen[r][Head(todo[r])] = 0
      BY <1>1 DEF ChannelsNumbered, Seen
    <3>2. Seen(r, Head(todo[r])) \in open =>
              seen[r][Head(todo[r])] \in 1..MaxChannels
      BY DEF TypeOK, Seen
    <3> QED
      BY <3>1, <3>2, ServerAssumption
  <2> QED
    BY <1>1, <1>3, <2>1, Advance
<1>7. response[r] = 0 /\ response' = response
  BY <1>1, NotAnswered
<1> HIDE DEF IInv
<1> QED
  BY <1>1, <1>3, <1>4, <1>5, <1>6, <1>7, RequestIInv

\* "switch" starts its task on the channel found, which is the one the
\* request has seen if that is still open.
LEMMA UseIInv ==
    ASSUME IInv, NEW r \in Requests, UseChannel(r)
    PROVE  IInv'
<1> USE DEF IInv
<1>1. /\ pc[r] = "use" /\ pc' = [pc EXCEPT ![r] = "lookup"]
      /\ todo' = [todo EXCEPT ![r] = Tail(todo[r])]
      /\ UNCHANGED <<process, srv, mainVars, chanVars, inputVars, reqCh,
                     gwFound, response, sent>>
  BY DEF UseChannel, Goto
<1>2. /\ todo[r] # <<>>
      /\ Head(todo[r]) \in Gateways /\ Tail(todo[r]) \in Seq(Gateways)
  BY <1>1, HeadTail DEF TypeOK
<1>3. /\ pc' \in [Requests -> {"idle", "lookup", "use", "rpc", "answered"}]
      /\ todo' \in [Requests -> Seq(Gateways)]
      /\ pc'[r] = "lookup" /\ todo'[r] = Tail(todo[r])
      /\ \A q \in Requests \ {r} : todo'[q] = todo[q] /\ pc'[q] = pc[q]
  BY <1>1, <1>2 DEF TypeOK
<1>4. Found(r) \in Gateways \X (1..MaxChannels)
  <2>1. reqCh[r] \in 0..MaxChannels /\ reqCh[r] # 0
    BY <1>1 DEF TypeOK, Book
  <2> QED
    BY <1>2, <2>1, ServerAssumption DEF Found
<1>5. /\ tasks' \in {tasks, tasks \cup {<<r, Found(r)>>}}
      /\ applied' \in {applied, applied \cup {<<r, Found(r)>>}}
      /\ command[r] = "switch" => <<r, Found(r)>> \in tasks'
      /\ command[r] \notin {"switch", "setRecording"} =>
            tasks' = tasks /\ applied' = applied
  BY DEF UseChannel
<1>6. TypeOK'
  <2>1. ASSUME NEW q \in Requests
        PROVE  /\ pc'[q] \in {"use", "rpc"} => todo'[q] # <<>>
               /\ response[q] # 0 => pc'[q] = "answered"
    <3>1. /\ pc[q] \in {"use", "rpc"} => todo[q] # <<>>
          /\ response[q] # 0 => pc[q] = "answered"
      BY DEF TypeOK
    <3> QED
      BY <1>1, <1>3, <3>1
  <2>2. /\ tasks' \subseteq Requests \X (Gateways \X (1..MaxChannels))
        /\ applied' \subseteq Requests \X (Gateways \X (1..MaxChannels))
    BY <1>4, <1>5 DEF TypeOK
  <2>0. WorldType /\ InputType /\ LoopType /\ EffectType
    BY TypeParts
  <2>3. WorldType'
    BY <1>1, <2>0 DEF WorldType
  <2>4. InputType'
    BY <1>1, <2>0 DEF InputType
  <2>5. LoopType'
    BY <1>1, <1>3, <2>0, <2>1 DEF LoopType
  <2>6. EffectType'
    BY <1>1, <2>0, <2>2 DEF EffectType
  <2> QED
    BY <2>3, <2>4, <2>5, <2>6, TypeParts
<1>7. Book(r)'
  <2>1. Started(r)' # {} =>
            Started(r) # {} \/ command[r] \in {"switch", "setRecording"}
    BY <1>1, <1>5 DEF Started
  <2> QED
    BY <1>1, <1>3, <2>1 DEF Book
<1>8. Walk(r)'
  <2>1. command[r] = "switch" /\ Seen(r, Head(todo[r])) \in open =>
            <<r, Seen(r, Head(todo[r]))>> \in tasks' \cup sent'
    BY <1>1, <1>5 DEF Walk, Found, Seen
  <2>2. \A x : <<r, x>> \in tasks \cup sent => <<r, x>> \in tasks' \cup sent'
    BY <1>1, <1>5
  <2> QED
    BY <1>1, <1>2, <1>3, <2>1, <2>2, Advance
<1>9. response[r] = 0 /\ response' = response
  BY <1>1, NotAnswered
<1> HIDE DEF IInv
<1> QED
  BY <1>1, <1>3, <1>5, <1>6, <1>7, <1>8, <1>9, RequestIInv

\* A task that has run leaves its message, or has found the channel closed.
LEMMA SendIInv ==
    ASSUME IInv, NEW t \in tasks, SendMessage(t[1], t[2])
    PROVE  IInv'
<1> USE DEF IInv
<1>1. PICK r \in Requests, ch \in Gateways \X (1..MaxChannels) : t = <<r, ch>>
  BY DEF TypeOK
<1>2. /\ <<r, ch>> \in tasks
      /\ tasks' = tasks \ {<<r, ch>>}
      /\ sent' = IF ch \in open THEN sent \cup {<<r, ch>>} ELSE sent
      /\ UNCHANGED <<process, srv, mainVars, chanVars, reqVars, applied>>
  BY <1>1 DEF SendMessage
<1>3. TypeOK'
  <2>0. WorldType /\ InputType /\ LoopType /\ EffectType
    BY TypeParts
  <2>1. /\ tasks' \subseteq Requests \X (Gateways \X (1..MaxChannels))
        /\ sent' \subseteq Requests \X (Gateways \X (1..MaxChannels))
    <3>1. /\ tasks' \subseteq tasks /\ sent' \subseteq sent \cup tasks
      BY <1>2
    <3> HIDE DEF IInv
    <3> QED
      BY <2>0, <3>1 DEF EffectType
  <2>2. WorldType'
    BY <1>2, <2>0 DEF WorldType
  <2>3. InputType'
    BY <1>2, <2>0 DEF InputType
  <2>4. LoopType'
    BY <1>2, <2>0 DEF LoopType
  <2>5. EffectType'
    BY <1>2, <2>0, <2>1 DEF EffectType
  <2> QED
    BY <2>2, <2>3, <2>4, <2>5, TypeParts
<1>4. Started(r)' # {} => Started(r) # {}
  BY <1>2 DEF Started
<1>5. Book(r)'
  BY <1>2, <1>4 DEF Book
<1>6. Walk(r)'
  <2>1. \A x : x \in open /\ <<r, x>> \in tasks \cup sent
                => <<r, x>> \in tasks' \cup sent'
    BY <1>2
  <2>2. Walk(r)
    OBVIOUS
  <2> HIDE DEF IInv
  <2> QED
    BY <1>2, <2>1, <2>2 DEF Walk, Seen
<1>7. response'[r] \in {400, 404} => Started(r)' = {}
  BY <1>2, <1>4 DEF ErrorMeansNothingDone
<1>8. /\ \A u : u \in tasks' /\ u[1] # r <=> u \in tasks /\ u[1] # r
      /\ \A u : u \in sent' /\ u[1] # r <=> u \in sent /\ u[1] # r
  BY <1>2
<1> HIDE DEF IInv
<1> QED
  BY <1>2, <1>3, <1>5, <1>6, <1>7, <1>8, RequestIInv
\* A request comes with its whole list to do, and has started nothing.
LEMMA ArriveIInv ==
    ASSUME IInv, NEW r \in Requests, Arrive(r)
    PROVE  IInv'
<1> USE DEF IInv
<1>1. PICK c \in Commands, l \in Lists :
        /\ command' = [command EXCEPT ![r] = c]
        /\ list' = [list EXCEPT ![r] = l]
        /\ todo' = [todo EXCEPT ![r] = l]
  BY DEF Arrive
<1>2. /\ srv = "listening" /\ pc[r] = "idle"
      /\ pc' = [pc EXCEPT ![r] = "lookup"]
      /\ seen' = [seen EXCEPT ![r] = stored]
      /\ UNCHANGED <<process, srv, mainVars, chanVars, reqCh, gwFound, response,
                     effectVars>>
  BY DEF Arrive, Goto
<1>3. l \in Seq(Gateways)
  BY ServerAssumption
<1>4. /\ pc' \in [Requests -> {"idle", "lookup", "use", "rpc", "answered"}]
      /\ command' \in [Requests -> Commands]
      /\ list' \in [Requests -> Seq(Gateways)]
      /\ todo' \in [Requests -> Seq(Gateways)]
      /\ seen' \in [Requests -> [Gateways -> 0..MaxChannels]]
      /\ pc'[r] = "lookup" /\ list'[r] = l /\ todo'[r] = l /\ seen'[r] = stored
      /\ \A q \in Requests \ {r} :
            /\ pc'[q] = pc[q] /\ command'[q] = command[q]
            /\ list'[q] = list[q] /\ seen'[q] = seen[q] /\ todo'[q] = todo[q]
  BY <1>1, <1>2, <1>3 DEF TypeOK
<1>5. response[r] = 0 /\ response' = response
  BY <1>2, NotAnswered
<1>6. TypeOK'
  <2>1. ASSUME NEW q \in Requests
        PROVE  /\ pc'[q] \in {"use", "rpc"} => todo'[q] # <<>>
               /\ response[q] # 0 => pc'[q] = "answered"
    <3>1. /\ pc[q] \in {"use", "rpc"} => todo[q] # <<>>
          /\ response[q] # 0 => pc[q] = "answered"
      BY DEF TypeOK
    <3> QED
      BY <1>4, <1>5, <3>1
  <2>0. WorldType /\ InputType /\ LoopType /\ EffectType
    BY TypeParts
  <2>2. WorldType'
    BY <1>2, <2>0 DEF WorldType
  <2>3. InputType'
    BY <1>4 DEF InputType
  <2>4. LoopType'
    BY <1>2, <1>4, <1>5, <2>0, <2>1 DEF LoopType
  <2>5. EffectType'
    BY <1>2, <2>0 DEF EffectType
  <2> QED
    BY <2>2, <2>3, <2>4, <2>5, TypeParts
<1>7. Started(r)' = {}
  BY <1>2 DEF Book, Started
<1>8. Book(r)'
  BY <1>2, <1>4, <1>7 DEF Book, ChannelsNumbered
<1>9. Walk(r)'
  <2>1. Len(l) \in Nat
    BY <1>3
  <2> HIDE DEF IInv
  <2> QED
    BY <1>4, <2>1 DEF Walk
<1> HIDE DEF IInv
<1> QED
  BY <1>2, <1>4, <1>5, <1>6, <1>7, <1>8, <1>9, RequestIInv

\* The steps of a handler.
LEMMA ServeIInv ==
    ASSUME IInv, NEW r \in Requests, Serve(r)
    PROVE  IInv'
<1>1. CASE Refuse(r) \/ NoChannel(r) \/ PushPanics(r) \/ Finish(r) \/ EndRpc(r)
  BY <1>1, AnswersIInv
<1>2. CASE Lookup(r)
  BY <1>2, LookupIInv
<1>3. CASE Skip(r)
  BY <1>3, SkipIInv
<1>4. CASE UseChannel(r)
  BY <1>4, UseIInv
<1>5. CASE BeginRpc(r)
  BY <1>5, BeginRpcIInv
<1> QED
  BY <1>1, <1>2, <1>3, <1>4, <1>5 DEF Serve
-----------------------------------------------------------------------------
(* Gateways and main.                                                      *)

LEMMA JoinIInv ==
    ASSUME IInv, NEW g \in Gateways, Join(g)
    PROVE  IInv'
<1>1. /\ stored[g] = 0 /\ built[g] < MaxChannels
      /\ built' = [built EXCEPT ![g] = built[g] + 1]
      /\ stored' = [stored EXCEPT ![g] = built[g] + 1]
      /\ open' = open \cup {<<g, built[g] + 1>>}
      /\ UNCHANGED <<process, srv, mainVars, reqVars, effectVars>>
  BY DEF Join
<1>2. /\ built \in [Gateways -> 0..MaxChannels]
      /\ stored \in [Gateways -> 0..MaxChannels]
      /\ open \subseteq Gateways \X (1..MaxChannels)
      /\ toClose \subseteq Gateways \X (1..MaxChannels)
  BY DEF IInv, TypeOK
<1>3. built[g] + 1 \in 1..MaxChannels
  BY <1>1, <1>2
<1>4. /\ built' \in [Gateways -> 0..MaxChannels]
      /\ stored' \in [Gateways -> 0..MaxChannels]
      /\ open' \subseteq Gateways \X (1..MaxChannels)
  BY <1>1, <1>2, <1>3
<1>5. <<g, 0>> \notin open
  BY <1>2
<1>6. ChannelsNumbered'
  <2>1. \A h \in Gateways : stored'[h] <= built'[h]
    BY <1>1, <1>2, <1>3 DEF IInv, ChannelsNumbered
  <2>2. ASSUME NEW ch \in open' PROVE stored'[ch[1]] = ch[2]
    <3>1. CASE ch = <<g, built[g] + 1>>
      BY <1>1, <1>2, <3>1
    <3>2. CASE ch \in open
      <4>1. stored[ch[1]] = ch[2] /\ ch[1] \in Gateways /\ ch[2] # 0
        BY <1>2, <3>2 DEF IInv, ChannelsNumbered
      <4> QED
        BY <1>1, <1>2, <4>1
    <3> QED
      BY <1>1, <2>2, <3>1, <3>2
  <2> QED
    BY <2>1, <2>2 DEF ChannelsNumbered
<1>7. \A h \in Gateways : built'[h] >= built[h]
  BY <1>1, <1>2
<1>8. \A h \in Gateways, n \in 1..MaxChannels :
         <<h, n>> \in open' /\ <<h, n>> \notin open => n > built[h]
  BY <1>1, <1>2
<1> QED
  BY <1>1, <1>2, <1>4, <1>6, <1>7, <1>8, ChannelsIInv

\* Steps that only close channels, and may take main further.
LEMMA CloseIInv ==
    ASSUME IInv, open' \subseteq open, ChannelsNumbered',
           UNCHANGED <<process, srv, stopErr, built, reqVars, effectVars>>,
           stored' \in [Gateways -> 0..MaxChannels],
           toClose' \subseteq toClose \cup open,
           mainPc' # mainPc => mainPc' \in {"closing", "stopping"}
    PROVE  IInv'
<1>1. /\ built \in [Gateways -> 0..MaxChannels]
      /\ open \subseteq Gateways \X (1..MaxChannels)
      /\ toClose \subseteq Gateways \X (1..MaxChannels)
  BY DEF IInv, TypeOK
<1>2. /\ built' \in [Gateways -> 0..MaxChannels]
      /\ open' \subseteq Gateways \X (1..MaxChannels)
      /\ toClose' \subseteq Gateways \X (1..MaxChannels)
      /\ \A g \in Gateways : built'[g] >= built[g]
  BY <1>1
<1>3. \A g \in Gateways, n \in 1..MaxChannels :
         <<g, n>> \in open' /\ <<g, n>> \notin open => n > built[g]
  OBVIOUS
<1> QED
  BY <1>2, <1>3, ChannelsIInv

LEMMA LeaveIInv ==
    ASSUME IInv, NEW g \in Gateways, Leave(g)
    PROVE  IInv'
<1>1. /\ stored' = [stored EXCEPT ![g] = 0]
      /\ open' = open \ {<<g, stored[g]>>}
      /\ UNCHANGED <<process, srv, mainVars, built, reqVars, effectVars>>
  BY DEF Leave, Channel
<1>2. /\ stored \in [Gateways -> 0..MaxChannels]
      /\ built \in [Gateways -> 0..MaxChannels]
      /\ open \subseteq Gateways \X (1..MaxChannels)
  BY DEF IInv, TypeOK
<1>3. stored' \in [Gateways -> 0..MaxChannels]
  BY <1>1, <1>2, ServerAssumption
<1>4. ChannelsNumbered'
  <2>1. \A h \in Gateways : stored'[h] <= built'[h]
    BY <1>1, <1>2 DEF IInv, ChannelsNumbered
  <2>2. ASSUME NEW ch \in open' PROVE stored'[ch[1]] = ch[2]
    <3>1. /\ stored[ch[1]] = ch[2] /\ ch = <<ch[1], ch[2]>>
          /\ ch[1] \in Gateways /\ ch # <<g, stored[g]>>
      BY <1>1, <1>2 DEF IInv, ChannelsNumbered
    <3>2. ch[1] # g
      BY <3>1
    <3> QED
      BY <1>1, <1>2, <3>1, <3>2
  <2> QED
    BY <2>1, <2>2 DEF ChannelsNumbered
<1> QED
  BY <1>1, <1>3, <1>4, CloseIInv

\* Steps of main that leave channels and requests alone.
LEMMA MainIInv ==
    ASSUME IInv, UNCHANGED <<chanVars, reqVars, effectVars>>,
           WorldType', StopOrder', GracefulStop'
    PROVE  IInv'
<1>0. TypeOK'
  <2>0. InputType /\ LoopType /\ EffectType
    BY TypeParts DEF IInv
  <2>1. InputType'
    BY <2>0 DEF InputType
  <2>2. LoopType'
    BY <2>0 DEF LoopType
  <2>3. EffectType'
    BY <2>0 DEF EffectType
  <2> QED
    BY <2>1, <2>2, <2>3, TypeParts
<1>1. ASSUME NEW r \in Requests PROVE Book(r)'
  BY DEF IInv, Book, Started
<1>2. ASSUME NEW r \in Requests PROVE Walk(r)'
  BY DEF IInv, Walk, Seen
<1>3. ChannelsNumbered' /\ ErrorMeansNothingDone'
  BY DEF IInv, ChannelsNumbered, ErrorMeansNothingDone, Started
<1> QED
  BY <1>0, <1>1, <1>2, <1>3 DEF IInv

\* main and the REST server: what Stop promises, it promises when no request
\* can come any more.
LEMMA ShutdownIInv ==
    ASSUME IInv, Interrupt \/ Shutdown
    PROVE  IInv'
<1>0. WorldType
  BY TypeParts DEF IInv
<1>1. CASE Interrupt
  <2>1. stored' \in [Gateways -> 0..MaxChannels] /\ ChannelsNumbered'
    BY <1>1 DEF Interrupt, IInv, TypeOK, ChannelsNumbered
  <2> QED
    BY <1>1, <2>1, CloseIInv DEF Interrupt, MainGoto
<1>2. CASE CloseChannel
  <2>1. stored' \in [Gateways -> 0..MaxChannels] /\ ChannelsNumbered'
    BY <1>2 DEF CloseChannel, IInv, TypeOK, ChannelsNumbered
  <2> QED
    BY <1>2, <2>1, CloseIInv DEF CloseChannel, MainGoto
<1>3. CASE CloseConnection
  <2>1. stored' \in [Gateways -> 0..MaxChannels] /\ ChannelsNumbered'
    BY <1>3 DEF CloseConnection, IInv, TypeOK, ChannelsNumbered
  <2> QED
    BY <1>3, <2>1, CloseIInv DEF CloseConnection, MainGoto
<1>4. CASE StopRest
  <2>1. WorldType'
    BY <1>0, <1>4 DEF StopRest, MainGoto, WorldType
  <2>2. StopOrder' /\ GracefulStop'
    BY <1>4 DEF StopRest, MainGoto, StopOrder, GracefulStop
  <2> QED
    BY <1>4, <2>1, <2>2, MainIInv DEF StopRest
<1>5. CASE Drain
  <2>1. WorldType'
    BY <1>0, <1>5 DEF Drain, MainGoto, WorldType
  <2>2. StopOrder' /\ GracefulStop'
    BY <1>5 DEF Drain, MainGoto, StopOrder, GracefulStop, Active, IInv
  <2> QED
    BY <1>5, <2>1, <2>2, MainIInv DEF Drain
<1>6. CASE Exit
  <2>1. WorldType'
    BY <1>0, <1>6 DEF Exit, MainGoto, WorldType
  <2>2. StopOrder' /\ GracefulStop'
    BY <1>6 DEF Exit, MainGoto, StopOrder, GracefulStop, Active, IInv
  <2> QED
    BY <1>6, <2>1, <2>2, MainIInv DEF Exit
<1> QED
  BY <1>1, <1>2, <1>3, <1>4, <1>5, <1>6 DEF Shutdown

LEMMA RestIInv ==
    ASSUME IInv, StartRest \/ StartRestFails \/ ChannelPanics
    PROVE  IInv'
<1>1. /\ process' = process \/ process' \in {"fatal", "panic"}
      /\ srv' = srv \/ (srv = "unset" /\ srv' = "listening")
      /\ UNCHANGED <<mainVars, chanVars, reqVars, effectVars>>
  <2>1. CASE StartRest
    BY <2>1 DEF StartRest
  <2>2. CASE StartRestFails
    BY <2>2 DEF StartRestFails
  <2>3. CASE ChannelPanics
    BY <2>3 DEF ChannelPanics
  <2> QED
    BY <2>1, <2>2, <2>3
<1>2. WorldType'
  <2>1. WorldType
    BY TypeParts DEF IInv
  <2> QED
    BY <1>1, <2>1 DEF WorldType
<1>3. StopOrder' /\ GracefulStop'
  BY <1>1 DEF IInv, StopOrder, GracefulStop, Active
<1> QED
  BY <1>1, <1>2, <1>3, MainIInv
-----------------------------------------------------------------------------
(* The theorems.                                                           *)

LEMMA InitIInv == Init => IInv
<1> SUFFICES ASSUME Init PROVE IInv
  OBVIOUS
<1>1. TypeOK
  <2>1. /\ stored = [g \in Gateways |-> 0]
        /\ stored \in [Gateways -> 0..MaxChannels]
        /\ seen = [r \in Requests |-> stored]
    BY ServerAssumption DEF Init
  <2>2. seen \in [Requests -> [Gateways -> 0..MaxChannels]]
    BY <2>1
  <2>3. /\ list = [r \in Requests |-> <<>>] /\ todo = list
        /\ list \in [Requests -> Seq(Gateways)]
    BY DEF Init
  <2>4. /\ reqCh \in [Requests -> 0..MaxChannels]
        /\ built \in [Gateways -> 0..MaxChannels]
    BY ServerAssumption DEF Init
  <2>5. WorldType
    BY <2>1, <2>4, ServerAssumption DEF Init, WorldType
  <2>6. InputType
    BY <2>2, <2>3 DEF Init, InputType, Commands
  <2>7. LoopType
    BY <2>3, <2>4 DEF Init, LoopType
  <2>8. EffectType
    BY DEF Init, EffectType
  <2> QED
    BY <2>5, <2>6, <2>7, <2>8, TypeParts
<1>2. \A r \in Requests : Book(r) /\ Walk(r)
  BY DEF Init, Book, Walk, Started
<1>3. ChannelsNumbered /\ ErrorMeansNothingDone /\ StopOrder /\ GracefulStop
  BY DEF Init, ChannelsNumbered, ErrorMeansNothingDone, StopOrder, GracefulStop,
         Started
<1> QED
  BY <1>1, <1>2, <1>3 DEF IInv

LEMMA NextIInv == IInv /\ [Next]_vars => IInv'
<1> SUFFICES ASSUME IInv, [Next]_vars PROVE IInv'
  OBVIOUS
<1>1. ASSUME NEW g \in Gateways, Join(g) \/ Leave(g) PROVE IInv'
  BY <1>1, JoinIInv, LeaveIInv
<1>2. CASE ChannelPanics \/ StartRest \/ StartRestFails
  BY <1>2, RestIInv
<1>3. ASSUME NEW r \in Requests, Arrive(r) \/ Serve(r) PROVE IInv'
  BY <1>3, ArriveIInv, ServeIInv
<1>4. ASSUME NEW t \in tasks, SendMessage(t[1], t[2]) PROVE IInv'
  BY <1>4, SendIInv
<1>5. CASE Interrupt \/ Shutdown
  BY <1>5, ShutdownIInv
<1>6. CASE UNCHANGED vars
  <2>1. WorldType'
    <3>1. WorldType
      BY TypeParts DEF IInv
    <3> QED
      BY <1>6, <3>1 DEF vars, WorldType
  <2>2. StopOrder' /\ GracefulStop'
    BY <1>6 DEF IInv, StopOrder, GracefulStop, Active, vars
  <2> QED
    BY <1>6, <2>1, <2>2, MainIInv DEF vars
<1> QED
  BY <1>1, <1>2, <1>3, <1>4, <1>5, <1>6 DEF Next

\* The inductive invariant of the server holds in every state.
THEOREM Inductive == Spec => []IInv
  BY InitIInv, NextIInv, PTL DEF Spec

\* Every variable keeps its type: in particular a handler that has found a
\* channel is at a gateway of its list (handleCommand).
THEOREM TypeCorrect == Spec => []TypeOK
<1>1. IInv => TypeOK
  BY DEF IInv
<1> QED
  BY <1>1, Inductive, PTL

\* A request that is answered with an error of its own, or with "no gateways
\* found", has started nothing on any gateway (handleCommand).
THEOREM ErrorsDoNothing == Spec => []ErrorMeansNothingDone
<1>1. IInv => ErrorMeansNothingDone
  BY DEF IInv
<1> QED
  BY <1>1, Inductive, PTL

\* A "switch" command that is answered has reached each gateway of its list
\* whose channel is open since the request came (handleCommand).
THEOREM SwitchReaches == Spec => []SwitchReachesGateway
<1>1. IInv => SwitchReachesGateway
  <2> SUFFICES ASSUME IInv, NEW r \in Requests,
                      command[r] = "switch", pc[r] = "answered",
                      NEW i \in DOMAIN list[r],
                      <<list[r][i], seen[r][list[r][i]]>> \in open
               PROVE  <<r, <<list[r][i], seen[r][list[r][i]]>>>>
                          \in tasks \cup sent
    BY DEF SwitchReachesGateway
  <2>1. todo[r] = <<>> /\ list[r] \in Seq(Gateways)
    BY DEF IInv, Walk, TypeOK
  <2>2. i \in 1..(Len(list[r]) - Len(todo[r]))
    BY <2>1
  <2>3. Seen(r, list[r][i]) \in open =>
            <<r, Seen(r, list[r][i])>> \in tasks \cup sent
    BY <2>2 DEF IInv, Walk
  <2> QED
    BY <2>3 DEF Seen
<1> QED
  BY <1>1, Inductive, PTL

\* When Stop returns no error, every request is answered and none can come in
\* before the process ends (main, Server.Stop).
THEOREM StopIsGraceful == Spec => []GracefulStop
<1>1. IInv => GracefulStop
  BY DEF IInv
<1> QED
  BY <1>1, Inductive, PTL
=============================================================================
