-------------------------- MODULE CameraLogicProofs --------------------------
(***************************************************************************)
(* Proofs about CameraLogic for any media servers, accounts and messages:  *)
(* its type correctness, that no user who never had a paying account is    *)
(* recorded outside motion mode, that a media server does what its latest  *)
(* request asked for, and that the unlocked update of the user params      *)
(* leaves those of one account unless two overlap; and of messages that    *)
(* come one at a time, that recording and the row follow them.             *)
(***************************************************************************)
EXTENDS CameraLogic, FiniteSetTheorems,
        WellFoundedInduction, TLAPS

\* The goroutines between the two halves of their update run commands; while
\* there never were two, the first half of the update is in place.
WriterOwns ==
    /\ \A m \in Writing : msg[m].type = "command"
    /\ ~torn => \A m \in Writing :
          /\ Writing = {m}
          /\ pc[m] = "funds" => user.tariff = msg[m].account.tariff
          /\ pc[m] = "tariff" => /\ user.money = msg[m].account.money
                                 /\ user.privileged = msg[m].account.privileged

\* However two updates mix, each half comes from some account.
FieldsKnown ==
    /\ \E a \in KnownAccounts : user.tariff = a.tariff
    /\ \E b \in KnownAccounts : /\ user.money = b.money
                                /\ user.privileged = b.privileged

\* A handler that goes on with a stream had a user who paid for it.
StreamersPaid ==
    \A m \in Messages :
        /\ pc[m] \in {"restore", "clear"} => msg[m].arg = "streamingOff"
        /\ Unpaid(KnownAccounts) =>
              /\ pc[m] # "store"
              /\ pc[m] = "mode" => msg[m].arg # "streamingOn"

\* No request to record is on its way for a user who never paid.
UnpaidNotRequested ==
    mode # "motion" /\ Unpaid(KnownAccounts) => \A r \in requests : ~r.on

\* A server without doubt has one request on its way at most, the latest.
OneRequest ==
    \A s \in Servers \ doubtful :
        /\ \A r, q \in requests : r.ms = s /\ q.ms = s => r = q
        /\ \A r \in requests : r.ms = s => (r.on <=> s \in latest)

IInv ==
    /\ TypeOK
    /\ WriterOwns
    /\ AccountIsWhole
    /\ FieldsKnown
    /\ StreamersPaid
    /\ UnpaidNotRequested
    /\ UnpaidNeverRecorded
    /\ OneRequest
    /\ LatestRequestWins

USE CameraAssumption
USE DEF paramVars, userVars, messageVars, handlerVars, taskVars, worldVars,
        historyVars, requestVars
-----------------------------------------------------------------------------
(* The operators.                                                          *)

\* The accounts that commands may have written, and the user's own.
LEMMA KnownType ==
    ASSUME TypeOK
    PROVE  /\ KnownAccounts \subseteq Accounts
           /\ loaded \in KnownAccounts
           /\ \A m \in Commands : msg[m].account \in KnownAccounts
  BY DEF TypeOK, KnownAccounts, Commands, Message

\* Halves of accounts of which none pays make an account that does not.
LEMMA UnpaidUser ==
    ASSUME TypeOK, FieldsKnown, Unpaid(KnownAccounts)
    PROVE  ~CanBeRecorded(user)
<1>1. PICK a \in KnownAccounts : user.tariff = a.tariff
  BY DEF FieldsKnown
<1>2. PICK b \in KnownAccounts : /\ user.money = b.money
                                 /\ user.privileged = b.privileged
  BY DEF FieldsKnown
<1>3. /\ a \in Account /\ b \in Account /\ user \in Account
  BY KnownType DEF TypeOK
<1>4. a.tariff \in Nat
  BY <1>3 DEF Account
<1>5. /\ ~b.privileged
      /\ a.tariff <= UserTarifOnline \/ ~b.money
  BY DEF Unpaid
<1>6. ~user.privileged
  BY <1>2, <1>5
<1>7. ~(user.tariff > UserTarifOnline /\ user.money)
  BY <1>1, <1>2, <1>4, <1>5 DEF UserTarifOnline
<1> QED
  BY <1>6, <1>7 DEF CanBeRecorded

\* Messages that are received stay as they are, and so do their accounts.
LEMMA KnownGrows ==
    ASSUME TypeOK, loaded' = loaded,
           \A m \in Received : m \in Received' /\ msg'[m] = msg[m]
    PROVE  /\ KnownAccounts \subseteq KnownAccounts'
           /\ Unpaid(KnownAccounts)' => Unpaid(KnownAccounts)
<1>1. KnownAccounts \subseteq KnownAccounts'
  BY DEF KnownAccounts, Commands
<1> QED
  BY <1>1 DEF Unpaid

LEMMA KnownSame ==
    ASSUME loaded' = loaded, Received' = Received, msg' = msg
    PROVE  KnownAccounts' = KnownAccounts
  BY DEF KnownAccounts, Commands
-----------------------------------------------------------------------------
(* Type correctness.                                                       *)

Places == {"idle", "begin", "store", "restore", "clear", "mode", "funds",
           "tariff", "decide", "done"}

\* A handler that is in flight goes to another place.
LEMMA GotoType ==
    ASSUME TypeOK, NEW m \in Messages, NEW to \in Places \ {"idle"},
           pc[m] # "idle", pc' = [pc EXCEPT ![m] = to]
    PROVE  /\ pc' \in [Messages -> Places]
           /\ pc'[m] = to /\ \A n \in Messages \ {m} : pc'[n] = pc[n]
           /\ Received' = Received /\ m \in Received
  BY DEF TypeOK, Places, Received

\* A record task starts, or none.
LEMMA IssueType ==
    ASSUME TypeOK, NEW m \in Received, NEW place \in Place, NEW on \in BOOLEAN,
           Issue(m, place, on)
    PROVE  /\ requests' \subseteq [by : Received, ms : Place, on : BOOLEAN]
           /\ latest' \subseteq Place /\ doubtful' \subseteq Place
<1>1. [by |-> m, ms |-> place, on |-> on]
          \in [by : Received, ms : Place, on : BOOLEAN]
  OBVIOUS
<1> QED
  BY <1>1 DEF Issue, TypeOK

\* What the message and the params say has the right type.
LEMMA MessageType ==
    ASSUME TypeOK, NEW m \in Received
    PROVE  /\ msg[m] \in Message /\ address[m] \in Place
           /\ msg[m].account \in Account /\ msg[m].account.tariff \in Nat
           /\ m \in Messages /\ pc[m] # "idle"
  BY DEF TypeOK, Received, Message, Account

LEMMA ReceiveType ==
    ASSUME TypeOK, NEW m \in Messages, NEW c \in Contents, Receive(m, c)
    PROVE  TypeOK'
<1>1. /\ pc[m] = "idle" /\ pc' = [pc EXCEPT ![m] = "begin"]
      /\ msg' = [msg EXCEPT ![m] = c]
      /\ address' = [address EXCEPT ![m] = c.ms]
      /\ c \in Message /\ c.ms \in Place
  BY DEF Receive, Goto, Message
<1>2. /\ Received' = Received \cup {m}
      /\ \A n \in Received' : msg'[n] \in Message
  BY <1>1 DEF Received, TypeOK
<1>3. /\ pc' \in [Messages -> Places]
      /\ msg' \in [Messages -> Message \cup {Nil}]
      /\ address' \in [Messages -> Place]
  BY <1>1 DEF TypeOK, Places
<1>4. overlap' \in BOOLEAN
  BY DEF Receive, TypeOK
<1>5. requests' \subseteq [by : Received', ms : Place, on : BOOLEAN]
  BY <1>2 DEF Receive, TypeOK
<1> QED
  BY <1>2, <1>3, <1>4, <1>5 DEF Receive, TypeOK, Places

LEMMA HandleType ==
    ASSUME TypeOK, NEW m \in Messages, Handle(m)
    PROVE  TypeOK'
<1>1. CASE BeginState(m)
  <2>1. AfterState(m) \in Places \ {"idle"}
    BY DEF AfterState, Places
  <2> QED
    BY <1>1, <2>1, GotoType, ZenonT(30)
       DEF BeginState, Is, Goto, IssueNone, TypeOK, Places
<1>2. CASE StoreParams(m)
  BY <1>2, GotoType DEF StoreParams, Goto, TypeOK, Places
<1>3. CASE RestoreParams(m)
  BY <1>3, GotoType DEF RestoreParams, Goto, TypeOK, Places
<1>4. CASE ClearParams(m)
  BY <1>4, GotoType DEF ClearParams, Goto, TypeOK, Places, Place
<1>5. CASE CheckMode(m)
  <2>1. /\ pc[m] = "mode" /\ pc' = [pc EXCEPT ![m] = "done"]
        /\ \/ Issue(m, address[m], msg[m].arg = "streamingOn")
           \/ IssueNone
    BY <1>5 DEF CheckMode, Goto
  <2>2. /\ m \in Received /\ Received' = Received
        /\ pc' \in [Messages -> Places]
    BY <2>1, GotoType DEF Places
  <2>3. /\ requests' \subseteq [by : Received, ms : Place, on : BOOLEAN]
        /\ latest' \subseteq Place /\ doubtful' \subseteq Place
    BY <2>1, <2>2, IssueType, MessageType DEF IssueNone, TypeOK
  <2> QED
    BY <1>5, <2>2, <2>3 DEF CheckMode, TypeOK, Places
<1>6. CASE ProcessMotion(m)
  <2>1. /\ pc[m] = "begin" /\ pc' = [pc EXCEPT ![m] = "done"]
        /\ \/ Issue(m, address[m], msg[m].arg = "on")
           \/ IssueNone
        /\ motion' \in BOOLEAN
    BY <1>6 DEF ProcessMotion, Goto, TypeOK
  <2>2. /\ m \in Received /\ Received' = Received
        /\ pc' \in [Messages -> Places]
    BY <2>1, GotoType DEF Places
  <2>3. /\ requests' \subseteq [by : Received, ms : Place, on : BOOLEAN]
        /\ latest' \subseteq Place /\ doubtful' \subseteq Place
    BY <2>1, <2>2, IssueType, MessageType DEF IssueNone, TypeOK
  <2> QED
    BY <1>6, <2>1, <2>2, <2>3 DEF ProcessMotion, TypeOK, Places
<1>7. CASE ProcessCloudStreaming(m)
  <2>1. pc[m] = "begin" /\ pc' = [pc EXCEPT ![m] = "done"]
    BY <1>7 DEF ProcessCloudStreaming, Goto
  <2>2. /\ m \in Received /\ Received' = Received
        /\ pc' \in [Messages -> Places]
    BY <2>1, GotoType DEF Places
  <2> QED
    BY <1>7, <2>2 DEF ProcessCloudStreaming, IssueNone, TypeOK, Places
<1>8. CASE BeginCommand(m)
  <2>1. PICK to \in {"funds", "tariff"} :
            /\ pc[m] = "begin" /\ pc' = [pc EXCEPT ![m] = to]
            /\ \/ user' = [user EXCEPT !.tariff = msg[m].account.tariff]
               \/ user' = [msg[m].account EXCEPT !.tariff = user.tariff]
    BY <1>8 DEF BeginCommand, Goto
  <2>2. /\ m \in Received /\ Received' = Received
        /\ pc' \in [Messages -> Places]
    BY <2>1, GotoType DEF Places
  <2>3. user' \in Account
    BY <2>1, <2>2, MessageType DEF TypeOK, Account
  <2>4. torn' \in BOOLEAN
    BY <1>8 DEF BeginCommand, TypeOK
  <2>5. prev' \in [Messages -> Nat]
    BY <1>8 DEF BeginCommand, TypeOK, Account
  <2> QED
    BY <1>8, <2>2, <2>3, <2>4, <2>5 DEF BeginCommand, TypeOK, Places
<1>9. CASE FinishAccount(m)
  <2>1. /\ pc[m] \in {"funds", "tariff"}
        /\ pc' = [pc EXCEPT ![m] = "decide"]
        /\ \/ user' = [user EXCEPT !.tariff = msg[m].account.tariff]
           \/ user' = [msg[m].account EXCEPT !.tariff = user.tariff]
    BY <1>9 DEF FinishAccount, Goto, Writing
  <2>2. /\ m \in Received /\ Received' = Received
        /\ pc' \in [Messages -> Places]
    BY <2>1, GotoType DEF Places
  <2>3. user' \in Account
    BY <2>1, <2>2, MessageType DEF TypeOK, Account
  <2> QED
    BY <1>9, <2>2, <2>3 DEF FinishAccount, TypeOK, Places
<1>10. CASE Decide(m)
  <2>1. /\ pc[m] = "decide" /\ pc' = [pc EXCEPT ![m] = "done"]
        /\ \/ \E on \in BOOLEAN : Issue(m, stored, on)
           \/ IssueNone
    BY <1>10 DEF Decide, Goto
  <2>2. /\ m \in Received /\ Received' = Received
        /\ pc' \in [Messages -> Places] /\ stored \in Place
    BY <2>1, GotoType DEF Places, TypeOK
  <2>3. /\ requests' \subseteq [by : Received, ms : Place, on : BOOLEAN]
        /\ latest' \subseteq Place /\ doubtful' \subseteq Place
    BY <2>1, <2>2, IssueType DEF IssueNone, TypeOK
  <2> QED
    BY <1>10, <2>2, <2>3 DEF Decide, TypeOK, Places
<1> QED
  BY <1>1, <1>2, <1>3, <1>4, <1>5, <1>6, <1>7, <1>8, <1>9, <1>10 DEF Handle

LEMMA TaskType ==
    ASSUME TypeOK,
           \/ \E m \in Messages : RowTask(m)
           \/ \E r \in requests : RecordTask(r)
    PROVE  TypeOK'
<1>1. ASSUME NEW m \in Messages, UpdateRow(m) PROVE TypeOK'
  <2>1. m \in Received /\ msg[m].ms \in Place /\ Received' = Received
    BY <1>1, MessageType DEF UpdateRow, TypeOK, Message, Received
  <2>2. row' \in [onair : BOOLEAN, ip : Place]
    BY <1>1, <2>1, MessageType DEF UpdateRow, TypeOK, Onair
  <2> QED
    BY <1>1, <2>1, <2>2 DEF UpdateRow, TypeOK
<1>2. ASSUME NEW m \in Messages, UpdateRowFails(m) PROVE TypeOK'
  BY <1>2 DEF UpdateRowFails, TypeOK, Received
<1>3. ASSUME NEW r \in requests, Record(r) PROVE TypeOK'
  BY <1>3 DEF Record, TypeOK, Received, Place
<1>4. ASSUME NEW r \in requests, RecordFails(r) PROVE TypeOK'
  BY <1>4 DEF RecordFails, TypeOK, Received
<1> QED
  BY <1>1, <1>2, <1>3, <1>4 DEF RowTask, RecordTask

LEMMA TypeStep ==
    ASSUME TypeOK, [Next]_vars
    PROVE  TypeOK'
<1>1. CASE UNCHANGED vars
  BY <1>1 DEF vars, TypeOK, Received
<1> QED
  BY <1>1, ReceiveType, HandleType, TaskType DEF Next

LEMMA InitType == Init => TypeOK
<1> SUFFICES ASSUME Init PROVE TypeOK
  OBVIOUS
<1>1. Received = {} /\ user \in Account /\ loaded \in Accounts
  BY DEF Init, Received
<1>2. row \in [onair : BOOLEAN, ip : Place] /\ stored \in Place
  BY DEF Init, Place
<1>3. /\ pc \in [Messages -> Places] /\ address \in [Messages -> Place]
      /\ msg \in [Messages -> Message \cup {Nil}]
      /\ prev \in [Messages -> Nat]
  BY DEF Init, Place, Places
<1> QED
  BY <1>1, <1>2, <1>3 DEF Init, TypeOK, Places

\* For any servers, accounts and messages the shared state keeps its types:
\* only a server with an address records (RecordMediaStreamTask.Run).
THEOREM TypeCorrect == Spec => []TypeOK
<1> QED
  BY InitType, TypeStep, PTL DEF Spec
-----------------------------------------------------------------------------
(* The other invariants.                                                   *)

\* Nobody writes the user params, and nobody that writes them is disturbed.
LEMMA AccountsSame ==
    ASSUME IInv, UNCHANGED <<user, loaded, msg, torn>>,
           Received' = Received, Writing' = Writing,
           \A m \in Writing : pc'[m] = pc[m]
    PROVE  /\ WriterOwns' /\ AccountIsWhole' /\ FieldsKnown'
           /\ KnownAccounts' = KnownAccounts
           /\ Unpaid(KnownAccounts)' = Unpaid(KnownAccounts)
<1>1. /\ KnownAccounts' = KnownAccounts
      /\ Unpaid(KnownAccounts)' = Unpaid(KnownAccounts)
  BY KnownSame DEF Unpaid
<1>2. WriterOwns'
  BY DEF IInv, WriterOwns
<1> QED
  BY <1>1, <1>2 DEF IInv, AccountIsWhole, FieldsKnown

\* A handler goes on and starts a record task or none; it asks a server to
\* record only in motion mode or for a user who pays or has paid.
LEMMA HandlerIInv ==
    ASSUME IInv, TypeOK', NEW m \in Messages,
           NEW to \in Places \ {"idle", "funds", "tariff"},
           pc[m] \notin {"idle", "funds", "tariff"},
           pc' = [pc EXCEPT ![m] = to],
           UNCHANGED <<mode, user, loaded, msg, recorder, torn>>,
           to = "store" => CanBeRecorded(user),
           to \in {"restore", "clear"} => msg[m].arg = "streamingOff",
           to = "mode" => pc[m] \in {"store", "clear"},
           \/ IssueNone
           \/ \E place \in Place, on \in BOOLEAN :
                 /\ Issue(m, place, on)
                 /\ on => \/ mode = "motion"
                          \/ CanBeRecorded(user)
                          \/ pc[m] = "mode" /\ msg[m].arg = "streamingOn"
    PROVE  IInv'
<1> USE DEF IInv
<1>1. /\ pc'[m] = to /\ \A n \in Messages \ {m} : pc'[n] = pc[n]
      /\ Received' = Received
  BY GotoType
<1>2. Writing' = Writing /\ \A n \in Writing : pc'[n] = pc[n]
  BY <1>1 DEF Writing
<1>3. /\ WriterOwns' /\ AccountIsWhole' /\ FieldsKnown'
      /\ KnownAccounts' = KnownAccounts
      /\ Unpaid(KnownAccounts)' = Unpaid(KnownAccounts)
  BY <1>1, <1>2, AccountsSame
<1>4. Unpaid(KnownAccounts) => ~CanBeRecorded(user)
  BY UnpaidUser
<1>5. StreamersPaid'
  <2>1. ASSUME NEW n \in Messages, n # m
        PROVE  /\ pc'[n] \in {"restore", "clear"} => msg[n].arg = "streamingOff"
               /\ Unpaid(KnownAccounts) =>
                     /\ pc'[n] # "store"
                     /\ pc'[n] = "mode" => msg[n].arg # "streamingOn"
    BY <1>1, <2>1 DEF StreamersPaid
  <2>2. /\ pc'[m] \in {"restore", "clear"} => msg[m].arg = "streamingOff"
        /\ Unpaid(KnownAccounts) =>
              /\ pc'[m] # "store"
              /\ pc'[m] = "mode" => msg[m].arg # "streamingOn"
    BY <1>1, <1>4 DEF StreamersPaid
  <2> QED
    BY <1>3, <2>1, <2>2 DEF StreamersPaid
<1>6. UnpaidNeverRecorded'
  BY <1>3 DEF UnpaidNeverRecorded
<1>7. CASE IssueNone
  BY <1>3, <1>5, <1>6, <1>7
     DEF IssueNone, UnpaidNotRequested, OneRequest, LatestRequestWins
<1>8. CASE ~IssueNone
  <2>1. PICK place \in Place, on \in BOOLEAN :
            /\ Issue(m, place, on)
            /\ on => \/ mode = "motion"
                     \/ CanBeRecorded(user)
                     \/ pc[m] = "mode" /\ msg[m].arg = "streamingOn"
    BY <1>8
  <2>2. PICK new : new = [by |-> m, ms |-> place, on |-> on]
    OBVIOUS
  <2>3. /\ new.ms = place /\ new.on = on /\ requests' = requests \cup {new}
    BY <2>1, <2>2 DEF Issue
  <2>4. UnpaidNotRequested'
    BY <1>3, <1>4, <2>1, <2>3 DEF UnpaidNotRequested, StreamersPaid
  <2>5. ASSUME NEW s \in Servers, s \notin doubtful', s # place
        PROVE  /\ s \notin doubtful /\ (s \in latest' <=> s \in latest)
               /\ \A r \in requests' : r.ms = s => r \in requests
    BY <2>1, <2>3, <2>5 DEF Issue
  <2>6. ASSUME place \in Servers, place \notin doubtful'
        PROVE  /\ place \in latest' <=> on
               /\ \A r \in requests' : r.ms = place => r = new
    BY <2>1, <2>3, <2>6 DEF Issue
  <2>7. OneRequest'
    BY <2>3, <2>5, <2>6 DEF OneRequest
  <2>8. LatestRequestWins'
    BY <2>3, <2>5, <2>6 DEF LatestRequestWins
  <2> QED
    BY <1>3, <1>5, <1>6, <2>4, <2>7, <2>8
<1> QED
  BY <1>7, <1>8

\* A message arrives; a user that is unpaid with its account was so before.
LEMMA ReceiveIInv ==
    ASSUME IInv, TypeOK', NEW m \in Messages, NEW c \in Contents, Receive(m, c)
    PROVE  IInv'
<1> USE DEF IInv
<1>1. /\ pc[m] = "idle" /\ pc' = [pc EXCEPT ![m] = "begin"]
      /\ msg' = [msg EXCEPT ![m] = c]
      /\ UNCHANGED <<mode, user, loaded, requests, recorder, torn, latest,
                     doubtful>>
  BY DEF Receive, Goto
<1>2. /\ pc'[m] = "begin" /\ m \notin Received
      /\ \A n \in Messages \ {m} : pc'[n] = pc[n] /\ msg'[n] = msg[n]
  BY <1>1 DEF TypeOK, Received
<1>3. \A n \in Received : n \in Received' /\ msg'[n] = msg[n]
  BY <1>2 DEF Received
<1>4. /\ KnownAccounts \subseteq KnownAccounts'
      /\ Unpaid(KnownAccounts)' => Unpaid(KnownAccounts)
  BY <1>1, <1>3, KnownGrows
<1>5. Writing' = Writing /\ m \notin Writing
  BY <1>1, <1>2 DEF Writing
<1>6. WriterOwns'
  BY <1>1, <1>2, <1>5 DEF WriterOwns, Writing
<1>7. AccountIsWhole' /\ FieldsKnown'
  BY <1>1, <1>4, <1>5 DEF AccountIsWhole, FieldsKnown
<1>8. StreamersPaid'
  BY <1>1, <1>2, <1>4 DEF StreamersPaid
<1>9. UnpaidNotRequested' /\ UnpaidNeverRecorded'
  BY <1>1, <1>4 DEF UnpaidNotRequested, UnpaidNeverRecorded
<1>10. OneRequest' /\ LatestRequestWins'
  BY <1>1 DEF OneRequest, LatestRequestWins
<1> QED
  BY <1>6, <1>7, <1>8, <1>9, <1>10

\* One half of the update of the user params, the first or the second.
LEMMA CommandIInv ==
    ASSUME IInv, TypeOK', NEW m \in Messages,
           BeginCommand(m) \/ FinishAccount(m)
    PROVE  IInv'
<1> USE DEF IInv
<1>1. /\ UNCHANGED <<mode, loaded, msg, requests, recorder, latest, doubtful>>
      /\ pc[m] \in {"begin", "funds", "tariff"}
      /\ \E to \in {"funds", "tariff", "decide"} : pc' = [pc EXCEPT ![m] = to]
      /\ msg[m].type = "command"
  BY DEF BeginCommand, FinishAccount, Is, Goto, Writing, WriterOwns
<1>2. /\ pc'[m] \in {"funds", "tariff", "decide"} /\ m \in Received
      /\ Received' = Received
      /\ \A n \in Messages \ {m} : pc'[n] = pc[n]
  BY <1>1, GotoType DEF Places
<1>3. KnownAccounts' = KnownAccounts
  BY <1>1, <1>2, KnownSame
<1>4. PICK acc : acc = msg[m].account
  OBVIOUS
<1>5. acc \in KnownAccounts /\ acc \in Account /\ user \in Account
  BY <1>1, <1>2, <1>4, KnownType, MessageType DEF Commands, TypeOK
<1>6. \/ user' = [user EXCEPT !.tariff = acc.tariff]
      \/ user' = [acc EXCEPT !.tariff = user.tariff]
  BY <1>4 DEF BeginCommand, FinishAccount
<1>7. \/ /\ user'.tariff = acc.tariff
         /\ user'.money = user.money /\ user'.privileged = user.privileged
      \/ /\ user'.tariff = user.tariff
         /\ user'.money = acc.money /\ user'.privileged = acc.privileged
  BY <1>5, <1>6 DEF Account
<1>8. FieldsKnown'
  BY <1>3, <1>5, <1>7 DEF FieldsKnown
<1>9. StreamersPaid'
  BY <1>1, <1>2, <1>3 DEF StreamersPaid, Unpaid
<1>10. UnpaidNotRequested' /\ UnpaidNeverRecorded'
  BY <1>1, <1>3 DEF UnpaidNotRequested, UnpaidNeverRecorded, Unpaid
<1>11. OneRequest' /\ LatestRequestWins'
  BY <1>1 DEF OneRequest, LatestRequestWins
<1>12. CASE BeginCommand(m)
  <2>1. /\ pc[m] = "begin" /\ m \notin Writing
        /\ \/ /\ pc'[m] = "funds"
              /\ user' = [user EXCEPT !.tariff = acc.tariff]
           \/ /\ pc'[m] = "tariff"
              /\ user' = [acc EXCEPT !.tariff = user.tariff]
        /\ torn' = (torn \/ Writing # {})
    BY <1>4, <1>12 DEF BeginCommand, Goto, TypeOK, Writing
  <2>2. Writing' = Writing \cup {m}
    BY <1>2, <2>1 DEF Writing
  <2>3. ~torn' => Writing' = {m}
    BY <2>1, <2>2 DEF TypeOK
  <2>4. WriterOwns'
    BY <1>1, <1>2, <1>4, <1>5, <2>1, <2>2, <2>3 DEF WriterOwns, Account
  <2>5. AccountIsWhole'
    BY <2>2 DEF AccountIsWhole
  <2> QED
    BY <1>8, <1>9, <1>10, <1>11, <2>4, <2>5
<1>13. CASE FinishAccount(m)
  <2>1. /\ m \in Writing /\ pc'[m] = "decide" /\ torn' = torn
        /\ IF pc[m] = "funds"
           THEN user' = [acc EXCEPT !.tariff = user.tariff]
           ELSE /\ pc[m] = "tariff"
                /\ user' = [user EXCEPT !.tariff = acc.tariff]
    BY <1>4, <1>13 DEF FinishAccount, Goto, TypeOK, Writing
  <2>2. Writing' = Writing \ {m}
    BY <1>2, <2>1 DEF Writing
  <2>3. ~torn => Writing' = {}
    BY <2>1, <2>2 DEF WriterOwns
  <2>4. WriterOwns'
    BY <1>1, <2>1, <2>2, <2>3 DEF WriterOwns
  <2>5. ~torn => user' = acc
    <3>1. CASE pc[m] = "funds" /\ ~torn
      <4>1. user.tariff = acc.tariff
        BY <1>4, <2>1, <3>1 DEF WriterOwns
      <4> QED
        BY <1>5, <2>1, <3>1, <4>1 DEF Account
    <3>2. CASE pc[m] = "tariff" /\ ~torn
      <4>1. user.money = acc.money /\ user.privileged = acc.privileged
        BY <1>4, <2>1, <3>2 DEF WriterOwns
      <4> QED
        BY <1>5, <2>1, <3>2, <4>1 DEF Account
    <3> QED
      BY <2>1, <3>1, <3>2 DEF Writing
  <2>6. AccountIsWhole'
    BY <1>3, <1>5, <2>1, <2>5 DEF AccountIsWhole
  <2> QED
    BY <1>8, <1>9, <1>10, <1>11, <2>4, <2>6
<1> QED
  BY <1>12, <1>13

\* A statement takes effect or is lost; a request reaches its server or none.
LEMMA TaskIInv ==
    ASSUME IInv, TypeOK',
           \/ \E m \in Messages : RowTask(m)
           \/ \E r \in requests : RecordTask(r)
    PROVE  IInv'
<1> USE DEF IInv
<1>1. /\ UNCHANGED <<mode, user, loaded, msg, pc, torn, latest>>
      /\ Received' = Received /\ Writing' = Writing
  BY DEF RowTask, UpdateRow, UpdateRowFails, RecordTask, Record, RecordFails,
         Received, Writing
<1>2. /\ WriterOwns' /\ AccountIsWhole' /\ FieldsKnown'
      /\ KnownAccounts' = KnownAccounts
      /\ Unpaid(KnownAccounts)' = Unpaid(KnownAccounts)
  BY <1>1, AccountsSame
<1>3. StreamersPaid'
  BY <1>1, <1>2 DEF StreamersPaid
<1>4. ASSUME NEW m \in Messages, RowTask(m)
      PROVE  IInv'
  <2>1. UNCHANGED <<requests, recorder, doubtful>>
    BY <1>4 DEF RowTask, UpdateRow, UpdateRowFails
  <2> QED
    BY <1>1, <1>2, <1>3, <2>1
       DEF UnpaidNotRequested, UnpaidNeverRecorded, OneRequest,
           LatestRequestWins
<1>5. ASSUME NEW r \in requests, Record(r)
      PROVE  IInv'
  <2>1. /\ r.ms # Nil /\ requests' = requests \ {r} /\ doubtful' = doubtful
        /\ recorder' = IF r.on THEN recorder \cup {r.ms}
                       ELSE recorder \ {r.ms}
        /\ r.ms \in Servers
    BY <1>5 DEF Record, TypeOK, Place
  <2>2. UnpaidNotRequested' /\ UnpaidNeverRecorded'
    BY <1>1, <1>2, <2>1 DEF UnpaidNotRequested, UnpaidNeverRecorded
  <2>3. OneRequest'
    BY <1>1, <2>1 DEF OneRequest
  <2>4. ASSUME NEW s \in Servers, s \notin doubtful,
               \A q \in requests' : q.ms # s
        PROVE  s \in recorder' <=> s \in latest
    <3>1. CASE s = r.ms
      BY <2>1, <2>4, <3>1 DEF OneRequest
    <3>2. CASE s # r.ms
      BY <2>1, <2>4, <3>2 DEF LatestRequestWins
    <3> QED
      BY <3>1, <3>2
  <2>5. LatestRequestWins'
    BY <1>1, <2>1, <2>4 DEF LatestRequestWins
  <2> QED
    BY <1>2, <1>3, <2>2, <2>3, <2>5
<1>6. ASSUME NEW r \in requests, RecordFails(r)
      PROVE  IInv'
  <2>1. /\ requests' = requests \ {r} /\ recorder' = recorder
        /\ doubtful' = doubtful \cup {r.ms}
    BY <1>6 DEF RecordFails
  <2> QED
    BY <1>1, <1>2, <1>3, <2>1
       DEF UnpaidNotRequested, UnpaidNeverRecorded, OneRequest,
           LatestRequestWins
<1> QED
  BY <1>4, <1>5, <1>6 DEF RecordTask

\* Each place a handler goes to, with the reason it goes there.
LEMMA HandleIInv ==
    ASSUME IInv, TypeOK', NEW m \in Messages, Handle(m)
    PROVE  IInv'
<1> USE DEF IInv
<1>1. CASE BeginState(m)
  <2>1. /\ AfterState(m) \in {"store", "restore", "done"}
        /\ AfterState(m) = "store" => CanBeRecorded(user)
        /\ AfterState(m) = "restore" => msg[m].arg = "streamingOff"
    BY DEF AfterState
  <2> QED
    BY <1>1, <2>1, HandlerIInv DEF BeginState, Is, Goto, Places
<1>2. CASE StoreParams(m)
  BY <1>2, HandlerIInv DEF StoreParams, IssueNone, Goto, Places
<1>3. CASE RestoreParams(m)
  BY <1>3, HandlerIInv
     DEF RestoreParams, IssueNone, Goto, Places, StreamersPaid
<1>4. CASE ClearParams(m)
  BY <1>4, HandlerIInv DEF ClearParams, IssueNone, Goto, Places
<1>5. CASE CheckMode(m)
  <2>1. /\ pc[m] = "mode" /\ pc' = [pc EXCEPT ![m] = "done"]
        /\ \/ IssueNone
           \/ Issue(m, address[m], msg[m].arg = "streamingOn")
        /\ address[m] \in Place
    BY <1>5 DEF CheckMode, Goto, TypeOK
  <2> QED
    BY <1>5, <2>1, HandlerIInv DEF CheckMode, Places
<1>6. CASE ProcessMotion(m)
  <2>1. /\ pc[m] = "begin" /\ pc' = [pc EXCEPT ![m] = "done"]
        /\ \/ IssueNone
           \/ mode = "motion" /\ Issue(m, address[m], msg[m].arg = "on")
        /\ address[m] \in Place
    BY <1>6 DEF ProcessMotion, Is, Goto, TypeOK
  <2> QED
    BY <1>6, <2>1, HandlerIInv DEF ProcessMotion, Places
<1>7. CASE ProcessCloudStreaming(m)
  BY <1>7, HandlerIInv DEF ProcessCloudStreaming, Is, Goto, Places
<1>8. CASE Decide(m)
  <2>1. /\ pc[m] = "decide" /\ pc' = [pc EXCEPT ![m] = "done"]
        /\ \/ IssueNone
           \/ CanBeRecorded(user) /\ Issue(m, stored, TRUE)
           \/ Issue(m, stored, FALSE)
        /\ stored \in Place
    BY <1>8 DEF Decide, Starts, Goto, TypeOK
  <2> QED
    BY <1>8, <2>1, HandlerIInv DEF Decide, Places
<1> QED
  BY <1>1, <1>2, <1>3, <1>4, <1>5, <1>6, <1>7, <1>8, CommandIInv DEF Handle

LEMMA NextIInv ==
    ASSUME IInv, [Next]_vars
    PROVE  IInv'
<1>1. TypeOK'
  BY TypeStep DEF IInv
<1>2. CASE UNCHANGED vars
  <2>1. /\ UNCHANGED <<user, loaded, msg, torn>>
        /\ Received' = Received /\ Writing' = Writing
        /\ \A m \in Writing : pc'[m] = pc[m]
    BY <1>2 DEF vars, Received, Writing
  <2>2. /\ WriterOwns' /\ AccountIsWhole' /\ FieldsKnown'
        /\ KnownAccounts' = KnownAccounts
        /\ Unpaid(KnownAccounts)' = Unpaid(KnownAccounts)
    BY <2>1, AccountsSame
  <2> QED
    BY <1>1, <1>2, <2>2
       DEF vars, IInv, StreamersPaid, UnpaidNotRequested,
           UnpaidNeverRecorded, OneRequest, LatestRequestWins
<1> QED
  BY <1>1, <1>2, ReceiveIInv, HandleIInv, TaskIInv DEF Next

LEMMA InitIInv == Init => IInv
<1> SUFFICES ASSUME Init PROVE IInv
  OBVIOUS
<1>1. TypeOK
  BY InitType
<1>2. Writing = {} /\ user \in KnownAccounts
  BY <1>1, KnownType DEF Init, Writing
<1> QED
  BY <1>1, <1>2
     DEF Init, IInv, WriterOwns, AccountIsWhole, FieldsKnown, StreamersPaid,
         UnpaidNotRequested, UnpaidNeverRecorded, OneRequest,
         LatestRequestWins

\* The strengthening is an invariant of every behaviour.
THEOREM Inductive == Spec => []IInv
<1> QED
  BY InitIInv, NextIInv, PTL DEF Spec
-----------------------------------------------------------------------------
\* Outside motion mode no user is recorded who never had an account that pays
\* for it, whatever order the handlers of the camera run in and however their
\* unlocked accesses to the user params mix (processCameraState,
\* processCameraCommand).
THEOREM UnpaidNever == Spec => []UnpaidNeverRecorded
<1>1. IInv => UnpaidNeverRecorded
  BY DEF IInv
<1> QED
  BY <1>1, Inductive, PTL

\* Unless two requests were on their way to one media server, or one was
\* lost, it does what the latest asked for (RecordMediaStreamTask).
THEOREM LatestWins == Spec => []LatestRequestWins
<1>1. IInv => LatestRequestWins
  BY DEF IInv
<1> QED
  BY <1>1, Inductive, PTL

\* Unless two commands overlapped, the unlocked update of the user params
\* leaves those of one account (processCameraCommand).
THEOREM AccountWhole == Spec => []AccountIsWhole
<1>1. IInv => AccountIsWhole
  BY DEF IInv
<1> QED
  BY <1>1, Inductive, PTL
-----------------------------------------------------------------------------
(* Messages that come one at a time.                                       *)

On(m) == msg[m].arg = "streamingOn"
Off(m) == msg[m].arg = "streamingOff"

\* Messages are numbered as they come.
Numbered == \E k \in Nat : Received = 1..k

\* Where a handler is says what it handles; only "streamingOff" gets another
\* address.
HandlersKnow ==
    \A m \in Received :
        /\ pc[m] = "store" => m \in Streams /\ On(m)
        /\ pc[m] \in {"restore", "clear"} => m \in Streams /\ Off(m)
        /\ pc[m] = "mode" => m \in Streams
        /\ pc[m] \in {"funds", "tariff", "decide"} => m \in Commands
        /\ m \in rowTasks => m \in Rows
        /\ address[m] # msg[m].ms => m \in Streams /\ Off(m)

\* Only the last message has a handler, a task or a request under way, and
\* one request at most.
OneAtATime ==
    ~overlap =>
        /\ \A m \in Received : ~Last(m, Received) =>
                pc[m] = "done" /\ m \notin rowTasks
        /\ \A r \in requests : Last(r.by, Received) /\ pc[r.by] = "done"
        /\ \A r, q \in requests : r = q
        /\ ~torn
        /\ ~fault => doubtful \cap Servers = {}

\* The user params are those of the last command.
UserFollows ==
    ~overlap =>
        /\ Received = {} => user = loaded
        /\ \A m \in Received : Last(m, Received) =>
              IF m \in Commands /\ pc[m] # "begin"
              THEN /\ pc[m] \in {"decide", "done"} => user = msg[m].account
                   /\ pc[m] # "done" => prev[m] = AccountAt(m).tariff
              ELSE user = AccountAt(m)

\* The stored address is that of the stream n, which was paid for and goes on.
StoredStream(n) ==
    /\ n \in Streams /\ On(n) /\ pc[n] \in {"mode", "done"}
    /\ msg[n].ms = stored /\ CanBeRecorded(AccountAt(n))
    /\ \A k \in Streams :
          k > n => On(k) \/ pc[k] \in {"begin", "restore", "clear"}

\* What the handler of a message knows of the stored address.
HandlerStored(m) ==
    /\ pc[m] = "store" => CanBeRecorded(AccountAt(m))
    /\ pc[m] = "clear" => address[m] = stored
    /\ pc[m] = "mode" => stored = IF On(m) THEN msg[m].ms ELSE Nil
    /\ m \in Streams /\ Off(m) => address[m] \in Endings(m)

StoredFollows ==
    ~overlap =>
        /\ stored # Nil => \E n \in Streams : StoredStream(n)
        /\ \A m \in Received : HandlerStored(m)

\* What the row must say once the task of m has ended.
RowSays(m) ==
    /\ Last(m, Rows) => (row.onair <=> Onair(m))
    /\ Last(m, Streams) =>
          row.ip \in IF On(m) THEN {msg[m].ms} ELSE Endings(m)

RowFollows ==
    ~overlap /\ ~fault =>
        \A m \in Received :
            pc[m] # "begin" /\ m \notin rowTasks => RowSays(m)

\* In continuous mode only the stored server was asked to record, or the one
\* that is about to be asked to stop.
StopsWhatItStarted ==
    ~overlap /\ mode = "continuous" /\ ~Moved =>
        \A s \in latest \cap Servers :
            \/ s = stored
            \/ \E m \in Received : pc[m] = "mode" /\ Off(m) /\ s = address[m]

\* The user has paid since the stream m began.
PaidSince(m) ==
    /\ m \in Streams /\ On(m) /\ Paying(AccountAt(m))
    /\ \A n \in Commands : n > m =>
            msg[n].arg = "continuous" /\ Paying(msg[n].account)

\* In continuous mode a server was asked to record the stream that is paid
\* for, and not to stop.
StartsWhatIsPaid ==
    ~overlap /\ mode = "continuous" =>
        \A m \in Received :
            PaidSince(m) /\ Last(m, Streams) /\ pc[m] = "done"
            => msg[m].ms \in latest

\* Neither a command nor the end of a stream has come since m.
Undisturbed(m) ==
    \A n \in Received : n > m => msg[n].type # "command" /\ ~Off(n)

\* In motion mode MotionInProcess and the latest request are as the motion
\* detector said.
MotionFollows ==
    ~overlap /\ mode = "motion" =>
        \A m \in Received :
            Last(m, Data) /\ pc[m] = "done" /\ Undisturbed(m) =>
            /\ motion <=> msg[m].arg = "on"
            /\ msg[m].ms \in latest <=> msg[m].arg = "on"

\* The strengthening for messages that come one at a time.
SeqInv ==
    /\ Numbered
    /\ HandlersKnow
    /\ OneAtATime
    /\ UserFollows
    /\ StoredFollows
    /\ RowFollows
    /\ StopsWhatItStarted
    /\ StartsWhatIsPaid
    /\ MotionFollows
-----------------------------------------------------------------------------
(* What is said of the messages received.                                  *)

\* What sort of a message a message is.
LEMMA ReceivedType ==
    ASSUME TypeOK
    PROVE  /\ Received \subseteq Messages /\ Messages \subseteq Nat
           /\ Streams \subseteq Rows /\ Rows \subseteq Received
           /\ Commands \subseteq Received /\ Data \subseteq Received
           /\ \A m \in Streams : /\ m \notin Commands /\ m \notin Data
                                 /\ On(m) \/ Off(m)
           /\ \A m \in Data \cup Rows : m \notin Commands
           /\ Data \cap Rows = {}
           /\ \A m : ~(On(m) /\ Off(m))
  BY DEF Received, Messages, Streams, Rows, Commands, Data, NamesServer, On,
         Off

\* Of some messages one is the last.
LEMMA LastExists ==
    ASSUME Numbered, NEW S \in SUBSET Received, S # {}
    PROVE  \E m \in S : Last(m, S)
<1>0. PICK k \in Nat : Received = 1..k
  BY DEF Numbered
<1> DEFINE T == {i \in Nat : k - i \in S}
           R == OpToRel(<, Nat)
<1>1. PICK s \in S : TRUE
  OBVIOUS
<1>2. T \subseteq Nat /\ k - s \in T
  BY <1>0, <1>1
<1>3. IsWellFoundedOn(R, Nat)
  BY NatLessThanWellFounded, Zenon
<1>4. \A i, j \in Nat : <<j, i>> \in R <=> j < i
  BY DEF OpToRel
<1> HIDE DEF T, R
<1>5. PICK i \in T : \A j \in T : ~(<<j, i>> \in R)
  BY <1>2, <1>3, WFMin, Zenon
<1>6. \A j \in T : ~(j < i)
  BY <1>2, <1>4, <1>5
<1>7. k - i \in S /\ i \in Nat
  BY <1>5 DEF T
<1>8. ASSUME NEW n \in S PROVE n <= k - i
  <2>1. k - n \in T
    BY <1>0 DEF T
  <2> QED
    BY <1>0, <1>6, <1>7, <2>1
<1> QED
  BY <1>7, <1>8 DEF Last

\* The newest of some messages is the last.
LEMMA NewestIs ==
    ASSUME NEW S \in SUBSET Nat, NEW m \in S, Last(m, S)
    PROVE  Newest(S) = m
<1>1. Newest(S) \in S /\ Last(Newest(S), S)
  BY DEF Newest, Last
<1>2. /\ Newest(S) \in Nat /\ m \in Nat
      /\ Newest(S) <= m /\ m <= Newest(S)
  BY <1>1 DEF Last
<1> QED
  BY <1>2

\* A command brings an account, any other message leaves it.
LEMMA AccountNext ==
    ASSUME TypeOK, NEW m \in Received
    PROVE  AccountAt(m + 1) = IF m \in Commands THEN msg[m].account
                              ELSE AccountAt(m)
<1>1. /\ m \in Nat /\ Commands \in SUBSET Nat
  BY ReceivedType
<1>2. CASE m \in Commands
  <2>1. /\ m \in Before(m + 1) /\ Before(m + 1) \in SUBSET Nat
        /\ Last(m, Before(m + 1))
    <3>1. \A n \in Commands : n \in Nat /\ (n < m + 1 => n <= m)
      BY <1>1
    <3>2. m < m + 1
      BY <1>1
    <3> QED
      BY <1>1, <1>2, <3>1, <3>2 DEF Before, Last
  <2>2. Newest(Before(m + 1)) = m
    BY <2>1, NewestIs
  <2> QED
    BY <1>2, <2>1, <2>2 DEF AccountAt
<1>3. CASE m \notin Commands
  <2>1. \A n \in Commands : n < m + 1 <=> n < m
    BY <1>1, <1>3
  <2>2. Before(m + 1) = Before(m)
    BY <2>1 DEF Before
  <2> QED
    BY <1>3, <2>2 DEF AccountAt
<1> QED
  BY <1>2, <1>3

\* Without a message nothing changes.
LEMMA HistorySame ==
    ASSUME Received' = Received, msg' = msg, loaded' = loaded
    PROVE  /\ Streams' = Streams /\ Rows' = Rows
           /\ Commands' = Commands /\ Data' = Data
           /\ Moved' = Moved
           /\ \A m : /\ On(m)' = On(m) /\ Off(m)' = Off(m)
                     /\ Onair(m)' = Onair(m)
                     /\ AccountAt(m)' = AccountAt(m)
                     /\ Endings(m)' = Endings(m)
                     /\ PaidSince(m)' = PaidSince(m)
                     /\ Undisturbed(m)' = Undisturbed(m)
<1>1. /\ Streams' = Streams /\ Rows' = Rows
      /\ Commands' = Commands /\ Data' = Data
  BY DEF Streams, Rows, Commands, Data, NamesServer
<1>2. Moved' = Moved
  BY <1>1 DEF Moved
<1>3. ASSUME NEW m PROVE AccountAt(m)' = AccountAt(m)
  <2>1. Before(m)' = Before(m)
    BY <1>1 DEF Before
  <2> QED
    BY <2>1 DEF AccountAt
<1>4. ASSUME NEW m
      PROVE  /\ On(m)' = On(m) /\ Off(m)' = Off(m) /\ Onair(m)' = Onair(m)
             /\ Endings(m)' = Endings(m)
  BY <1>1, <1>3 DEF On, Off, Onair, Endings
<1>5. ASSUME NEW m
      PROVE  /\ PaidSince(m)' = PaidSince(m)
             /\ Undisturbed(m)' = Undisturbed(m)
  BY <1>1, <1>3, <1>4 DEF PaidSince, Undisturbed
<1> QED
  BY <1>1, <1>2, <1>3, <1>4, <1>5

\* A new message is the last; what was said of the others stays true.
LEMMA HistoryGrows ==
    ASSUME TypeOK, Numbered, NEW m \in Messages, NEW c \in Contents,
           Receive(m, c)
    PROVE  /\ m \notin Received /\ Received' = Received \cup {m}
           /\ \A n \in Received : n < m /\ (n + 1 < m => n + 1 \in Received)
           /\ pc'[m] = "begin" /\ address'[m] = msg'[m].ms
           /\ \A n \in Received : /\ pc'[n] = pc[n] /\ msg'[n] = msg[n]
                                  /\ address'[n] = address[n]
                                  /\ n \in Streams' <=> n \in Streams
                                  /\ n \in Rows' <=> n \in Rows
                                  /\ n \in Commands' <=> n \in Commands
                                  /\ n \in Data' <=> n \in Data
           /\ \A n \in Received' : AccountAt(n)' = AccountAt(n)
<1>1. /\ pc[m] = "idle" /\ pc' = [pc EXCEPT ![m] = "begin"]
      /\ msg' = [msg EXCEPT ![m] = c]
      /\ address' = [address EXCEPT ![m] = c.ms]
      /\ m = Cardinality(Received) + 1 /\ loaded' = loaded
  BY DEF Receive, Goto
<1>2. /\ m \notin Received /\ Received' = Received \cup {m}
      /\ pc'[m] = "begin" /\ address'[m] = msg'[m].ms
  BY <1>1 DEF TypeOK, Received
<1>3. PICK k \in Nat : Received = 1..k
  BY DEF Numbered
<1>4. Cardinality(Received) = k
  BY <1>3, FS_Interval
<1>5. \A n \in Received : n < m /\ (n + 1 < m => n + 1 \in Received)
  BY <1>1, <1>3, <1>4
<1>6. \A n \in Received : /\ pc'[n] = pc[n] /\ msg'[n] = msg[n]
                          /\ address'[n] = address[n]
  BY <1>1, <1>2 DEF TypeOK, Received
<1>7. ASSUME NEW n \in Received
      PROVE  /\ n \in Streams' <=> n \in Streams
             /\ n \in Rows' <=> n \in Rows
             /\ n \in Commands' <=> n \in Commands
             /\ n \in Data' <=> n \in Data
  BY <1>2, <1>6 DEF Streams, Rows, Commands, Data, NamesServer
<1>8. ASSUME NEW n \in Received'
      PROVE  AccountAt(n)' = AccountAt(n)
  <2>1. n <= m /\ n \in Nat /\ Received \subseteq Nat /\ m \in Nat
    BY <1>2, <1>5, ReceivedType
  <2>2. ~(m < n)
    BY <2>1
  <2>3. /\ \A i \in Commands' : i < n => i \in Commands
        /\ \A i \in Commands : i \in Commands'
    BY <1>2, <1>7, <2>2 DEF Commands
  <2>4. Before(n)' = Before(n)
    BY <2>3 DEF Before
  <2>5. CASE Before(n) = {}
    BY <1>1, <2>4, <2>5 DEF AccountAt
  <2>6. CASE Before(n) # {}
    <3>1. Before(n) \subseteq Received
      BY DEF Before, Commands
    <3>2. Newest(Before(n)) \in Received
      BY <2>1, <2>6, <3>1, LastExists, NewestIs
    <3>3. msg'[Newest(Before(n))] = msg[Newest(Before(n))]
      BY <1>6, <3>2
    <3> QED
      BY <2>4, <2>6, <3>3 DEF AccountAt
  <2> QED
    BY <2>5, <2>6
<1> QED
  BY <1>2, <1>5, <1>6, <1>7, <1>8

\* What HistoryGrows says, for what is built from streams and accounts.
LEMMA StreamsGrow ==
    ASSUME TypeOK, Numbered, NEW m \in Messages, NEW c \in Contents,
           Receive(m, c)
    PROVE  /\ \A n \in Received : /\ On(n)' <=> On(n)
                                  /\ Off(n)' <=> Off(n)
                                  /\ Onair(n)' <=> Onair(n)
                                  /\ Endings(n)' = Endings(n)
                                  /\ PaidSince(n)' => PaidSince(n)
                                  /\ Undisturbed(n)' => Undisturbed(n)
           /\ \A n \in Received :
                  /\ Last(n, Streams') => Last(n, Streams) /\ m \notin Streams'
                  /\ Last(n, Rows') => Last(n, Rows) /\ m \notin Rows'
                  /\ Last(n, Data') => Last(n, Data) /\ m \notin Data'
           /\ Moved => Moved'
<1>1. /\ m \notin Received /\ Received' = Received \cup {m} /\ m \in Nat
      /\ \A n \in Received : n < m /\ n \in Nat
      /\ \A n \in Received : ~(m < n) /\ ~(m <= n)
      /\ \A n \in Received : /\ msg'[n] = msg[n]
                             /\ n \in Streams' <=> n \in Streams
                             /\ n \in Rows' <=> n \in Rows
                             /\ n \in Commands' <=> n \in Commands
                             /\ n \in Data' <=> n \in Data
                             /\ AccountAt(n)' = AccountAt(n)
  <2>1. Received \subseteq Nat /\ m \in Nat
    BY ReceivedType
  <2>2. \A n \in Received : n < m
    BY HistoryGrows
  <2>3. \A n \in Received : ~(m < n) /\ ~(m <= n)
    BY <2>1, <2>2
  <2> QED
    BY <2>1, <2>2, <2>3, HistoryGrows
<1>2. /\ Streams \subseteq Received /\ Commands \subseteq Received
      /\ Streams' \subseteq Received' /\ Commands' \subseteq Received'
      /\ Rows \subseteq Received /\ Data \subseteq Received
  BY DEF Streams, Commands, Rows, Data
<1>3. ASSUME NEW n \in Received
      PROVE  /\ On(n)' <=> On(n)
             /\ Off(n)' <=> Off(n)
             /\ Onair(n)' <=> Onair(n)
             /\ Undisturbed(n)' => Undisturbed(n)
  BY <1>1 DEF On, Off, Onair, Undisturbed
<1>4. ASSUME NEW n \in Received PROVE Endings(n)' = Endings(n)
  <2> DEFINE K == {k \in Streams : k < n /\ CanBeRecorded(AccountAt(k))}
  <2>1. K' = K /\ K \subseteq Received
    BY <1>1, <1>2
  <2>2. {msg[k].ms : k \in K}' = {msg[k].ms : k \in K}
    BY <1>1, <2>1
  <2>3. msg'[n].ms = msg[n].ms
    BY <1>1
  <2> QED
    BY <2>2, <2>3 DEF Endings
<1>5. ASSUME NEW n \in Received, PaidSince(n)' PROVE PaidSince(n)
  <2>1. \A k \in Commands : k \in Commands' /\ msg'[k] = msg[k]
    BY <1>1, <1>2
  <2>2. Paying(AccountAt(n))' <=> Paying(AccountAt(n))
    BY <1>1 DEF Paying, CanBeRecorded
  <2> QED
    BY <1>1, <1>3, <1>5, <2>1, <2>2 DEF PaidSince, Paying, CanBeRecorded
<1>6. ASSUME NEW n \in Received
      PROVE  /\ Last(n, Streams') => Last(n, Streams) /\ m \notin Streams'
             /\ Last(n, Rows') => Last(n, Rows) /\ m \notin Rows'
             /\ Last(n, Data') => Last(n, Data) /\ m \notin Data'
  BY <1>1, <1>2 DEF Last
<1>7. Moved => Moved'
  <2>1. ASSUME NEW i \in Streams, NEW j \in Streams, i < j,
               msg[i].arg = "streamingOn", msg[j].arg = "streamingOn",
               msg[i].ms # msg[j].ms,
               \A k \in Streams : i < k /\ k < j => msg[k].arg = "streamingOn"
        PROVE  Moved'
    <3>1. i \in Streams' /\ j \in Streams'
      BY <1>1, <1>2
    <3>2. ASSUME NEW k \in Streams', i < k, k < j
          PROVE  msg'[k].arg = "streamingOn"
      BY <1>1, <1>2, <2>1, <3>2
    <3> QED
      BY <1>1, <1>2, <2>1, <3>1, <3>2 DEF Moved
  <2> QED
    BY <2>1 DEF Moved
<1>8. \A n \in Received : /\ On(n)' <=> On(n)
                          /\ Off(n)' <=> Off(n)
                          /\ Onair(n)' <=> Onair(n)
                          /\ Undisturbed(n)' => Undisturbed(n)
  BY <1>3
<1>9. \A n \in Received : /\ Endings(n)' = Endings(n)
                          /\ PaidSince(n)' => PaidSince(n)
  BY <1>4, <1>5
<1> QED
  BY <1>6, <1>7, <1>8, <1>9
-----------------------------------------------------------------------------
(* One message at a time.                                                  *)

\* A handler that is not done handles the last message, and nothing else is
\* under way.
LEMMA AtWork ==
    ASSUME TypeOK, Numbered, OneAtATime, ~overlap, NEW m \in Received,
           pc[m] # "done" \/ m \in rowTasks
    PROVE  /\ Last(m, Received)
           /\ pc[m] # "done" => requests = {}
           /\ \A n \in Received \ {m} : /\ pc[n] = "done" /\ n \notin rowTasks
                                        /\ n < m /\ ~(m <= n)
           /\ \A n \in Received : ~(n > m)
<1>1. Last(m, Received)
  BY DEF OneAtATime
<1>2. Received \subseteq Nat
  BY ReceivedType
<1>3. ASSUME NEW n \in Received, n # m
      PROVE  ~Last(n, Received) /\ n < m /\ ~(m <= n)
  <2>1. n <= m /\ n \in Nat /\ m \in Nat
    BY <1>1, <1>2 DEF Last
  <2>2. n < m /\ ~(m <= n)
    BY <1>3, <2>1
  <2> QED
    BY <2>2 DEF Last
<1>4. pc[m] # "done" => requests = {}
  <2>1. ASSUME NEW r \in requests, pc[m] # "done" PROVE FALSE
    <3>1. Last(r.by, Received) /\ pc[r.by] = "done"
      BY DEF OneAtATime
    <3>2. r.by # m /\ r.by \in Received
      BY <2>1, <3>1 DEF Last
    <3> QED
      BY <1>3, <3>1, <3>2
  <2> QED
    BY <2>1
<1>5. \A n \in Received : ~(n > m)
  <2>1. ASSUME NEW n \in Received PROVE ~(n > m)
    <3>1. n <= m /\ n \in Nat /\ m \in Nat
      BY <1>1, <1>2 DEF Last
    <3> QED
      BY <3>1
  <2> QED
    BY <2>1
<1> QED
  BY <1>1, <1>3, <1>4, <1>5 DEF OneAtATime

\* What the handler of a message leaves alone.
LEMMA HandleKeeps ==
    ASSUME TypeOK, NEW m \in Messages, Handle(m)
    PROVE  /\ m \in Received /\ pc[m] # "done" /\ Received' = Received
           /\ UNCHANGED <<mode, loaded, msg, row, recorder, overlap, fault>>
           /\ \A n \in Messages \ {m} : /\ pc'[n] = pc[n] /\ prev'[n] = prev[n]
                                        /\ address'[n] = address[n]
           /\ \A n \in Messages \ {m} : n \in rowTasks' <=> n \in rowTasks
           /\ pc'[m] # "begin"
<1>1. /\ UNCHANGED <<mode, loaded, msg, row, recorder, overlap, fault>>
      /\ \A n \in Messages \ {m} : n \in rowTasks' <=> n \in rowTasks
  BY DEF Handle, BeginState, StoreParams, RestoreParams, ClearParams,
         CheckMode, ProcessMotion, ProcessCloudStreaming, BeginCommand,
         FinishAccount, Decide
<1>2. \E to \in Places \ {"idle", "begin"} :
          /\ pc' = [pc EXCEPT ![m] = to]
          /\ pc[m] \in Places \ {"idle", "done"}
  BY DEF Handle, BeginState, StoreParams, RestoreParams, ClearParams, Is,
         CheckMode, ProcessMotion, ProcessCloudStreaming, BeginCommand,
         FinishAccount, Decide, Goto, AfterState, Places, Writing
<1>3. /\ m \in Received /\ Received' = Received /\ pc'[m] # "begin"
      /\ pc[m] # "done" /\ \A n \in Messages \ {m} : pc'[n] = pc[n]
  BY <1>2, GotoType DEF Places
<1>4. \A n \in Messages \ {m} : prev'[n] = prev[n] /\ address'[n] = address[n]
  BY DEF TypeOK, Handle, BeginState, StoreParams, RestoreParams, ClearParams,
         CheckMode, ProcessMotion, ProcessCloudStreaming, BeginCommand,
         FinishAccount, Decide
<1> QED
  BY <1>1, <1>3, <1>4

\* What a handler does about record tasks.
LEMMA HandleIssues ==
    ASSUME NEW m \in Messages, Handle(m), ~IssueNone
    PROVE  \/ CheckMode(m) /\ Recorded /\ Issue(m, address[m], On(m))
           \/ /\ ProcessMotion(m) /\ mode = "motion"
              /\ Issue(m, address[m], msg[m].arg = "on")
           \/ Decide(m) /\ Starts(m) /\ Issue(m, stored, TRUE)
           \/ Decide(m) /\ ~Starts(m) /\ Stops(m) /\ Issue(m, stored, FALSE)
  BY DEF Handle, BeginState, StoreParams, RestoreParams, ClearParams,
         CheckMode, ProcessMotion, ProcessCloudStreaming, BeginCommand,
         FinishAccount, Decide, IssueNone, On

\* What the tasks leave alone.
LEMMA TaskKeeps ==
    ASSUME \/ \E m \in Messages : RowTask(m)
           \/ \E r \in requests : RecordTask(r)
    PROVE  /\ UNCHANGED <<mode, stored, motion, user, loaded, msg, address,
                          prev, pc, overlap, torn, latest>>
           /\ Received' = Received
           /\ rowTasks' \subseteq rowTasks /\ requests' \subseteq requests
  BY DEF RowTask, UpdateRow, UpdateRowFails, RecordTask, Record, RecordFails,
         Received

\* The parts of the inductive invariant that the others rest on.
Ordered == TypeOK /\ Numbered /\ HandlersKnow /\ OneAtATime /\ UserFollows

\* Whatever happens, messages stay numbered and handlers know what they do.
LEMMA KnowStep ==
    ASSUME TypeOK, Numbered, HandlersKnow, Next
    PROVE  Numbered' /\ HandlersKnow'
<1>1. ASSUME NEW m \in Messages, NEW c \in Contents, Receive(m, c)
      PROVE  Numbered' /\ HandlersKnow'
  <2>1. PICK k \in Nat : Received = 1..k
    BY DEF Numbered
  <2>2. m = k + 1
    <3>1. Cardinality(Received) = k
      BY <2>1, FS_Interval
    <3> QED
      BY <1>1, <3>1 DEF Receive
  <2>3. Received' = Received \cup {m}
    BY <1>1, HistoryGrows
  <2>4. Received' = 1..(k + 1)
    BY <2>1, <2>2, <2>3
  <2>5. Numbered'
    BY <2>4 DEF Numbered
  <2>6. rowTasks' = rowTasks /\ m \notin rowTasks
    BY <1>1, HistoryGrows DEF Receive, TypeOK
  <2>7. \A n \in Received : On(n)' <=> On(n)
    BY <1>1, StreamsGrow
  <2>8. \A n \in Received : Off(n)' <=> Off(n)
    BY <1>1, StreamsGrow
  <2>9. HandlersKnow'
    BY <1>1, <2>3, <2>6, <2>7, <2>8, HistoryGrows DEF HandlersKnow
  <2> QED
    BY <2>5, <2>9
<1>2. ASSUME NEW m \in Messages, Handle(m)
      PROVE  Numbered' /\ HandlersKnow'
  <2>1. /\ Streams' = Streams /\ Rows' = Rows /\ Commands' = Commands
        /\ \A n : On(n)' = On(n) /\ Off(n)' = Off(n)
    BY <1>2, HandleKeeps, HistorySame
  <2>2. /\ Received' = Received /\ m \in Received
        /\ \A n \in Messages \ {m} : /\ pc'[n] = pc[n]
                                     /\ address'[n] = address[n]
                                     /\ n \in rowTasks' <=> n \in rowTasks
        /\ msg' = msg
    BY <1>2, HandleKeeps
  <2>3. /\ pc'[m] = "store" => m \in Streams /\ On(m)
        /\ pc'[m] \in {"restore", "clear"} => m \in Streams /\ Off(m)
        /\ pc'[m] = "mode" => m \in Streams
    BY <1>2, <2>2
       DEF TypeOK, HandlersKnow, Handle, BeginState, StoreParams,
           RestoreParams, ClearParams, CheckMode, ProcessMotion,
           ProcessCloudStreaming, BeginCommand, FinishAccount, Decide, Is,
           Goto, AfterState, Streams, NamesServer, On, Off, Writing
  <2>4. /\ pc'[m] \in {"funds", "tariff", "decide"} => m \in Commands
        /\ m \in rowTasks' => m \in Rows
    BY <1>2, <2>2
       DEF TypeOK, HandlersKnow, Handle, BeginState, StoreParams,
           RestoreParams, ClearParams, CheckMode, ProcessMotion,
           ProcessCloudStreaming, BeginCommand, FinishAccount, Decide, Is,
           Goto, AfterState, Commands, Rows, Writing
  <2>5. address'[m] # msg[m].ms => m \in Streams /\ Off(m)
    BY <1>2, <2>2
       DEF HandlersKnow, Handle, BeginState, StoreParams, RestoreParams,
           ClearParams, CheckMode, ProcessMotion, ProcessCloudStreaming,
           BeginCommand, FinishAccount, Decide, Goto
  <2>6. Numbered'
    BY <2>2 DEF Numbered
  <2> QED
    BY <2>1, <2>2, <2>3, <2>4, <2>5, <2>6, ReceivedType DEF HandlersKnow
<1>3. ASSUME \/ \E m \in Messages : RowTask(m)
             \/ \E r \in requests : RecordTask(r)
      PROVE  Numbered' /\ HandlersKnow'
  <2>1. /\ UNCHANGED <<pc, msg, address>> /\ Received' = Received
        /\ rowTasks' \subseteq rowTasks
    BY <1>3, TaskKeeps
  <2>2. /\ Streams' = Streams /\ Rows' = Rows /\ Commands' = Commands
        /\ \A n : On(n)' = On(n) /\ Off(n)' = Off(n)
    BY <1>3, TaskKeeps, HistorySame
  <2> QED
    BY <2>1, <2>2 DEF Numbered, HandlersKnow
<1> QED
  BY <1>1, <1>2, <1>3 DEF Next

\* A message that comes alone finds all the others handled.
LEMMA ComesAlone ==
    ASSUME TypeOK, NEW m \in Messages, NEW c \in Contents, Receive(m, c),
           ~overlap'
    PROVE  /\ ~overlap /\ rowTasks = {} /\ requests = {}
           /\ \A n \in Received : pc[n] = "done"
  BY DEF Receive, AtRest, InFlight, TypeOK

\* A message that comes alone stays alone until the next one comes.
LEMMA AtATimeStep ==
    ASSUME Ordered, Next
    PROVE  OneAtATime'
<1> USE DEF Ordered
<1> SUFFICES ASSUME ~overlap' PROVE OneAtATime'
  BY DEF OneAtATime
<1>1. ASSUME NEW m \in Messages, NEW c \in Contents, Receive(m, c)
      PROVE  OneAtATime'
  <2>1. /\ ~overlap /\ rowTasks' = {} /\ requests' = {}
        /\ \A n \in Received : pc[n] = "done"
        /\ torn' = torn /\ fault' = fault /\ doubtful' = doubtful
    BY <1>1, ComesAlone DEF Receive
  <2>2. /\ Received' = Received \cup {m} /\ m \in Nat
        /\ \A n \in Received : pc'[n] = pc[n] /\ n < m /\ n \in Nat
    BY <1>1, HistoryGrows, ReceivedType
  <2>3. Last(m, Received')
    BY <2>2 DEF Last
  <2> QED
    BY <2>1, <2>2, <2>3 DEF OneAtATime
<1>2. ASSUME NEW m \in Messages, Handle(m)
      PROVE  OneAtATime'
  <2>1. /\ m \in Received /\ Received' = Received /\ ~overlap
        /\ pc[m] # "done" /\ fault' = fault
        /\ \A n \in Messages \ {m} : /\ pc'[n] = pc[n]
                                     /\ n \in rowTasks' <=> n \in rowTasks
    BY <1>2, HandleKeeps
  <2>2. /\ Last(m, Received) /\ requests = {}
        /\ \A n \in Received \ {m} : pc[n] = "done" /\ n \notin rowTasks
    BY <2>1, AtWork
  <2>3. \A n \in Received : ~Last(n, Received) =>
            pc'[n] = "done" /\ n \notin rowTasks'
    BY <2>1, <2>2, ReceivedType
  <2>4. /\ \A r \in requests' : r.by = m /\ pc'[m] = "done"
        /\ \A r, q \in requests' : r = q
        /\ doubtful' = doubtful
    <3>1. CASE IssueNone
      BY <2>2, <3>1 DEF IssueNone, requestVars
    <3>2. CASE ~IssueNone
      <4>1. /\ pc' = [pc EXCEPT ![m] = "done"]
            /\ \E place, on : Issue(m, place, on)
        BY <1>2, <3>2, HandleIssues DEF CheckMode, ProcessMotion, Decide, Goto
      <4> QED
        BY <2>2, <4>1 DEF Issue, TypeOK
    <3> QED
      BY <3>1, <3>2
  <2>5. torn' = torn
    <3>1. CASE BeginCommand(m)
      <4>1. pc[m] = "begin"
        BY <3>1 DEF BeginCommand, Is
      <4>2. Writing = {}
        BY <2>2, <4>1 DEF Writing, Received
      <4> QED
        BY <3>1, <4>2 DEF BeginCommand, TypeOK
    <3>2. CASE ~BeginCommand(m)
      BY <1>2, <3>2
         DEF Handle, BeginState, StoreParams, RestoreParams, ClearParams,
             CheckMode, ProcessMotion, ProcessCloudStreaming, FinishAccount,
             Decide
    <3> QED
      BY <3>1, <3>2
  <2> QED
    BY <2>1, <2>2, <2>3, <2>4, <2>5 DEF OneAtATime
<1>3. ASSUME \/ \E m \in Messages : RowTask(m)
             \/ \E r \in requests : RecordTask(r)
      PROVE  OneAtATime'
  <2>1. /\ ~overlap /\ torn' = torn /\ pc' = pc /\ Received' = Received
        /\ rowTasks' \subseteq rowTasks /\ requests' \subseteq requests
    BY <1>3, TaskKeeps
  <2>2. ~fault' => ~fault /\ doubtful' \cap Servers = doubtful \cap Servers
    <3>1. ASSUME NEW m \in Messages, RowTask(m), ~fault'
          PROVE  ~fault /\ doubtful' = doubtful
      BY <3>1 DEF RowTask, UpdateRow, UpdateRowFails
    <3>2. ASSUME NEW r \in requests, Record(r), ~fault'
          PROVE  ~fault /\ doubtful' = doubtful
      BY <3>2 DEF Record
    <3>3. ASSUME NEW r \in requests, RecordFails(r), ~fault'
          PROVE  ~fault /\ doubtful' = doubtful \cup {Nil}
      BY <3>3 DEF RecordFails
    <3> QED
      BY <1>3, <3>1, <3>2, <3>3 DEF RecordTask
  <2> QED
    BY <2>1, <2>2 DEF OneAtATime
<1> QED
  BY <1>1, <1>2, <1>3 DEF Next

\* The account that a new message finds is that of the user params.
LEMMA UserIsAccount ==
    ASSUME Ordered, ~overlap, NEW m \in Messages, NEW c \in Contents,
           Receive(m, c), \A n \in Received : pc[n] = "done"
    PROVE  user = AccountAt(m)
<1> USE DEF Ordered
<1>1. CASE Received = {}
  <2>1. Before(m) = {}
    BY <1>1 DEF Before, Commands
  <2> QED
    BY <1>1, <2>1 DEF AccountAt, UserFollows
<1>2. CASE Received # {}
  <2>1. PICK n \in Received : Last(n, Received)
    BY <1>2, LastExists
  <2>2. n < m /\ (n + 1 < m => n + 1 \in Received)
    BY HistoryGrows
  <2>3. n + 1 \notin Received /\ n \in Nat /\ m \in Nat
    <3>1. n \in Nat /\ m \in Nat /\ ~(n + 1 <= n)
      BY ReceivedType
    <3> QED
      BY <2>1, <3>1 DEF Last
  <2>4. m = n + 1
    BY <2>2, <2>3
  <2>5. user = IF n \in Commands THEN msg[n].account ELSE AccountAt(n)
    BY <2>1 DEF UserFollows
  <2> QED
    BY <2>4, <2>5, AccountNext
<1> QED
  BY <1>1, <1>2

\* The second half of an undisturbed update leaves the account.
LEMMA FinishWhole ==
    ASSUME TypeOK, WriterOwns, ~torn, NEW m \in Messages, FinishAccount(m)
    PROVE  user' = msg[m].account
<1>1. PICK acc : acc = msg[m].account
  OBVIOUS
<1>2. m \in Writing /\ acc \in Account /\ user \in Account
  BY <1>1, MessageType DEF FinishAccount, Writing, TypeOK, Received
<1>3. CASE pc[m] = "funds"
  <2>1. user.tariff = acc.tariff /\ user' = [acc EXCEPT !.tariff = user.tariff]
    BY <1>1, <1>2, <1>3 DEF WriterOwns, FinishAccount
  <2> QED
    BY <1>1, <1>2, <2>1 DEF Account
<1>4. CASE pc[m] = "tariff"
  <2>1. /\ user.money = acc.money /\ user.privileged = acc.privileged
        /\ user' = [user EXCEPT !.tariff = acc.tariff]
    BY <1>1, <1>2, <1>4 DEF WriterOwns, FinishAccount
  <2> QED
    BY <1>1, <1>2, <2>1 DEF Account
<1> QED
  BY <1>2, <1>3, <1>4 DEF Writing

\* The user params follow the commands.
LEMMA UserStep ==
    ASSUME Ordered, WriterOwns, Next
    PROVE  UserFollows'
<1> USE DEF Ordered
<1> SUFFICES ASSUME ~overlap' PROVE UserFollows'
  BY DEF UserFollows
<1>1. ASSUME NEW m \in Messages, NEW c \in Contents, Receive(m, c)
      PROVE  UserFollows'
  <2>1. /\ ~overlap /\ user' = user /\ \A n \in Received : pc[n] = "done"
    BY <1>1, ComesAlone DEF Receive
  <2>2. user = AccountAt(m)
    BY <1>1, <2>1, UserIsAccount
  <2>3. /\ Received' = Received \cup {m} /\ m \in Nat
        /\ \A n \in Received : n < m /\ n \in Nat
        /\ AccountAt(m)' = AccountAt(m) /\ pc'[m] = "begin"
    BY <1>1, HistoryGrows, ReceivedType
  <2>4. ASSUME NEW n \in Received', Last(n, Received') PROVE n = m
    <3>1. n \in Received \/ n = m
      BY <2>3
    <3>2. m <= n
      BY <2>3, <2>4 DEF Last
    <3>3. \A i \in Received : ~(m <= i)
      BY <2>3
    <3> QED
      BY <3>1, <3>2, <3>3
  <2> QED
    BY <2>1, <2>2, <2>3, <2>4 DEF UserFollows
<1>2. ASSUME NEW m \in Messages, Handle(m)
      PROVE  UserFollows'
  <2>1. /\ m \in Received /\ Received' = Received /\ ~overlap
        /\ pc[m] # "done" /\ msg' = msg /\ loaded' = loaded
    BY <1>2, HandleKeeps
  <2>2. /\ Last(m, Received)
        /\ \A n \in Received \ {m} : ~Last(n, Received)
    <3>1. \A n \in Received \ {m} : ~(m <= n)
      BY <2>1, AtWork
    <3> QED
      BY <2>1, <3>1, AtWork DEF Last
  <2>3. /\ Commands' = Commands /\ AccountAt(m)' = AccountAt(m)
    BY <2>1, HistorySame
  <2>4. IF m \in Commands /\ pc'[m] # "begin"
        THEN /\ pc'[m] \in {"decide", "done"} => user' = msg[m].account
             /\ pc'[m] # "done" => prev'[m] = AccountAt(m).tariff
        ELSE user' = AccountAt(m)
    <3>1. CASE BeginCommand(m)
      <4>1. /\ pc[m] = "begin" /\ prev'[m] = user.tariff
            /\ pc'[m] \in {"funds", "tariff"} /\ m \in Commands
        BY <2>1, <3>1 DEF BeginCommand, Is, Goto, TypeOK, Commands
      <4>2. user = AccountAt(m)
        BY <2>1, <2>2, <4>1 DEF UserFollows
      <4> QED
        BY <4>1, <4>2
    <3>2. CASE FinishAccount(m)
      <4>1. pc'[m] = "decide" /\ prev' = prev /\ m \in Commands
            /\ pc[m] \in {"funds", "tariff"}
        BY <2>1, <3>2 DEF FinishAccount, Goto, TypeOK, HandlersKnow, Writing
      <4>2. user' = msg[m].account
        BY <2>1, <3>2, FinishWhole DEF OneAtATime
      <4> QED
        BY <2>1, <2>2, <4>1, <4>2 DEF UserFollows
    <3>3. CASE Decide(m)
      <4>1. /\ pc'[m] = "done" /\ pc[m] = "decide" /\ user' = user
            /\ m \in Commands
        BY <2>1, <3>3 DEF Decide, Goto, TypeOK, HandlersKnow
      <4> QED
        BY <2>1, <2>2, <4>1 DEF UserFollows
    <3>4. CASE ~(BeginCommand(m) \/ FinishAccount(m) \/ Decide(m))
      <4>1. user' = user
        BY <1>2, <3>4
           DEF Handle, BeginState, StoreParams, RestoreParams, ClearParams,
               CheckMode, ProcessMotion, ProcessCloudStreaming
      <4>2. m \notin Commands
        BY <1>2, <2>1, <3>4, ReceivedType
           DEF Handle, BeginState, StoreParams, RestoreParams, ClearParams,
               CheckMode, ProcessMotion, ProcessCloudStreaming, Is, Goto,
               HandlersKnow, Commands
      <4> QED
        BY <2>1, <2>2, <4>1, <4>2 DEF UserFollows
    <3> QED
      BY <3>1, <3>2, <3>3, <3>4
  <2> QED
    BY <2>1, <2>2, <2>3, <2>4 DEF UserFollows
<1>3. ASSUME \/ \E m \in Messages : RowTask(m)
             \/ \E r \in requests : RecordTask(r)
      PROVE  UserFollows'
  <2>1. /\ ~overlap /\ UNCHANGED <<user, loaded, msg, pc, prev>>
        /\ Received' = Received
    BY <1>3, TaskKeeps
  <2>2. Commands' = Commands /\ \A n : AccountAt(n)' = AccountAt(n)
    BY <2>1, HistorySame
  <2> QED
    BY <2>1, <2>2 DEF UserFollows
<1> QED
  BY <1>1, <1>2, <1>3 DEF Next
-----------------------------------------------------------------------------
(* The stored address and the row.                                         *)

\* A new message leaves the stored address and what is known of it.
LEMMA ReceiveStored ==
    ASSUME Ordered, StoredFollows, ~overlap',
           NEW m \in Messages, NEW c \in Contents, Receive(m, c)
    PROVE  StoredFollows'
<1> USE DEF Ordered
<1>1. /\ ~overlap /\ stored' = stored
  BY ComesAlone DEF Receive
<1>2. /\ Received' = Received \cup {m} /\ m \notin Received
      /\ pc'[m] = "begin" /\ address'[m] = msg'[m].ms
      /\ \A n \in Received : /\ pc'[n] = pc[n] /\ msg'[n] = msg[n]
                             /\ address'[n] = address[n]
                             /\ n \in Streams' <=> n \in Streams
                             /\ AccountAt(n)' = AccountAt(n)
  BY HistoryGrows
<1>3. \A n \in Received : /\ On(n)' <=> On(n)
                          /\ Off(n)' <=> Off(n)
                          /\ Endings(n)' = Endings(n)
  BY StreamsGrow
<1>4. Streams \subseteq Received /\ Streams' \subseteq Received'
  BY DEF Streams
<1>5. stored # Nil => \E n \in Streams' : StoredStream(n)'
  <2>1. ASSUME NEW n \in Streams, StoredStream(n)
        PROVE  n \in Streams' /\ StoredStream(n)'
    <3>1. n \in Streams' /\ On(n)' /\ pc'[n] \in {"mode", "done"}
      BY <1>2, <1>3, <1>4, <2>1 DEF StoredStream
    <3>2. msg'[n].ms = stored' /\ CanBeRecorded(AccountAt(n))'
      BY <1>1, <1>2, <1>4, <2>1 DEF StoredStream, CanBeRecorded
    <3>3. ASSUME NEW k \in Streams', k > n
          PROVE  On(k)' \/ pc'[k] \in {"begin", "restore", "clear"}
      BY <1>2, <1>3, <1>4, <2>1, <3>3 DEF StoredStream
    <3> QED
      BY <3>1, <3>2, <3>3 DEF StoredStream
  <2> QED
    BY <1>1, <2>1 DEF StoredFollows
<1>6. ASSUME NEW n \in Received PROVE HandlerStored(n)'
  <2>1. HandlerStored(n)
    BY <1>1 DEF StoredFollows
  <2> QED
    BY <1>1, <1>2, <1>3, <2>1 DEF HandlerStored, CanBeRecorded
<1>7. HandlerStored(m)'
  BY <1>2 DEF HandlerStored, Endings
<1> QED
  BY <1>1, <1>2, <1>5, <1>6, <1>7 DEF StoredFollows, StoredStream,
     HandlerStored

\* A handler that leaves the stored address alone, and goes where it may.
LEMMA StoredKept ==
    ASSUME Ordered, StoredFollows, ~overlap,
           NEW m \in Messages, Handle(m), stored' = stored,
           stored # Nil => m \notin Streams \/ On(m)
                           \/ pc'[m] \in {"begin", "restore", "clear"},
           pc[m] \in {"mode", "done"} => pc'[m] \in {"mode", "done"},
           HandlerStored(m)'
    PROVE  StoredFollows'
<1> USE DEF Ordered
<1>1. /\ m \in Received /\ Received' = Received /\ overlap' = overlap
      /\ pc[m] # "done" /\ msg' = msg /\ loaded' = loaded
      /\ \A n \in Received \ {m} : pc'[n] = pc[n] /\ address'[n] = address[n]
  BY HandleKeeps, ReceivedType
<1>2. /\ Streams' = Streams
      /\ \A n : /\ On(n)' = On(n) /\ Off(n)' = Off(n)
                /\ AccountAt(n)' = AccountAt(n) /\ Endings(n)' = Endings(n)
  BY <1>1, HistorySame
<1>3. ASSUME NEW n \in Streams, StoredStream(n), stored # Nil
      PROVE  StoredStream(n)'
  <2>1. n \in Received /\ pc'[n] \in {"mode", "done"}
    BY <1>1, <1>3 DEF StoredStream, Streams
  <2>2. ASSUME NEW k \in Streams, k > n
        PROVE  On(k) \/ pc'[k] \in {"begin", "restore", "clear"}
    BY <1>1, <1>3, <2>2, ReceivedType DEF StoredStream
  <2> QED
    BY <1>1, <1>2, <1>3, <2>1, <2>2 DEF StoredStream, CanBeRecorded
<1>4. ASSUME NEW n \in Received, n # m PROVE HandlerStored(n)'
  <2>1. HandlerStored(n)
    BY <1>1 DEF StoredFollows
  <2> QED
    BY <1>1, <1>2, <1>4, <2>1 DEF HandlerStored, CanBeRecorded
<1>5. stored' # Nil => \E n \in Streams' : StoredStream(n)'
  BY <1>2, <1>3 DEF StoredFollows
<1>6. \A n \in Received' : HandlerStored(n)'
  BY <1>1, <1>4
<1> QED
  BY <1>5, <1>6 DEF StoredFollows, StoredStream, HandlerStored

\* Each handler leaves a stored address that is that of a stream, or none.
LEMMA HandleStored ==
    ASSUME Ordered, StoredFollows, ~overlap, NEW m \in Messages, Handle(m)
    PROVE  StoredFollows'
<1> USE DEF Ordered
<1>1. /\ m \in Received /\ Received' = Received /\ overlap' = overlap
      /\ pc[m] # "done" /\ msg' = msg /\ loaded' = loaded
      /\ \A n \in Received \ {m} : pc'[n] = pc[n] /\ address'[n] = address[n]
  BY HandleKeeps, ReceivedType
<1>2. /\ Streams' = Streams
      /\ \A n : /\ On(n)' = On(n) /\ Off(n)' = Off(n)
                /\ AccountAt(n)' = AccountAt(n) /\ Endings(n)' = Endings(n)
  BY <1>1, HistorySame
<1>3. /\ Last(m, Received)
      /\ \A n \in Received \ {m} : pc[n] = "done" /\ n < m
      /\ \A n \in Received : ~(n > m)
  BY <1>1, AtWork
<1>4. HandlerStored(m)
  BY <1>1 DEF StoredFollows
<1>5. /\ m \in Streams => (On(m) \/ Off(m)) /\ m \notin Commands
      /\ ~(On(m) /\ Off(m))
  BY ReceivedType
<1>6. Streams \subseteq Received
  BY DEF Streams
<1>7. CASE BeginState(m)
  <2>1. /\ pc[m] = "begin" /\ pc'[m] = AfterState(m)
        /\ stored' = stored /\ address' = address
    BY <1>7 DEF BeginState, Is, Goto, TypeOK
  <2>2. m \notin Commands
    BY <1>7 DEF BeginState, Is, Commands
  <2>3. user = AccountAt(m)
    BY <1>1, <1>3, <2>2 DEF UserFollows
  <2>4. /\ pc'[m] \in {"store", "restore", "done"}
        /\ pc'[m] = "store" => CanBeRecorded(AccountAt(m))
        /\ Off(m) => pc'[m] = "restore"
    BY <2>1, <2>3 DEF AfterState, Off
  <2>5. HandlerStored(m)'
    BY <1>1, <1>2, <1>4, <2>1, <2>4 DEF HandlerStored, CanBeRecorded
  <2> QED
    BY <1>5, <1>7, <2>1, <2>4, <2>5, StoredKept
<1>8. CASE StoreParams(m)
  <2>1. /\ pc[m] = "store" /\ pc'[m] = "mode"
        /\ stored' = address[m] /\ address' = address
    BY <1>8 DEF StoreParams, Goto, TypeOK
  <2>2. m \in Streams /\ On(m) /\ stored' = msg[m].ms
    BY <1>1, <1>5, <2>1 DEF HandlersKnow
  <2>3. StoredStream(m)'
    BY <1>1, <1>2, <1>3, <1>4, <1>6, <2>1, <2>2
       DEF StoredStream, HandlerStored, CanBeRecorded
  <2>4. HandlerStored(m)'
    BY <1>1, <1>2, <1>5, <2>1, <2>2 DEF HandlerStored
  <2>5. ASSUME NEW n \in Received, n # m PROVE HandlerStored(n)'
    <3>1. HandlerStored(n)
      BY <1>1 DEF StoredFollows
    <3> QED
      BY <1>1, <1>2, <1>3, <2>5, <3>1 DEF HandlerStored
  <2> QED
    BY <1>1, <1>2, <2>2, <2>3, <2>4, <2>5
       DEF StoredFollows, StoredStream, HandlerStored
<1>9. CASE RestoreParams(m)
  <2>1. /\ pc[m] = "restore" /\ pc'[m] = "clear"
        /\ stored' = stored /\ address'[m] = stored
    BY <1>9 DEF RestoreParams, Goto, TypeOK
  <2>2. stored \in Endings(m)
    <3>1. CASE stored = Nil
      BY <3>1 DEF Endings
    <3>2. CASE stored # Nil
      <4>1. PICK n \in Streams : StoredStream(n)
        BY <1>1, <3>2 DEF StoredFollows
      <4>2. n < m
        BY <1>3, <1>6, <2>1, <4>1 DEF StoredStream
      <4> QED
        BY <4>1, <4>2 DEF StoredStream, Endings
    <3> QED
      BY <3>1, <3>2
  <2>3. HandlerStored(m)'
    BY <1>1, <1>2, <2>1, <2>2 DEF HandlerStored
  <2> QED
    BY <1>9, <2>1, <2>3, StoredKept
<1>10. CASE ClearParams(m)
  <2>1. /\ pc[m] = "clear" /\ pc'[m] = "mode"
        /\ stored' = Nil /\ address' = address
    BY <1>10 DEF ClearParams, Goto, TypeOK
  <2>2. HandlerStored(m)'
    BY <1>1, <1>2, <1>4, <1>5, <2>1 DEF HandlerStored, HandlersKnow
  <2>3. ASSUME NEW n \in Received, n # m PROVE HandlerStored(n)'
    <3>1. HandlerStored(n)
      BY <1>1 DEF StoredFollows
    <3> QED
      BY <1>1, <1>2, <1>3, <2>3, <3>1 DEF HandlerStored
  <2> QED
    BY <1>1, <2>1, <2>2, <2>3
       DEF StoredFollows, StoredStream, HandlerStored
<1>11. CASE CheckMode(m)
  <2>1. /\ pc[m] = "mode" /\ pc'[m] = "done"
        /\ stored' = stored /\ address' = address
    BY <1>11 DEF CheckMode, Goto, TypeOK
  <2>2. stored # Nil => On(m)
    BY <1>4, <2>1 DEF HandlerStored
  <2>3. HandlerStored(m)'
    BY <1>1, <1>2, <1>4, <2>1 DEF HandlerStored
  <2> QED
    BY <1>11, <2>1, <2>2, <2>3, StoredKept
<1>12. CASE ProcessMotion(m) \/ ProcessCloudStreaming(m)
  <2>1. /\ pc[m] = "begin" /\ pc'[m] = "done"
        /\ stored' = stored /\ address' = address /\ m \notin Streams
    BY <1>12 DEF ProcessMotion, ProcessCloudStreaming, Is, Goto, TypeOK,
                 Streams, NamesServer
  <2>2. HandlerStored(m)'
    BY <1>2, <2>1 DEF HandlerStored
  <2> QED
    BY <1>12, <2>1, <2>2, StoredKept
<1>13. CASE BeginCommand(m) \/ FinishAccount(m) \/ Decide(m)
  <2>1. /\ m \in Commands /\ pc[m] # "mode"
        /\ pc'[m] \in {"funds", "tariff", "decide", "done"}
    BY <1>1, <1>13 DEF BeginCommand, FinishAccount, Decide, Is, Goto, TypeOK,
                       HandlersKnow, Commands, Writing
  <2>2. stored' = stored /\ address' = address
    BY <1>13 DEF BeginCommand, FinishAccount, Decide
  <2>3. HandlerStored(m)' /\ m \notin Streams
    BY <1>2, <1>5, <2>1 DEF HandlerStored
  <2> QED
    BY <1>1, <2>1, <2>2, <2>3, StoredKept
<1> QED
  BY <1>7, <1>8, <1>9, <1>10, <1>11, <1>12, <1>13 DEF Handle

\* The stored address follows the streams.
LEMMA StoredStep ==
    ASSUME Ordered, StoredFollows, Next
    PROVE  StoredFollows'
<1>1. ASSUME \/ \E m \in Messages : RowTask(m)
             \/ \E r \in requests : RecordTask(r)
      PROVE  StoredFollows'
  <2>1. /\ UNCHANGED <<overlap, stored, loaded, msg, pc, address>>
        /\ Received' = Received
    BY <1>1, TaskKeeps
  <2>2. /\ Streams' = Streams
        /\ \A n : /\ On(n)' = On(n) /\ Off(n)' = Off(n)
                  /\ AccountAt(n)' = AccountAt(n) /\ Endings(n)' = Endings(n)
    BY <2>1, HistorySame
  <2> QED
    BY <2>1, <2>2 DEF StoredFollows, StoredStream, HandlerStored,
                      CanBeRecorded
<1>2. CASE overlap'
  BY <1>2 DEF StoredFollows
<1>3. CASE ~overlap'
  <2>1. ASSUME NEW m \in Messages, Handle(m) PROVE StoredFollows'
    BY <1>3, <2>1, HandleKeeps, HandleStored DEF Ordered
  <2> QED
    BY <1>1, <1>3, <2>1, ReceiveStored DEF Next
<1> QED
  BY <1>2, <1>3

\* The row follows the messages whose tasks have ended.
LEMMA RowStep ==
    ASSUME Ordered, StoredFollows, RowFollows, Next
    PROVE  RowFollows'
<1> USE DEF Ordered
<1> SUFFICES ASSUME ~overlap', ~fault' PROVE RowFollows'
  BY DEF RowFollows
<1>1. ASSUME NEW m \in Messages, NEW c \in Contents, Receive(m, c)
      PROVE  RowFollows'
  <2>1. /\ ~overlap /\ ~fault /\ row' = row /\ rowTasks' = rowTasks
        /\ rowTasks = {} /\ \A n \in Received : pc[n] = "done"
    BY <1>1, ComesAlone DEF Receive
  <2>2. /\ Received' = Received \cup {m} /\ pc'[m] = "begin"
        /\ \A n \in Received : msg'[n] = msg[n]
    BY <1>1, HistoryGrows
  <2>3. \A n \in Received : /\ On(n)' <=> On(n)
                            /\ Onair(n)' <=> Onair(n)
                            /\ Endings(n)' = Endings(n)
    BY <1>1, StreamsGrow
  <2>4. \A n \in Received : /\ Last(n, Streams') => Last(n, Streams)
                            /\ Last(n, Rows') => Last(n, Rows)
    BY <1>1, StreamsGrow
  <2>5. ASSUME NEW n \in Received PROVE RowSays(n)'
    <3>1. RowSays(n)
      BY <2>1 DEF RowFollows, RowSays
    <3>2. (Last(n, Rows) => (row.onair <=> Onair(n)))'
      BY <2>1, <2>3, <2>4, <3>1 DEF RowSays, Last
    <3>3. (Last(n, Streams) =>
              row.ip \in IF On(n) THEN {msg[n].ms} ELSE Endings(n))'
      BY <2>1, <2>2, <2>3, <2>4, <3>1 DEF RowSays, Last
    <3> QED
      BY <3>2, <3>3 DEF RowSays
  <2> QED
    BY <2>2, <2>5 DEF RowFollows, RowSays
<1>2. ASSUME NEW m \in Messages, Handle(m)
      PROVE  RowFollows'
  <2>1. /\ m \in Received /\ Received' = Received /\ ~overlap /\ ~fault
        /\ msg' = msg /\ row' = row
        /\ \A n \in Received \ {m} : /\ pc'[n] = pc[n]
                                     /\ n \in rowTasks' <=> n \in rowTasks
    BY <1>2, HandleKeeps, ReceivedType
  <2>2. /\ Streams' = Streams /\ Rows' = Rows
        /\ \A n : /\ On(n)' = On(n) /\ Onair(n)' = Onair(n)
                  /\ Endings(n)' = Endings(n)
    BY <1>2, HandleKeeps, HistorySame
  <2>3. \A n : RowSays(n) => RowSays(n)'
    BY <2>1, <2>2 DEF RowSays, Last
  <2>4. \A n \in Received : pc[n] # "begin" /\ n \notin rowTasks => RowSays(n)
    BY <2>1 DEF RowFollows, RowSays
  <2>5. m \notin rowTasks' => RowSays(m)
    <3>1. CASE BeginState(m) \/ ProcessCloudStreaming(m)
      BY <3>1 DEF BeginState, ProcessCloudStreaming
    <3>2. CASE ProcessMotion(m) \/ BeginCommand(m)
      <4>1. m \notin Rows /\ m \notin Streams
        BY <3>2 DEF ProcessMotion, BeginCommand, Is, Rows, Streams, NamesServer
      <4> QED
        BY <4>1 DEF RowSays, Last
    <3>3. CASE ~(\/ BeginState(m) \/ ProcessCloudStreaming(m)
                 \/ ProcessMotion(m) \/ BeginCommand(m))
      <4>1. pc[m] # "begin" /\ rowTasks' = rowTasks
        BY <1>2, <3>3 DEF Handle, StoreParams, RestoreParams, ClearParams,
                          CheckMode, FinishAccount, Decide, Goto, Writing
      <4> QED
        BY <2>1, <2>4, <4>1
    <3> QED
      BY <3>1, <3>2, <3>3
  <2>6. ASSUME NEW n \in Received, pc'[n] # "begin", n \notin rowTasks'
        PROVE  RowSays(n)'
    BY <2>1, <2>3, <2>4, <2>5, <2>6
  <2> QED
    BY <2>1, <2>6 DEF RowFollows, RowSays
<1>3. ASSUME \/ \E m \in Messages : RowTask(m)
             \/ \E r \in requests : RecordTask(r)
      PROVE  RowFollows'
  <2>1. /\ UNCHANGED <<overlap, msg, loaded, pc, address>>
        /\ Received' = Received
    BY <1>3, TaskKeeps
  <2>2. /\ Streams' = Streams /\ Rows' = Rows
        /\ \A n : /\ On(n)' = On(n) /\ Onair(n)' = Onair(n)
                  /\ Endings(n)' = Endings(n)
    BY <2>1, HistorySame
  <2>3. ASSUME NEW m \in Messages, UpdateRow(m) PROVE RowFollows'
    <3>1. /\ m \in rowTasks /\ rowTasks' = rowTasks \ {m} /\ ~overlap
          /\ fault' = fault /\ m \in Received /\ m \in Rows
      BY <2>1, <2>3 DEF UpdateRow, TypeOK, HandlersKnow
    <3>2. PICK ip : /\ ip \in IF NamesServer(m) THEN {msg[m].ms, address[m]}
                              ELSE {row.ip}
                    /\ row' = [onair |-> Onair(m), ip |-> ip]
      BY <2>3 DEF UpdateRow
    <3>3. \A n \in Received \ {m} : n \notin rowTasks /\ ~(m <= n)
      BY <3>1, AtWork
    <3>4. \A n \in Received \ {m} : ~Last(n, Rows)
      BY <3>1, <3>3 DEF Last
    <3>5. CASE m \in Streams
      <4>1. \A n \in Received \ {m} : ~Last(n, Streams)
        BY <3>3, <3>5 DEF Last
      <4>2. row'.ip \in IF On(m) THEN {msg[m].ms} ELSE Endings(m)
        <5>1. row'.ip \in {msg[m].ms, address[m]}
          BY <3>2, <3>5 DEF Streams
        <5>2. On(m) \/ Off(m)
          BY <3>5, ReceivedType
        <5>3. On(m) => address[m] = msg[m].ms
          BY <3>1, ReceivedType DEF HandlersKnow
        <5>4. Off(m) => address[m] \in Endings(m)
          BY <3>1, <3>5 DEF StoredFollows, HandlerStored
        <5> QED
          BY <5>1, <5>2, <5>3, <5>4 DEF Endings
      <4>3. \A n \in Received : RowSays(n)'
        BY <2>1, <2>2, <3>2, <3>4, <4>1, <4>2 DEF RowSays, Last
      <4> QED
        BY <2>1, <4>3 DEF RowFollows, RowSays
    <3>6. CASE m \notin Streams
      <4>1. row'.ip = row.ip
        BY <3>1, <3>2, <3>6 DEF Streams
      <4>2. ASSUME NEW n \in Received, pc[n] # "begin", n # m
            PROVE  RowSays(n)'
        <5>1. RowSays(n)
          BY <3>1, <3>3, <4>2 DEF RowFollows, RowSays
        <5> QED
          BY <2>1, <2>2, <3>4, <4>1, <4>2, <5>1 DEF RowSays, Last
      <4>3. RowSays(m)'
        BY <2>1, <2>2, <3>2, <3>6 DEF RowSays, Last
      <4> QED
        BY <2>1, <4>2, <4>3 DEF RowFollows, RowSays
    <3> QED
      BY <3>5, <3>6
  <2>4. ASSUME NEW m \in Messages, UpdateRowFails(m) PROVE RowFollows'
    BY <2>4 DEF UpdateRowFails
  <2>5. ASSUME NEW r \in requests, RecordTask(r) PROVE RowFollows'
    <3>1. row' = row /\ rowTasks' = rowTasks /\ ~fault
      <4>1. CASE Record(r)
        BY <4>1 DEF Record
      <4>2. CASE RecordFails(r)
        BY <4>2 DEF RecordFails
      <4> QED
        BY <2>5, <4>1, <4>2 DEF RecordTask
    <3>2. \A n : RowSays(n) => RowSays(n)'
      BY <2>1, <2>2, <3>1 DEF RowSays, Last
    <3> QED
      BY <2>1, <3>1, <3>2 DEF RowFollows, RowSays
  <2> QED
    BY <1>3, <2>3, <2>4, <2>5 DEF RowTask
<1> QED
  BY <1>1, <1>2, <1>3 DEF Next
-----------------------------------------------------------------------------
(* What the media servers were asked for.                                  *)

\* In continuous mode no server but the stored one is asked to record.
LEMMA StopsStep ==
    ASSUME Ordered, StoredFollows, StopsWhatItStarted, Next
    PROVE  StopsWhatItStarted'
<1> USE DEF Ordered
<1> SUFFICES ASSUME ~overlap', mode' = "continuous", ~Moved',
                    NEW s \in latest' \cap Servers
             PROVE  \/ s = stored'
                    \/ \E n \in Received' : /\ pc'[n] = "mode" /\ Off(n)'
                                            /\ s = address'[n]
  BY DEF StopsWhatItStarted
<1> DEFINE Goal == \/ s = stored'
                   \/ \E n \in Received' : /\ pc'[n] = "mode" /\ Off(n)'
                                           /\ s = address'[n]
<1>1. ASSUME NEW m \in Messages, NEW c \in Contents, Receive(m, c)
      PROVE  Goal
  <2>1. /\ ~overlap /\ mode = "continuous" /\ latest' = latest
        /\ stored' = stored /\ \A n \in Received : pc[n] = "done"
    BY <1>1, ComesAlone DEF Receive
  <2>2. ~Moved
    BY <1>1, StreamsGrow
  <2> QED
    BY <2>1, <2>2 DEF StopsWhatItStarted
<1>2. ASSUME NEW m \in Messages, Handle(m)
      PROVE  Goal
  <2>1. /\ m \in Received /\ Received' = Received /\ ~overlap
        /\ pc[m] # "done" /\ mode = "continuous" /\ msg' = msg
    BY <1>2, HandleKeeps
  <2>2. /\ Moved' = Moved /\ \A n : Off(n)' = Off(n)
    BY <1>2, HandleKeeps, HistorySame
  <2>3. /\ \A n \in Received \ {m} : pc[n] = "done" /\ n < m
        /\ \A n \in Received : ~(n > m)
    BY <2>1, AtWork
  <2>4. ASSUME s \in latest
        PROVE  \/ s = stored
               \/ pc[m] = "mode" /\ Off(m) /\ s = address[m]
    BY <2>1, <2>2, <2>3, <2>4 DEF StopsWhatItStarted
  <2>5. s # Nil /\ ~(On(m) /\ Off(m))
    BY ReceivedType
  <2>6. CASE StoreParams(m)
    <3>1. /\ pc[m] = "store" /\ latest' = latest /\ stored' = address[m]
      BY <2>6 DEF StoreParams, Goto
    <3>2. m \in Streams /\ On(m) /\ ~Off(m) /\ stored' = msg[m].ms
      BY <2>1, <2>5, <3>1 DEF HandlersKnow
    <3>3. s = stored
      BY <2>4, <3>1, <3>2
    <3>4. PICK n \in Streams : StoredStream(n)
      BY <2>1, <2>5, <3>3 DEF StoredFollows
    <3>5. n < m /\ On(n) /\ msg[n].ms = s
      BY <2>3, <3>1, <3>3, <3>4 DEF StoredStream, Streams
    <3>6. ASSUME NEW k \in Streams, n < k, k < m
          PROVE  msg[k].arg = "streamingOn"
      <4>1. k \in Received /\ k > n /\ k # m
        <5>1. k \in Received /\ k \in Nat /\ n \in Nat /\ m \in Nat
          BY ReceivedType
        <5> QED
          BY <3>6, <5>1
      <4>2. On(k) \/ pc[k] \in {"begin", "restore", "clear"}
        BY <3>4, <4>1 DEF StoredStream
      <4> QED
        BY <2>3, <4>1, <4>2 DEF On
    <3>7. msg[n].ms = msg[m].ms
      BY <2>2, <3>2, <3>4, <3>5, <3>6 DEF Moved, On
    <3> QED
      BY <3>2, <3>5, <3>7
  <2>7. CASE ClearParams(m)
    <3>1. /\ pc[m] = "clear" /\ pc'[m] = "mode" /\ latest' = latest
          /\ address' = address
      BY <2>7 DEF ClearParams, Goto, TypeOK
    <3>2. Off(m) /\ address[m] = stored
      BY <2>1, <3>1 DEF HandlersKnow, StoredFollows, HandlerStored
    <3> QED
      BY <2>1, <2>2, <2>4, <3>1, <3>2
  <2>8. CASE CheckMode(m)
    <3>1. /\ pc[m] = "mode" /\ stored' = stored
          /\ Issue(m, address[m], On(m))
      BY <2>1, <2>8 DEF CheckMode, Goto, Recorded, On
    <3>2. m \in Streams /\ stored = IF On(m) THEN msg[m].ms ELSE Nil
      BY <2>1, <3>1 DEF HandlersKnow, StoredFollows, HandlerStored
    <3>3. CASE On(m)
      <4>1. address[m] = stored
        BY <2>1, <2>5, <3>2, <3>3 DEF HandlersKnow
      <4> QED
        BY <2>4, <2>5, <3>1, <3>3, <4>1 DEF Issue
    <3>4. CASE ~On(m)
      BY <2>4, <2>5, <3>1, <3>2, <3>4 DEF Issue
    <3> QED
      BY <3>3, <3>4
  <2>9. CASE ~(StoreParams(m) \/ ClearParams(m) \/ CheckMode(m))
    <3>1. pc[m] # "mode" /\ stored' = stored
      BY <1>2, <2>9
         DEF Handle, BeginState, RestoreParams, ProcessMotion, Is, Goto,
             ProcessCloudStreaming, BeginCommand, FinishAccount, Decide,
             Writing
    <3>2. latest' \subseteq latest \cup {stored}
      <4>1. CASE IssueNone
        BY <4>1 DEF IssueNone
      <4>2. CASE ~IssueNone
        <5>1. \E on \in BOOLEAN : Issue(m, stored, on)
          BY <1>2, <2>1, <2>9, <4>2, HandleIssues
        <5> QED
          BY <5>1 DEF Issue
      <4> QED
        BY <4>1, <4>2
    <3> QED
      BY <2>4, <3>1, <3>2
  <2> QED
    BY <2>6, <2>7, <2>8, <2>9
<1>3. ASSUME \/ \E m \in Messages : RowTask(m)
             \/ \E r \in requests : RecordTask(r)
      PROVE  Goal
  <2>1. /\ UNCHANGED <<mode, stored, overlap, latest, pc, address, msg,
                       loaded>>
        /\ Received' = Received
    BY <1>3, TaskKeeps
  <2>2. Moved' = Moved /\ \A n : Off(n)' = Off(n)
    BY <2>1, HistorySame
  <2> QED
    BY <2>1, <2>2 DEF StopsWhatItStarted
<1> QED
  BY <1>1, <1>2, <1>3 DEF Next

\* A command that comes while the user pays does not stop the recording.
LEMMA DecidePaid ==
    ASSUME Ordered, NEW m \in Messages, Decide(m), mode = "continuous",
           NEW n \in Received, PaidSince(n), n < m
    PROVE  latest \subseteq latest'
<1> USE DEF Ordered
<1>1. pc[m] = "decide" /\ m \in Received
  BY DEF Decide, Goto, Received
<1>2. m \in Commands /\ m > n /\ msg[m].account.tariff \in Nat
  <2>1. m \in Nat /\ n \in Nat
    BY ReceivedType
  <2> QED
    BY <1>1, <2>1, MessageType DEF HandlersKnow
<1>3. msg[m].arg = "continuous" /\ msg[m].account.tariff > 1
  BY <1>2 DEF PaidSince, Paying, UserTarifOnline
<1>4. ~Stops(m)
  BY <1>2, <1>3 DEF Stops, UserTarifOnline
<1>5. Issue(m, stored, TRUE) \/ IssueNone
  BY <1>4 DEF Decide
<1> QED
  BY <1>5 DEF Issue, IssueNone, requestVars

\* In continuous mode the stream that is paid for is recorded.
LEMMA StartsStep ==
    ASSUME Ordered, StartsWhatIsPaid, Next
    PROVE  StartsWhatIsPaid'
<1> USE DEF Ordered
<1> SUFFICES ASSUME ~overlap', mode' = "continuous", NEW n \in Received',
                    PaidSince(n)', Last(n, Streams'), pc'[n] = "done"
             PROVE  msg'[n].ms \in latest'
  BY DEF StartsWhatIsPaid, Last
<1>1. ASSUME NEW m \in Messages, NEW c \in Contents, Receive(m, c)
      PROVE  msg'[n].ms \in latest'
  <2>1. ~overlap /\ mode = "continuous" /\ latest' = latest
    BY <1>1, ComesAlone DEF Receive
  <2>2. n \in Received /\ pc[n] = "done" /\ msg'[n] = msg[n]
    BY <1>1, HistoryGrows
  <2>3. PaidSince(n) /\ Last(n, Streams)
    BY <1>1, <2>2, StreamsGrow
  <2> QED
    BY <2>1, <2>2, <2>3 DEF StartsWhatIsPaid
<1>2. ASSUME NEW m \in Messages, Handle(m)
      PROVE  msg'[n].ms \in latest'
  <2>1. /\ m \in Received /\ Received' = Received /\ ~overlap
        /\ pc[m] # "done" /\ mode = "continuous" /\ msg' = msg
        /\ \A i \in Received \ {m} : pc'[i] = pc[i]
    BY <1>2, HandleKeeps, ReceivedType
  <2>2. n \in Received /\ PaidSince(n) /\ Last(n, Streams)
    BY <1>2, <2>1, HandleKeeps, HistorySame
  <2>3. Last(m, Received) /\ \A i \in Received \ {m} : i < m /\ ~(m <= i)
    BY <2>1, AtWork
  <2>4. CASE n = m
    <3>1. m \in Streams /\ On(m) /\ CanBeRecorded(AccountAt(m))
      BY <2>2, <2>4 DEF PaidSince, Paying
    <3>2. ~Off(m) /\ m \notin Commands /\ m \notin Data
      BY <3>1, ReceivedType
    <3>3. user = AccountAt(m)
      BY <2>1, <2>3, <3>2 DEF UserFollows
    <3>4. CheckMode(m)
      <4>1. ~BeginState(m)
        <5>1. AfterState(m) = "store"
          BY <3>1, <3>3 DEF AfterState, On
        <5> QED
          BY <2>4, <5>1 DEF BeginState, Goto, TypeOK
      <4>2. ~(StoreParams(m) \/ RestoreParams(m) \/ ClearParams(m))
        BY <2>4 DEF StoreParams, RestoreParams, ClearParams, Goto, TypeOK
      <4>3. ~(BeginCommand(m) \/ FinishAccount(m) \/ Decide(m))
        BY <2>1, <3>2 DEF BeginCommand, FinishAccount, Decide, Is, Goto,
                          Commands, HandlersKnow, Writing
      <4>4. ~(ProcessMotion(m) \/ ProcessCloudStreaming(m))
        BY <3>1 DEF ProcessMotion, ProcessCloudStreaming, Is, Streams,
                    NamesServer
      <4> QED
        BY <1>2, <4>1, <4>2, <4>3, <4>4 DEF Handle
    <3>5. Issue(m, address[m], TRUE)
      BY <2>1, <3>1, <3>4 DEF CheckMode, Recorded, On
    <3>6. address[m] = msg[m].ms
      BY <2>1, <3>2 DEF HandlersKnow
    <3> QED
      BY <2>1, <2>4, <3>5, <3>6 DEF Issue
  <2>5. CASE n # m
    <3>1. n < m /\ ~(m <= n) /\ pc[n] = "done"
      BY <2>1, <2>2, <2>3, <2>5
    <3>2. msg[n].ms \in latest
      BY <2>1, <2>2, <3>1 DEF StartsWhatIsPaid
    <3>3. CASE IssueNone
      BY <2>1, <3>2, <3>3 DEF IssueNone, requestVars
    <3>4. CASE ~IssueNone
      <4>1. ~CheckMode(m)
        <5>1. m \notin Streams
          BY <2>2, <3>1 DEF Last
        <5> QED
          BY <2>1, <5>1 DEF CheckMode, Goto, HandlersKnow
      <4>2. Decide(m)
        BY <1>2, <2>1, <3>4, <4>1, HandleIssues
      <4> QED
        BY <2>1, <2>2, <3>1, <3>2, <4>2, DecidePaid
    <3> QED
      BY <3>3, <3>4
  <2> QED
    BY <2>4, <2>5
<1>3. ASSUME \/ \E m \in Messages : RowTask(m)
             \/ \E r \in requests : RecordTask(r)
      PROVE  msg'[n].ms \in latest'
  <2>1. /\ UNCHANGED <<mode, overlap, latest, pc, msg, loaded>>
        /\ Received' = Received
    BY <1>3, TaskKeeps
  <2>2. PaidSince(n) /\ Last(n, Streams)
    BY <2>1, HistorySame
  <2> QED
    BY <2>1, <2>2 DEF StartsWhatIsPaid
<1> QED
  BY <1>1, <1>2, <1>3 DEF Next

\* In motion mode the motion detector decides.
LEMMA MotionStep ==
    ASSUME Ordered, MotionFollows, Next
    PROVE  MotionFollows'
<1> USE DEF Ordered
<1> DEFINE Follows(n) == /\ motion <=> msg[n].arg = "on"
                         /\ msg[n].ms \in latest <=> msg[n].arg = "on"
<1> SUFFICES ASSUME ~overlap', mode' = "motion", NEW n \in Received',
                    Last(n, Data'), pc'[n] = "done", Undisturbed(n)'
             PROVE  Follows(n)'
  BY DEF MotionFollows, Last
<1>1. ASSUME NEW m \in Messages, NEW c \in Contents, Receive(m, c)
      PROVE  Follows(n)'
  <2>1. /\ ~overlap /\ mode = "motion" /\ latest' = latest
        /\ motion' = motion
    BY <1>1, ComesAlone DEF Receive
  <2>2. n \in Received /\ pc[n] = "done" /\ msg'[n] = msg[n]
    BY <1>1, HistoryGrows
  <2>3. Undisturbed(n) /\ Last(n, Data)
    BY <1>1, <2>2, StreamsGrow
  <2> QED
    BY <2>1, <2>2, <2>3 DEF MotionFollows
<1>2. ASSUME NEW m \in Messages, Handle(m)
      PROVE  Follows(n)'
  <2>1. /\ m \in Received /\ Received' = Received /\ ~overlap
        /\ pc[m] # "done" /\ mode = "motion" /\ msg' = msg
        /\ \A i \in Received \ {m} : pc'[i] = pc[i]
    BY <1>2, HandleKeeps, ReceivedType
  <2>2. n \in Received /\ Undisturbed(n) /\ Last(n, Data)
    BY <1>2, <2>1, HandleKeeps, HistorySame
  <2>3. \A i \in Received \ {m} : i < m /\ ~(m <= i)
    BY <2>1, AtWork
  <2>4. CASE n = m
    <3>1. m \in Data /\ m \notin Streams /\ m \notin Commands
      BY <2>2, <2>4, ReceivedType DEF Last
    <3>2. ProcessMotion(m)
      <4>1. ~(BeginState(m) \/ ProcessCloudStreaming(m) \/ BeginCommand(m))
        BY <3>1 DEF BeginState, ProcessCloudStreaming, BeginCommand, Is, Data
      <4>2. ~(\/ StoreParams(m) \/ RestoreParams(m) \/ ClearParams(m)
              \/ CheckMode(m) \/ FinishAccount(m) \/ Decide(m))
        BY <2>1, <3>1
           DEF StoreParams, RestoreParams, ClearParams, CheckMode,
               FinishAccount, Decide, Goto, HandlersKnow, Writing
      <4> QED
        BY <1>2, <4>1, <4>2 DEF Handle
    <3>3. /\ motion' = (msg[m].arg = "on")
          /\ Issue(m, address[m], msg[m].arg = "on")
      BY <2>1, <3>2 DEF ProcessMotion
    <3>4. address[m] = msg[m].ms
      BY <2>1, <3>1 DEF HandlersKnow
    <3>5. msg[m].ms \in latest' <=> msg[m].arg = "on"
      BY <3>3, <3>4 DEF Issue
    <3> QED
      BY <2>1, <2>4, <3>3, <3>5
  <2>5. CASE n # m
    <3>1. n < m /\ ~(m <= n) /\ pc[n] = "done"
      BY <2>1, <2>2, <2>3, <2>5
    <3>2. Follows(n)
      BY <2>1, <2>2, <3>1 DEF MotionFollows
    <3>3. m \notin Data
      BY <2>2, <3>1 DEF Last
    <3>4. msg[m].type # "command" /\ ~Off(m)
      <4>1. m > n
        <5>1. m \in Nat /\ n \in Nat
          BY <2>2, ReceivedType
        <5> QED
          BY <3>1, <5>1
      <4> QED
        BY <2>1, <2>2, <4>1 DEF Undisturbed
    <3>5. ~ProcessMotion(m) /\ ~Decide(m)
      BY <2>1, <3>3, <3>4
         DEF ProcessMotion, Decide, Is, Goto, Data, HandlersKnow, Commands
    <3>6. motion' = motion
      BY <1>2, <3>5
         DEF Handle, BeginState, StoreParams, RestoreParams, ClearParams,
             CheckMode, ProcessCloudStreaming, BeginCommand, FinishAccount
    <3>7. CASE IssueNone
      BY <2>1, <3>2, <3>6, <3>7 DEF IssueNone, requestVars
    <3>8. CASE ~IssueNone
      <4>1. CheckMode(m) /\ Recorded /\ Issue(m, address[m], On(m))
        BY <1>2, <3>5, <3>8, HandleIssues
      <4>2. On(m)
        <5>1. m \in Streams
          BY <2>1, <4>1 DEF CheckMode, Goto, HandlersKnow
        <5> QED
          BY <3>4, <5>1, ReceivedType
      <4>3. motion
        BY <2>1, <4>1 DEF Recorded
      <4>4. msg[n].arg = "on" /\ msg[n].ms \in latest
        BY <3>2, <4>3
      <4>5. msg[n].ms \in latest'
        BY <4>1, <4>2, <4>4 DEF Issue
      <4> QED
        BY <2>1, <3>6, <4>3, <4>4, <4>5
    <3> QED
      BY <3>7, <3>8
  <2> QED
    BY <2>4, <2>5
<1>3. ASSUME \/ \E m \in Messages : RowTask(m)
             \/ \E r \in requests : RecordTask(r)
      PROVE  Follows(n)'
  <2>1. /\ UNCHANGED <<mode, overlap, latest, motion, pc, msg, loaded>>
        /\ Received' = Received
    BY <1>3, TaskKeeps
  <2>2. Undisturbed(n) /\ Last(n, Data)
    BY <2>1, HistorySame
  <2> QED
    BY <2>1, <2>2 DEF MotionFollows
<1> QED
  BY <1>1, <1>2, <1>3 DEF Next
-----------------------------------------------------------------------------
(* What holds of messages that come one at a time.                         *)

\* Nothing has come at first.
LEMMA InitSeq == Init => SeqInv
<1> SUFFICES ASSUME Init PROVE SeqInv
  OBVIOUS
<1>1. Received = {}
  BY DEF Init, Received
<1>2. Numbered
  <2>1. Received = 1..0
    BY <1>1
  <2> QED
    BY <2>1 DEF Numbered
<1>3. HandlersKnow /\ OneAtATime /\ UserFollows
  BY <1>1 DEF Init, HandlersKnow, OneAtATime, UserFollows
<1>4. StoredFollows /\ RowFollows /\ StopsWhatItStarted
  BY <1>1 DEF Init, StoredFollows, RowFollows, StopsWhatItStarted
<1> QED
  BY <1>1, <1>2, <1>3, <1>4 DEF SeqInv, StartsWhatIsPaid, MotionFollows

\* Every step preserves each part.
LEMMA NextSeq ==
    ASSUME IInv, SeqInv, [Next]_vars
    PROVE  SeqInv'
<1>1. CASE UNCHANGED vars
  <2>1. /\ UNCHANGED <<mode, stored, motion, user, loaded, pc, msg, address,
                       prev, rowTasks, requests, row, overlap, fault, torn,
                       latest, doubtful>>
        /\ Received' = Received
    BY <1>1 DEF vars, Received
  <2>2. /\ Streams' = Streams /\ Rows' = Rows
        /\ Commands' = Commands /\ Data' = Data /\ Moved' = Moved
        /\ \A n : On(n)' = On(n) /\ Off(n)' = Off(n) /\ Onair(n)' = Onair(n)
        /\ \A n : AccountAt(n)' = AccountAt(n) /\ Endings(n)' = Endings(n)
        /\ \A n : PaidSince(n)' = PaidSince(n)
        /\ \A n : Undisturbed(n)' = Undisturbed(n)
    BY <2>1, HistorySame
  <2>3. Numbered' /\ HandlersKnow' /\ OneAtATime' /\ UserFollows'
    BY <2>1, <2>2
       DEF SeqInv, Numbered, HandlersKnow, OneAtATime, UserFollows, Last
  <2>4. StoredFollows'
    BY <2>1, <2>2 DEF SeqInv, StoredFollows, StoredStream, HandlerStored,
                      CanBeRecorded
  <2>5. RowFollows'
    BY <2>1, <2>2 DEF SeqInv, RowFollows, RowSays, Last
  <2>6. StopsWhatItStarted' /\ StartsWhatIsPaid' /\ MotionFollows'
    BY <2>1, <2>2
       DEF SeqInv, StopsWhatItStarted, StartsWhatIsPaid, MotionFollows, Last
  <2> QED
    BY <2>3, <2>4, <2>5, <2>6 DEF SeqInv
<1>2. CASE Next
  <2>1. Ordered /\ WriterOwns
    BY DEF IInv, SeqInv, Ordered
  <2>2. Numbered' /\ HandlersKnow' /\ OneAtATime' /\ UserFollows'
    BY <1>2, <2>1, KnowStep, AtATimeStep, UserStep DEF Ordered
  <2>3. StoredFollows' /\ RowFollows'
    BY <1>2, <2>1, StoredStep, RowStep DEF SeqInv
  <2>4. StopsWhatItStarted' /\ StartsWhatIsPaid' /\ MotionFollows'
    BY <1>2, <2>1, StopsStep, StartsStep, MotionStep DEF SeqInv
  <2> QED
    BY <2>2, <2>3, <2>4 DEF SeqInv
<1> QED
  BY <1>1, <1>2

\* The strengthening about messages that come one at a time is an invariant.
THEOREM Sequential == Spec => [](IInv /\ SeqInv)
<1>1. Init => IInv /\ SeqInv
  BY InitIInv, InitSeq
<1>2. IInv /\ SeqInv /\ [Next]_vars => (IInv /\ SeqInv)'
  BY NextIInv, NextSeq
<1> QED
  BY <1>1, <1>2, PTL DEF Spec

\* When all is at rest a media server does what it was asked for last.
LEMMA AtRestLatest ==
    ASSUME IInv, SeqInv, Clean
    PROVE  /\ \A s \in Servers : s \in recorder <=> s \in latest
           /\ recorder \subseteq Servers
           /\ ~overlap /\ ~fault /\ rowTasks = {}
           /\ \A m \in Received : pc[m] = "done"
<1>1. /\ ~overlap /\ ~fault /\ rowTasks = {} /\ requests = {}
      /\ \A m \in Received : pc[m] = "done"
  BY DEF Clean, AtRest, InFlight
<1>2. doubtful \cap Servers = {}
  BY <1>1 DEF SeqInv, OneAtATime
<1> QED
  BY <1>1, <1>2 DEF IInv, LatestRequestWins, TypeOK

\* Continuous recording ends with the stream, when messages come one at a
\* time and nothing is lost: processCameraState restores the address that
\* "streamingOff" does not carry.
THEOREM StreamEnds == Spec => []StreamEndsRecording
<1>1. ASSUME IInv, SeqInv PROVE StreamEndsRecording
  <2> SUFFICES ASSUME Clean, mode = "continuous", ~Moved,
                      \A m \in Streams : Last(m, Streams) => Off(m),
                      NEW s \in recorder
               PROVE  FALSE
    BY DEF StreamEndsRecording, Off
  <2>1. /\ s \in latest /\ s \in Servers /\ s # Nil /\ ~overlap
        /\ \A m \in Received : pc[m] = "done"
    BY <1>1, AtRestLatest
  <2>2. s = stored
    BY <1>1, <2>1 DEF SeqInv, StopsWhatItStarted
  <2>3. PICK n \in Streams : StoredStream(n)
    BY <1>1, <2>1, <2>2 DEF StoredFollows, SeqInv
  <2>4. Streams \subseteq Received /\ Received \subseteq Nat
        /\ \A m : ~(On(m) /\ Off(m))
    BY <1>1, ReceivedType DEF IInv
  <2>5. PICK l \in Streams : Last(l, Streams)
    BY <1>1, <2>3, <2>4, LastExists DEF SeqInv
  <2>6. Off(l) /\ n <= l
    BY <2>5 DEF Last
  <2>7. l = n \/ l > n
    <3>1. l \in Nat /\ n \in Nat
      BY <2>4
    <3> QED
      BY <2>6, <3>1
  <2>8. On(l)
    BY <2>1, <2>3, <2>4, <2>7 DEF StoredStream
  <2> QED
    BY <2>4, <2>6, <2>8
<1> QED
  BY <1>1, Sequential, PTL

\* A stream that names its media server is recorded from its start to its end
\* for a user who pays all the time, when messages come one at a time and
\* nothing is lost (processCameraState, processCameraCommand).
THEOREM StreamRecorded == Spec => []StreamIsRecorded
<1>1. ASSUME IInv, SeqInv PROVE StreamIsRecorded
  <2> SUFFICES ASSUME Clean, mode = "continuous", NEW m \in Streams,
                      Last(m, Streams), On(m), msg[m].ms # Nil,
                      PaidSince(m)
               PROVE  msg[m].ms \in recorder
    BY DEF StreamIsRecorded, PaidSince, On
  <2>1. m \in Received /\ msg[m].ms \in Place
    BY <1>1, MessageType DEF IInv, Streams, Message
  <2>2. /\ pc[m] = "done" /\ ~overlap
        /\ \A s \in Servers : s \in recorder <=> s \in latest
    BY <1>1, <2>1, AtRestLatest
  <2>3. msg[m].ms \in latest
    BY <1>1, <2>1, <2>2 DEF SeqInv, StartsWhatIsPaid
  <2> QED
    BY <2>1, <2>2, <2>3 DEF Place
<1> QED
  BY <1>1, Sequential, PTL

\* In motion mode recording follows the motion detector, when messages come
\* one at a time and nothing is lost (processCameraData).
THEOREM MotionRules == Spec => []MotionDecides
<1>1. ASSUME IInv, SeqInv PROVE MotionDecides
  <2> SUFFICES ASSUME Clean, mode = "motion", NEW m \in Data,
                      Last(m, Data), msg[m].ms # Nil, Undisturbed(m)
               PROVE  msg[m].ms \in recorder <=> msg[m].arg = "on"
    BY DEF MotionDecides, Undisturbed, Off
  <2>1. m \in Received /\ msg[m].ms \in Place
    BY <1>1, MessageType DEF IInv, Data, Message
  <2>2. /\ pc[m] = "done" /\ ~overlap
        /\ \A s \in Servers : s \in recorder <=> s \in latest
    BY <1>1, <2>1, AtRestLatest
  <2>3. msg[m].ms \in latest <=> msg[m].arg = "on"
    BY <1>1, <2>1, <2>2 DEF SeqInv, MotionFollows
  <2> QED
    BY <2>1, <2>2, <2>3 DEF Place
<1> QED
  BY <1>1, Sequential, PTL

\* The camera's row is on air as the last message says and names the media
\* server of a stream that goes on, whatever the race between the handler and
\* its task decides when it ends (UpdateCameraStreamingStateTask.Run).
THEOREM RowFollowsMessages == Spec => []RowAgrees
<1>1. ASSUME IInv, SeqInv PROVE RowAgrees
  <2> SUFFICES ASSUME Clean PROVE RowAgrees
    BY DEF RowAgrees
  <2>1. /\ ~overlap /\ ~fault /\ rowTasks = {}
        /\ \A m \in Received : pc[m] = "done"
    BY <1>1, AtRestLatest
  <2>2. /\ Rows \subseteq Received /\ Streams \subseteq Received
    BY <1>1, ReceivedType DEF IInv
  <2>3. \A m \in Received :
            /\ Last(m, Rows) => (row.onair <=> Onair(m))
            /\ Last(m, Streams) =>
                  row.ip \in IF On(m) THEN {msg[m].ms} ELSE Endings(m)
    BY <1>1, <2>1 DEF SeqInv, RowFollows, RowSays
  <2> QED
    BY <2>2, <2>3 DEF RowAgrees, On
<1> QED
  BY <1>1, Sequential, PTL
=============================================================================
