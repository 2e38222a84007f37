----------------------------- MODULE CameraLogic -----------------------------
(***************************************************************************)
(* One camera of a loaded gateway: the goroutines that handle its state,   *)
(* its motion messages and setRecording commands, and the tasks they       *)
(* start, one that updates the camera's row in the database and one that   *)
(* asks the camera's media server to start or to stop recording.           *)
(*                                                                         *)
(* Nothing orders the handlers, which share the camera's params and the    *)
(* user's params without a lock, or the tasks, which nobody waits for and  *)
(* whose errors are only logged.  A message object is shared by its        *)
(* handler and its tasks.  What a data message does besides recording is   *)
(* the subject of DeviceData.                                              *)
(*                                                                         *)
(* The user is not blocked: GatewayLogic.Process returns at once if so.     *)
(* The pair MediaserverIp, ApplicationName is one value, a member of       *)
(* Servers; MediaserverParamsSet is written with it and read nowhere.      *)
(***************************************************************************)
EXTENDS Naturals, FiniteSets

CONSTANTS Servers,     \* media servers
          Nil,         \* no media server: empty strings
          Accounts,    \* user params: tariff, money left, vip or legal entity
          Contents,    \* the messages that may arrive
          MaxMessages, \* bound: messages that arrive
          MaxInFlight  \* bound: messages whose handlers overlap

Messages == 1..MaxMessages
Modes == {"none", "continuous", "motion", "schedule"}
Place == Servers \cup {Nil}
Account == [tariff : Nat, money : BOOLEAN, privileged : BOOLEAN]

\* `arg` is the device state, the sensor data or the recording mode; only a
\* command carries an account.
Message == [type : {"deviceState", "sensorData", "command", "cloudStreaming"},
            arg : STRING, ms : Place, account : Accounts]

ASSUME CameraAssumption ==
    /\ Nil \notin Servers
    /\ Accounts \subseteq Account
    /\ Contents \subseteq Message
    /\ MaxMessages \in Nat /\ MaxInFlight \in Nat

VARIABLES
    mode,      \* RecordingMode of the camera's params
    stored,    \* MediaserverIp and ApplicationName of the params
    motion,    \* MotionInProcess of the params
    user,      \* UserParams of the gateway's logic
    loaded,    \* UserParams as they were loaded from the database
    pc,        \* where the handler of each message is
    msg,       \* each message as it was received, Nil before
    address,   \* the media server its object names now
    prev,      \* prevTariffId of each command handler
    rowTasks,  \* messages whose camera state task has not ended
    requests,  \* record tasks that have not ended
    row,       \* columns onair and ip of the camera's row
    recorder,  \* the media servers that record the camera's stream
    overlap,   \* history: a message arrived while another was in flight
    fault,     \* history: a statement or a request was lost
    torn,      \* history: two commands wrote the user params at once
    latest,    \* history: servers whose latest request is a start
    doubtful   \* history: servers that lost a request or had two in flight

paramVars == <<mode, stored, motion>>
messageVars == <<msg, address, prev>>
handlerVars == <<pc, messageVars>>
taskVars == <<rowTasks, requests>>
worldVars == <<row, recorder>>
requestVars == <<latest, doubtful>>
userVars == <<user, loaded>>
historyVars == <<overlap, fault, torn>>
vars == <<paramVars, userVars, handlerVars, taskVars, worldVars, historyVars,
          requestVars>>

UserTarifOnline == 1

CanBeRecorded(a) == (a.tariff > UserTarifOnline /\ a.money) \/ a.privileged

Init ==
    /\ mode \in Modes
    /\ stored = Nil
    /\ motion = FALSE
    /\ loaded \in Accounts
    /\ user = loaded
    /\ pc = [m \in Messages |-> "idle"]
    /\ msg = [m \in Messages |-> Nil]
    /\ address = [m \in Messages |-> Nil]
    /\ prev = [m \in Messages |-> 0]
    /\ rowTasks = {}
    /\ requests = {}
    /\ row = [onair |-> FALSE, ip |-> Nil]
    /\ recorder = {}
    /\ overlap = FALSE /\ fault = FALSE /\ torn = FALSE
    /\ latest = {} /\ doubtful = {}

Received == {m \in Messages : pc[m] # "idle"}
InFlight == {m \in Received : pc[m] # "done"}
AtRest == InFlight = {} /\ rowTasks = {} /\ requests = {}
-----------------------------------------------------------------------------
(* What the handlers do to the shared state.                               *)

\* A record task starts with the media server and the command of a message.
Issue(m, place, on) ==
    /\ requests' = requests \cup {[by |-> m, ms |-> place, on |-> on]}
    /\ latest' = IF on THEN latest \cup {place} ELSE latest \ {place}
    /\ doubtful' = IF \E r \in requests : r.ms = place
                     THEN doubtful \cup {place} ELSE doubtful

IssueNone == UNCHANGED <<requests, requestVars>>

Goto(m, from, to) ==
    /\ pc[m] = from
    /\ pc' = [pc EXCEPT ![m] = to]

\* The gateway's reader or the REST handler starts a goroutine with a message.
Receive(m, c) ==
    /\ m = Cardinality(Received) + 1
    /\ Cardinality(InFlight) < MaxInFlight
    /\ Goto(m, "idle", "begin")
    /\ msg' = [msg EXCEPT ![m] = c]
    /\ address' = [address EXCEPT ![m] = c.ms]
    /\ overlap' = (overlap \/ ~AtRest)
    /\ UNCHANGED <<paramVars, userVars, prev, taskVars, worldVars, fault,
                   torn, requestVars>>

Is(m, type) == pc[m] = "begin" /\ msg[m].type = type
-----------------------------------------------------------------------------
(* processCameraState.                                                     *)

\* Mutant of AfterState: a stream that may not be recorded is handled on.
AfterStateUnchecked(m) ==
    CASE msg[m].arg = "streamingOn" -> "store"
      [] msg[m].arg = "streamingOff" -> "restore"
      [] OTHER -> "done"

\* The switch on the device state.  It returns for "on" and "off", with an
\* error for an unknown state, and for a stream that may not be recorded.
AfterState(m) ==
    CASE msg[m].arg = "streamingOn" /\ CanBeRecorded(user) -> "store"
      [] msg[m].arg = "streamingOff" -> "restore"
      [] OTHER -> "done"

\* The camera state task starts before the message is looked at.
BeginState(m) ==
    /\ Is(m, "deviceState")
    /\ Goto(m, "begin", AfterState(m))
    /\ rowTasks' = rowTasks \cup {m}
    /\ IssueNone
    /\ UNCHANGED <<paramVars, userVars, messageVars, worldVars, historyVars>>

StoreParams(m) ==
    /\ Goto(m, "store", "mode")
    /\ stored' = address[m]
    /\ UNCHANGED <<mode, motion, userVars, messageVars, taskVars, worldVars,
                   historyVars, requestVars>>

\* Mutant of RestoreParams: the message keeps its own address.
RestoreNothing(m) ==
    /\ Goto(m, "restore", "clear")
    /\ UNCHANGED <<paramVars, userVars, messageVars, taskVars, worldVars,
                   historyVars, requestVars>>

\* The message that the camera state task reads gets another address.
RestoreParams(m) ==
    /\ Goto(m, "restore", "clear")
    /\ address' = [address EXCEPT ![m] = stored]
    /\ UNCHANGED <<paramVars, userVars, msg, prev, taskVars, worldVars,
                   historyVars, requestVars>>

ClearParams(m) ==
    /\ Goto(m, "clear", "mode")
    /\ stored' = Nil
    /\ UNCHANGED <<mode, motion, userVars, messageVars, taskVars, worldVars,
                   historyVars, requestVars>>

Recorded == mode = "continuous" \/ (mode = "motion" /\ motion)

\* "Check recording mode": start or stop recording, or do neither.
CheckMode(m) ==
    /\ Goto(m, "mode", "done")
    /\ IF Recorded THEN Issue(m, address[m], msg[m].arg = "streamingOn")
                   ELSE IssueNone
    /\ UNCHANGED <<paramVars, userVars, messageVars, rowTasks, worldVars,
                   historyVars>>
-----------------------------------------------------------------------------
(* processCameraData and the message "cloudStreaming".                     *)

\* Mutant of ProcessMotion: the command is the opposite of the data.
ProcessMotionInverted(m) ==
    /\ Is(m, "sensorData")
    /\ Goto(m, "begin", "done")
    /\ IF mode = "motion"
       THEN /\ motion' = (msg[m].arg = "on")
            /\ Issue(m, address[m], msg[m].arg # "on")
       ELSE IssueNone /\ UNCHANGED motion
    /\ UNCHANGED <<mode, stored, userVars, messageVars, rowTasks, worldVars,
                   historyVars>>

\* A message of the motion detector.  Recording follows it with the address
\* of the message: the tariff, the stream and the stored address play no part.
ProcessMotion(m) ==
    /\ Is(m, "sensorData")
    /\ Goto(m, "begin", "done")
    /\ IF mode = "motion"
       THEN /\ motion' = (msg[m].arg = "on")
            /\ Issue(m, address[m], msg[m].arg = "on")
       ELSE IssueNone /\ UNCHANGED motion
    /\ UNCHANGED <<mode, stored, userVars, messageVars, rowTasks, worldVars,
                   historyVars>>

\* Starts an UpdateCameraStreamingStateTask and changes nothing else.
ProcessCloudStreaming(m) ==
    /\ Is(m, "cloudStreaming")
    /\ Goto(m, "begin", "done")
    /\ rowTasks' = rowTasks \cup {m}
    /\ IssueNone
    /\ UNCHANGED <<paramVars, userVars, messageVars, worldVars, historyVars>>
-----------------------------------------------------------------------------
(* processCameraCommand, command "setRecording".                           *)

Writing == {m \in Messages : pc[m] \in {"funds", "tariff"}}

\* The user params are four fields written without a lock: tariff first and
\* the rest next, or in the other order as another goroutine may see it.
BeginCommand(m) ==
    /\ Is(m, "command")
    /\ prev' = [prev EXCEPT ![m] = user.tariff]
    /\ \/ /\ Goto(m, "begin", "funds")
          /\ user' = [user EXCEPT !.tariff = msg[m].account.tariff]
       \/ /\ Goto(m, "begin", "tariff")
          /\ user' = [msg[m].account EXCEPT !.tariff = user.tariff]
    /\ torn' = (torn \/ Writing # {})
    /\ UNCHANGED <<paramVars, loaded, msg, address, taskVars, worldVars,
                   overlap, fault, requestVars>>

\* Mutant of FinishAccount: the amount of money is not updated.
FinishAccountHalf(m) ==
    /\ m \in Writing
    /\ Goto(m, pc[m], "decide")
    /\ user' = IF pc[m] = "funds" THEN user
                ELSE [user EXCEPT !.tariff = msg[m].account.tariff]
    /\ UNCHANGED <<paramVars, loaded, messageVars, taskVars, worldVars,
                   historyVars, requestVars>>

FinishAccount(m) ==
    /\ m \in Writing
    /\ Goto(m, pc[m], "decide")
    /\ user' = IF pc[m] = "funds"
                THEN [msg[m].account EXCEPT !.tariff = user.tariff]
                ELSE [user EXCEPT !.tariff = msg[m].account.tariff]
    /\ UNCHANGED <<paramVars, loaded, messageVars, taskVars, worldVars,
                   historyVars, requestVars>>

Starts(m) ==
    /\ CanBeRecorded(user)
    /\ \/ mode = "motion" /\ msg[m].arg = "continuous"
       \/ msg[m].arg = mode /\ prev[m] = UserTarifOnline

\* Mutant of Stops: the new tariff is not compared.
StopsOnPaid(m) ==
    \/ mode = "continuous" /\ msg[m].arg = "motion"
    \/ msg[m].arg = mode /\ prev[m] > UserTarifOnline

Stops(m) ==
    \/ mode = "continuous" /\ msg[m].arg = "motion"
    \/ /\ msg[m].arg = mode
       /\ prev[m] > UserTarifOnline /\ msg[m].account.tariff = UserTarifOnline

\* The mode of the command is compared with RecordingMode and not stored.
\* ToMessage takes the stored address, be it empty.
Decide(m) ==
    /\ Goto(m, "decide", "done")
    /\ IF Starts(m) THEN Issue(m, stored, TRUE)
       ELSE IF Stops(m) THEN Issue(m, stored, FALSE) ELSE IssueNone
    /\ UNCHANGED <<paramVars, userVars, messageVars, rowTasks, worldVars,
                   historyVars>>
-----------------------------------------------------------------------------
(* The tasks.                                                              *)

Onair(m) == \/ msg[m].arg = "streamingOn"
            \/ msg[m].arg = "on" /\ msg[m].type = "deviceState"

NamesServer(m) == /\ msg[m].type = "deviceState"
                  /\ msg[m].arg \in {"streamingOn", "streamingOff"}

\* Mutant of UpdateRow: every task writes the address.
UpdateRowAlways(m) ==
    /\ m \in rowTasks
    /\ rowTasks' = rowTasks \ {m}
    /\ \E ip \in {msg[m].ms, address[m]} :
          row' = [onair |-> Onair(m), ip |-> ip]
    /\ UNCHANGED <<paramVars, userVars, handlerVars, requests, recorder,
                   historyVars, requestVars>>

\* The statement takes effect, in time or after the task has given it up.  A
\* streaming state writes the address of the message, and which one that is
\* while the handler changes it is left to the race.
UpdateRow(m) ==
    /\ m \in rowTasks
    /\ rowTasks' = rowTasks \ {m}
    /\ \E ip \in IF NamesServer(m) THEN {msg[m].ms, address[m]} ELSE {row.ip} :
          row' = [onair |-> Onair(m), ip |-> ip]
    /\ UNCHANGED <<paramVars, userVars, handlerVars, requests, recorder,
                   historyVars, requestVars>>

\* The statement fails; the error is logged.
UpdateRowFails(m) ==
    /\ m \in rowTasks
    /\ rowTasks' = rowTasks \ {m}
    /\ fault' = TRUE
    /\ UNCHANGED <<paramVars, userVars, handlerVars, requests, worldVars,
                   overlap, torn, requestVars>>

\* Mutant of Record: a request to stop is sent like one to start.
RecordPosts(r) ==
    /\ r \in requests /\ r.ms # Nil
    /\ requests' = requests \ {r}
    /\ recorder' = recorder \cup {r.ms}
    /\ UNCHANGED <<paramVars, userVars, handlerVars, rowTasks, row,
                   historyVars, requestVars>>

\* The media server receives the request, whether its response is in time
\* or not: POST starts a recorder, PUT stops it.
Record(r) ==
    /\ r \in requests /\ r.ms # Nil
    /\ requests' = requests \ {r}
    /\ recorder' = IF r.on THEN recorder \cup {r.ms} ELSE recorder \ {r.ms}
    /\ UNCHANGED <<paramVars, userVars, handlerVars, rowTasks, row,
                   historyVars, requestVars>>

\* The request reaches no media server: it fails, or its URI names none.
RecordFails(r) ==
    /\ r \in requests
    /\ requests' = requests \ {r}
    /\ doubtful' = doubtful \cup {r.ms}
    /\ fault' = (fault \/ r.ms # Nil)
    /\ UNCHANGED <<paramVars, userVars, handlerVars, rowTasks, worldVars,
                   overlap, torn, latest>>
-----------------------------------------------------------------------------
Handle(m) ==
    \/ BeginState(m) \/ StoreParams(m) \/ RestoreParams(m) \/ ClearParams(m)
    \/ CheckMode(m)
    \/ ProcessMotion(m) \/ ProcessCloudStreaming(m)
    \/ BeginCommand(m) \/ FinishAccount(m) \/ Decide(m)

RowTask(m) == UpdateRow(m) \/ UpdateRowFails(m)
RecordTask(r) == Record(r) \/ RecordFails(r)

Next ==
    \/ \E m \in Messages :
          (\E c \in Contents : Receive(m, c)) \/ Handle(m) \/ RowTask(m)
    \/ \E r \in requests : RecordTask(r)

Spec == Init /\ [][Next]_vars
-----------------------------------------------------------------------------
(* Properties.                                                             *)

TypeOK ==
    /\ mode \in Modes /\ stored \in Place /\ motion \in BOOLEAN
    /\ user \in Account /\ loaded \in Accounts
    /\ pc \in [Messages -> {"idle", "begin", "store", "restore", "clear",
                            "mode", "funds", "tariff", "decide", "done"}]
    /\ msg \in [Messages -> Message \cup {Nil}]
    /\ \A m \in Received : msg[m] \in Message
    /\ address \in [Messages -> Place]
    /\ prev \in [Messages -> Nat]
    /\ rowTasks \subseteq Received
    /\ requests \subseteq [by : Received, ms : Place, on : BOOLEAN]
    /\ row \in [onair : BOOLEAN, ip : Place]
    /\ recorder \subseteq Servers
    /\ overlap \in BOOLEAN /\ fault \in BOOLEAN /\ torn \in BOOLEAN
    /\ latest \subseteq Place /\ doubtful \subseteq Place

Commands == {m \in Received : msg[m].type = "command"}
Streams == {m \in Received : NamesServer(m)}
Data == {m \in Received : msg[m].type = "sensorData"}
Rows == {m \in Received : msg[m].type \in {"deviceState", "cloudStreaming"}}

Last(m, S) == m \in S /\ \A n \in S : n <= m

KnownAccounts == {loaded} \cup {msg[m].account : m \in Commands}

\* No mixture of the fields of these accounts can be recorded.
Unpaid(S) ==
    /\ \A a \in S : ~a.privileged
    /\ (\A a \in S : a.tariff <= UserTarifOnline) \/ (\A a \in S : ~a.money)

\* A camera that is not in motion mode is never recorded for a user who has
\* never had an account that pays for it, whatever order handlers and tasks
\* run in and however their accesses to the user params mix: the tariff
\* restrictions of processCameraState and processCameraCommand.
UnpaidNeverRecorded ==
    mode # "motion" /\ Unpaid(KnownAccounts) => recorder = {}

\* The goroutines of the record tasks are not ordered, yet unless two of them
\* were on their way to one media server at once, or a request was lost, the
\* server does what the latest request asked for.
LatestRequestWins ==
    \A s \in Servers \ doubtful :
        (\A r \in requests : r.ms # s) => (s \in recorder <=> s \in latest)

\* The unlocked update of the user params by setRecording leaves the params
\* of one account and never a mixture, unless two commands overlap.
AccountIsWhole == ~torn /\ Writing = {} => user \in KnownAccounts

\* The rest is about messages that come one at a time, each after the tasks
\* of the one before, with no statement or request lost.
Clean == ~overlap /\ ~fault /\ AtRest

Before(m) == {n \in Commands : n < m}
Newest(S) == CHOOSE m \in S : Last(m, S)

\* The account in force when the handler of a message ran.
AccountAt(m) == IF Before(m) = {} THEN loaded
                ELSE msg[Newest(Before(m))].account

\* The camera changed its media server without a "streamingOff" in between.
Moved == \E m, n \in Streams :
    /\ m < n /\ msg[m].arg = "streamingOn" /\ msg[n].arg = "streamingOn"
    /\ msg[m].ms # msg[n].ms
    /\ \A k \in Streams : m < k /\ k < n => msg[k].arg = "streamingOn"

\* Continuous recording ends with the stream: processCameraState restores the
\* address that "streamingOff" does not carry, and no command records a camera
\* that does not stream.
StreamEndsRecording ==
    /\ Clean /\ mode = "continuous" /\ ~Moved
    /\ \A m \in Streams : Last(m, Streams) => msg[m].arg = "streamingOff"
    => recorder = {}

Paying(a) == CanBeRecorded(a) /\ a.tariff > UserTarifOnline

\* A stream of a camera loaded in continuous mode is recorded from its start
\* to its end when it names its media server and the user pays all the time,
\* whatever mode was commanded before it: setRecording does not change
\* RecordingMode.
StreamIsRecorded ==
    Clean /\ mode = "continuous" =>
        \A m \in Streams :
            /\ Last(m, Streams) /\ msg[m].arg = "streamingOn"
            /\ msg[m].ms # Nil
            /\ Paying(AccountAt(m))
            /\ \A n \in Commands : n > m =>
                    msg[n].arg = "continuous" /\ Paying(msg[n].account)
            => msg[m].ms \in recorder

\* In motion mode recording follows the motion detector for as long as its
\* messages name the media server and no stream ends and no command comes.
MotionDecides ==
    Clean /\ mode = "motion" =>
        \A m \in Data :
            /\ Last(m, Data) /\ msg[m].ms # Nil
            /\ \A n \in Received : n > m =>
                    msg[n].type # "command" /\ msg[n].arg # "streamingOff"
            => (msg[m].ms \in recorder <=> msg[m].arg = "on")

\* What the row may name when a stream has ended: no server, that of the
\* message, or one that the params had stored from an earlier stream.
Endings(m) ==
    {Nil, msg[m].ms} \cup
    {msg[n].ms : n \in {k \in Streams : k < m /\ CanBeRecorded(AccountAt(k))}}

\* The camera's row follows the messages: it is on air as the last one says
\* and names the media server of a stream that goes on.  Once the stream has
\* ended the race between the task and the handler decides.
RowAgrees ==
    Clean =>
        /\ \A m \in Rows : Last(m, Rows) => (row.onair <=> Onair(m))
        /\ \A m \in Streams : Last(m, Streams) =>
                IF msg[m].arg = "streamingOn" THEN row.ip = msg[m].ms
                ELSE row.ip \in Endings(m)
=============================================================================
