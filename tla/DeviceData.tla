----------------------------- MODULE DeviceData -----------------------------
(***************************************************************************)
(* Measurements, events and previews of the devices of one loaded gateway: *)
(* the handlers of "sensorData" and "preview" messages, the tasks they     *)
(* start to store the data in MySQL and InfluxDB, and the task that        *)
(* notifies the user.                                                      *)
(*                                                                         *)
(* Handlers and tasks are goroutines without order; a task that fails logs *)
(* an error, but a push task whose query fails uses the rows it did not    *)
(* get, and the panic ends the process with all other tasks.  main closes  *)
(* the database and returns without waiting for any of them.               *)
(*                                                                         *)
(* The gateway has one sensor and one camera, and the columns are those    *)
(* where their data goes.  What a camera's data means for its recording is *)
(* the subject of CameraLogic.                                             *)
(***************************************************************************)
EXTENDS Naturals

CONSTANTS MaxData, \* bound: messages with data
          MaxPush  \* bound: push commands

ASSUME DataAssumption == MaxData \in Nat /\ MaxPush \in Nat

Ids == 1..MaxData
Data == [device : {"sensor", "camera"}, value : {"on", "off"}]
            \cup [device : {"preview", "unknown"}, value : {"off"}]
NoData == [device |-> "none"]
Columns == {"value", "preview"}
Kinds == {"mysql", "influx", "query", "post"}

VARIABLES
    process, \* "running", "exited" or "panic"
    dbOpen,  \* the database connection is open
    inner,   \* params of the sensor: flags influx and notify
    push,    \* UserParams.Push
    pushes,  \* push commands so far
    data,    \* the messages read, NoData before
    handled, \* messages whose handler has returned
    tasks,   \* tasks under way, by message and kind
    failed,  \* tasks that ended with an error
    row,     \* the message each column holds the data of, 0 at first
    points,  \* messages stored in InfluxDB
    posts,   \* messages that led to a notification request
    wanted,  \* history: messages that started a push task
    silent,  \* history: messages read since the flag was cleared
    current, \* history: the latest message with a MySQL task, by column
    raced    \* history: columns with two MySQL tasks under way at once

processVars == <<process, dbOpen>>
paramVars == <<inner, push, pushes>>
handlerVars == <<data, handled>>
taskVars == <<tasks, failed>>
storeVars == <<row, points, posts>>
historyVars == <<wanted, silent, current, raced>>
vars == <<processVars, paramVars, handlerVars, taskVars, storeVars,
          historyVars>>

Init ==
    /\ process = "running"
    /\ dbOpen = TRUE
    /\ inner \in [influx : BOOLEAN, notify : BOOLEAN]
    /\ push \in BOOLEAN
    /\ pushes = 0
    /\ data = [m \in Ids |-> NoData]
    /\ handled = {}
    /\ tasks = {}
    /\ failed = {}
    /\ row = [c \in Columns |-> 0]
    /\ points = {}
    /\ posts = {}
    /\ wanted = {}
    /\ silent = {}
    /\ current = row
    /\ raced = {}

Running == process = "running"
Read == {m \in Ids : data[m] # NoData}
Under(kind) == {m \in Ids : <<m, kind>> \in tasks}
-----------------------------------------------------------------------------
(* The surroundings: the channel's reader, handleCommand and main.         *)

ReceiveData(m) ==
    /\ Running /\ m \notin Read /\ 1..(m - 1) \subseteq Read
    /\ \E d \in Data : data' = [data EXCEPT ![m] = d]
    /\ silent' = IF push THEN silent ELSE silent \cup {m}
    /\ UNCHANGED <<processVars, paramVars, handled, taskVars, storeVars,
                   wanted, current, raced>>

\* Command "push": a message that is being handled may see either value.
SetPush ==
    /\ Running /\ pushes < MaxPush
    /\ pushes' = pushes + 1
    /\ push' = ~push
    /\ silent' = {}
    /\ UNCHANGED <<processVars, inner, handlerVars, taskVars, storeVars,
                   wanted, current, raced>>

CloseDb ==
    /\ Running /\ dbOpen
    /\ dbOpen' = FALSE
    /\ UNCHANGED <<process, paramVars, handlerVars, taskVars, storeVars,
                   historyVars>>

Exit ==
    /\ Running /\ ~dbOpen
    /\ process' = "exited"
    /\ UNCHANGED <<dbOpen, paramVars, handlerVars, taskVars, storeVars,
                   historyVars>>
-----------------------------------------------------------------------------
(* processSensorData, processCameraData and the message "preview".         *)

\* Mutant of Notifies: the user's push flag is not looked at.
NotifiesAlways(m) ==
    /\ data[m].value = "on"
    /\ data[m].device = "camera" \/ (data[m].device = "sensor" /\ inner.notify)

\* "Inform user": the label of camera data is "motionDetector".
Notifies(m) ==
    /\ data[m].value = "on" /\ push
    /\ data[m].device = "camera" \/ (data[m].device = "sensor" /\ inner.notify)

Column(m) == IF data[m].device = "preview" THEN "preview" ELSE "value"
StoresRow(m) == data[m].device \in {"sensor", "preview"}

\* Mutant of StoresPoint: the flag of another use of the data is looked at.
StoresPointNotify(m) ==
    data[m].device = "camera" \/ (data[m].device = "sensor" /\ inner.notify)

StoresPoint(m) ==
    data[m].device = "camera" \/ (data[m].device = "sensor" /\ inner.influx)

\* The tasks the handler starts.  A device or a label without params is an
\* error and starts none.
Started(m) ==
    (IF StoresRow(m) THEN {<<m, "mysql">>} ELSE {})
    \cup (IF StoresPoint(m) THEN {<<m, "influx">>} ELSE {})
    \cup (IF Notifies(m) THEN {<<m, "query">>} ELSE {})

Storing(c) == {m \in Under("mysql") : Column(m) = c}

ProcessData(m) ==
    /\ Running /\ m \in Read \ handled
    /\ handled' = handled \cup {m}
    /\ tasks' = tasks \cup Started(m)
    /\ wanted' = IF Notifies(m) THEN wanted \cup {m} ELSE wanted
    /\ IF StoresRow(m)
       THEN /\ current' = [current EXCEPT ![Column(m)] = m]
            /\ raced' = IF Storing(Column(m)) = {} THEN raced
                        ELSE raced \cup {Column(m)}
       ELSE UNCHANGED <<current, raced>>
    /\ UNCHANGED <<processVars, paramVars, data, failed, storeVars, silent>>
-----------------------------------------------------------------------------
(* The tasks.                                                              *)

Ends(m, kind) ==
    /\ Running /\ <<m, kind>> \in tasks
    /\ tasks' = tasks \ {<<m, kind>>}

Fails(m, kind) ==
    /\ Ends(m, kind)
    /\ failed' = failed \cup {<<m, kind>>}
    /\ UNCHANGED <<dbOpen, paramVars, handlerVars, storeVars, historyVars>>

\* Mutant of StoreMySql: an age that the row does not have is compared.
StoreMySqlFirst(m) ==
    /\ dbOpen
    /\ Ends(m, "mysql")
    /\ row' = [row EXCEPT ![Column(m)] = IF @ = 0 THEN m ELSE @]
    /\ UNCHANGED <<processVars, paramVars, handlerVars, failed, points, posts,
                   historyVars>>

\* StoreSensorDataMySqlTask and StorePreviewTask overwrite their column,
\* whatever the age of its data, in time or after the task has given the
\* statement up.  Nothing is stored once the database is closed.
StoreMySql(m) ==
    /\ dbOpen
    /\ Ends(m, "mysql")
    /\ row' = [row EXCEPT ![Column(m)] = m]
    /\ UNCHANGED <<processVars, paramVars, handlerVars, failed, points, posts,
                   historyVars>>

StoreInflux(m) ==
    /\ Ends(m, "influx")
    /\ points' = points \cup {m}
    /\ UNCHANGED <<processVars, paramVars, handlerVars, failed, row, posts,
                   historyVars>>

\* A statement fails or times out, a point or a notification is not sent: the
\* error is logged and nothing is tried again.
TaskFails(m) ==
    /\ \E kind \in {"mysql", "influx", "post"} : Fails(m, kind)
    /\ UNCHANGED process

\* Mutant of QueryIds: a user without player ids is skipped.
QueryIdsSkips(m) ==
    /\ dbOpen /\ Running /\ m \in Under("query")
    /\ tasks' \in {tasks \ {<<m, "query">>},
                   (tasks \ {<<m, "query">>}) \cup {<<m, "post">>}}
    /\ UNCHANGED <<processVars, paramVars, handlerVars, failed, storeVars,
                   historyVars>>

\* SendPushNotificationTask has its rows, be there any or none: the slice
\* starts with eight empty ids, so the check for an empty list never holds.
QueryIds(m) ==
    /\ dbOpen /\ Running /\ m \in Under("query")
    /\ tasks' = (tasks \ {<<m, "query">>}) \cup {<<m, "post">>}
    /\ UNCHANGED <<processVars, paramVars, handlerVars, failed, storeVars,
                   historyVars>>

\* The query fails: the error is logged and rows.Next panics on nil.
QueryFails(m) ==
    /\ Fails(m, "query")
    /\ process' = "panic"

\* The request reaches the push service.
Post(m) ==
    /\ Ends(m, "post")
    /\ posts' = posts \cup {m}
    /\ UNCHANGED <<processVars, paramVars, handlerVars, failed, row, points,
                   historyVars>>

RunTask(m) ==
    \/ StoreMySql(m) \/ StoreInflux(m) \/ TaskFails(m)
    \/ QueryIds(m) \/ QueryFails(m) \/ Post(m)
-----------------------------------------------------------------------------
Next ==
    \/ SetPush \/ CloseDb \/ Exit
    \/ \E m \in Ids : ReceiveData(m) \/ ProcessData(m) \/ RunTask(m)

Spec == Init /\ [][Next]_vars

\* Goroutines are scheduled; statements and HTTP requests have timeouts.
FairSpec ==
    /\ Spec
    /\ \A m \in Ids : WF_vars(ProcessData(m)) /\ WF_vars(RunTask(m))
-----------------------------------------------------------------------------
(* Properties.                                                             *)

TypeOK ==
    /\ process \in {"running", "exited", "panic"} /\ dbOpen \in BOOLEAN
    /\ inner \in [influx : BOOLEAN, notify : BOOLEAN]
    /\ push \in BOOLEAN /\ pushes \in Nat
    /\ data \in [Ids -> Data \cup {NoData}]
    /\ handled \subseteq Read
    /\ tasks \subseteq handled \X Kinds /\ failed \subseteq handled \X Kinds
    /\ row \in [Columns -> handled \cup {0}]
    /\ current \in [Columns -> handled \cup {0}]
    /\ points \subseteq handled /\ posts \subseteq wanted
    /\ wanted \subseteq handled /\ silent \subseteq Read
    /\ raced \subseteq Columns

\* StoreSensorDataMySqlTask, StorePreviewTask: tasks are not ordered, yet when
\* no two of them were under way at once for a column, and the statement of
\* the message handled last has not failed, the column ends up with its data.
LatestValueStored ==
    \A c \in Columns \ raced :
        Storing(c) = {} /\ <<current[c], "mysql">> \notin failed
            => row[c] = current[c]

\* SendPushNotificationTask: a notification the handler asked for waits in
\* exactly one step of the task, or has failed, or has been requested; users
\* without devices are not skipped, though the code has a check for them.
EventsAccounted ==
    \A m \in wanted :
        \/ m \in Under("query") /\ m \notin Under("post") \cup posts
        \/ m \in Under("post") /\ m \notin Under("query") \cup posts
        \/ m \in posts /\ m \notin Under("query") \cup Under("post")
        \/ /\ <<m, "query">> \in failed \/ <<m, "post">> \in failed
           /\ m \notin Under("query") \cup Under("post") \cup posts

\* UserParams.Push: a message that is read after the user has turned
\* notifications off sends none, and cannot bring the process down either.
SilentMeansSilent ==
    /\ posts \cap silent = {}
    /\ process = "panic" =>
           \E m \in wanted \ silent : <<m, "query">> \in failed

\* Every message read is stored as its device's params say, or the storing
\* has failed, or the process has ended: one task's failure does not stop the
\* other tasks of the message, unless it is the query of a push task.
EveryDatumStored ==
    \A m \in Ids :
        data[m].device = "sensor" ~>
            \/ ~Running
            \/ /\ m \in handled /\ m \notin Under("mysql") \cup Under("influx")
               /\ inner.influx => m \in points \/ <<m, "influx">> \in failed
=============================================================================
