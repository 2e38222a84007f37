-------------------------- MODULE DeviceDataProofs --------------------------
(***************************************************************************)
(* Proofs about DeviceData for any number of messages and push commands:   *)
(* its type correctness, that a column ends up with the data of the latest *)
(* message unless two tasks raced for it, that no notification is skipped  *)
(* and that none is sent for a message read after the user turned them off.*)
(***************************************************************************)
EXTENDS DeviceData, TLAPS

\* A push task belongs to a message that wanted one.
PushTasksWanted ==
    \A m \in Ids : m \in Under("query") \cup Under("post") => m \in wanted

\* Only messages read with the flag cleared are to be silent, and none of
\* them has started a push task.
SilentUntouched == (push => silent = {}) /\ wanted \cap silent = {}

\* A panic has its message.
PanicExplained ==
    process = "panic" => \E m \in wanted \ silent : <<m, "query">> \in failed

\* A column that was not raced for has one task at most, the latest.
OneTaskPerColumn ==
    \A c \in Columns \ raced : Storing(c) \subseteq {current[c]}

IInv ==
    /\ TypeOK
    /\ PushTasksWanted
    /\ SilentUntouched
    /\ PanicExplained
    /\ OneTaskPerColumn
    /\ LatestValueStored
    /\ EventsAccounted
-----------------------------------------------------------------------------
LEMMA InitIInv == Init => IInv
<1> SUFFICES ASSUME Init PROVE IInv
  OBVIOUS
<1>1. Read = {} /\ \A kind : Under(kind) = {}
  BY DEF Init, Read, Under
<1>2. TypeOK
  BY <1>1 DEF Init, TypeOK
<1>3. \A c \in Columns : Storing(c) = {} /\ row[c] = 0 /\ current[c] = 0
  BY <1>1 DEF Init, Storing
<1> QED
  BY <1>1, <1>2, <1>3
     DEF Init, IInv, PushTasksWanted, SilentUntouched, PanicExplained,
         OneTaskPerColumn, LatestValueStored, EventsAccounted

\* Reading a message touches nothing that belongs to another.
LEMMA ReceiveIInv ==
    ASSUME NEW m \in Ids, IInv, ReceiveData(m)
    PROVE  IInv'
<1> USE DEF processVars, paramVars, handlerVars, taskVars, storeVars,
            historyVars, IInv
<1>1. PICK d \in Data : data' = [data EXCEPT ![m] = d]
  BY DEF ReceiveData
<1>2. /\ m \notin Read /\ m \notin handled /\ m \notin wanted
      /\ Read' = Read \cup {m}
  BY <1>1 DEF ReceiveData, TypeOK, Read, Data, NoData
<1>3. /\ tasks' = tasks /\ failed' = failed /\ handled' = handled
      /\ process = "running" /\ process' = "running"
      /\ \A kind : Under(kind)' = Under(kind)
  BY DEF ReceiveData, Running, Under
<1>4. TypeOK'
  BY <1>1, <1>2, <1>3 DEF ReceiveData, TypeOK
<1>5. \A c : Storing(c)' = Storing(c)
  <2>1. \A n \in Under("mysql") : n # m /\ n \in Ids
    BY <1>2 DEF Under, TypeOK
  <2>2. \A n \in Under("mysql") : Column(n)' = Column(n)
    BY <1>1, <2>1 DEF Column, TypeOK
  <2> QED
    BY <1>3, <2>2 DEF Storing
<1>6. SilentUntouched' /\ PanicExplained'
  BY <1>2, <1>3 DEF ReceiveData, SilentUntouched, PanicExplained
<1>7. OneTaskPerColumn' /\ LatestValueStored'
  BY <1>3, <1>5 DEF ReceiveData, OneTaskPerColumn, LatestValueStored
<1>8. PushTasksWanted' /\ EventsAccounted'
  BY <1>3 DEF ReceiveData, PushTasksWanted, EventsAccounted
<1> QED
  BY <1>4, <1>6, <1>7, <1>8

\* The surroundings leave messages and tasks alone.
LEMMA OutsideIInv ==
    ASSUME IInv, SetPush \/ CloseDb \/ Exit
    PROVE  IInv'
<1> USE DEF processVars, paramVars, handlerVars, taskVars, storeVars,
            historyVars, IInv
<1>1. /\ tasks' = tasks /\ failed' = failed /\ handled' = handled
      /\ data' = data /\ wanted' = wanted /\ posts' = posts /\ row' = row
      /\ points' = points /\ current' = current /\ raced' = raced
      /\ process' # "panic"
      /\ \A kind : Under(kind)' = Under(kind)
      /\ \A c : Storing(c)' = Storing(c)
      /\ Read' = Read
  BY DEF SetPush, CloseDb, Exit, Running, Under, Storing, Column, Read
<1>2. TypeOK'
  <2>1. process' \in {"running", "exited", "panic"} /\ dbOpen' \in BOOLEAN
    BY DEF SetPush, CloseDb, Exit, TypeOK
  <2>2. push' \in BOOLEAN
    BY DEF SetPush, CloseDb, Exit, TypeOK
  <2>3. pushes' \in Nat /\ silent' \subseteq Read /\ inner' = inner
    BY DEF SetPush, CloseDb, Exit, TypeOK
  <2> QED
    BY <1>1, <2>1, <2>2, <2>3 DEF TypeOK
<1>3. SilentUntouched'
  BY <1>1 DEF SetPush, CloseDb, Exit, SilentUntouched
<1>4. /\ PushTasksWanted' /\ PanicExplained' /\ OneTaskPerColumn'
      /\ LatestValueStored' /\ EventsAccounted'
  BY <1>1 DEF PushTasksWanted, PanicExplained, OneTaskPerColumn,
              LatestValueStored, EventsAccounted
<1> QED
  BY <1>2, <1>3, <1>4

\* A handler starts the tasks of its own message, which had none.
LEMMA ProcessIInv ==
    ASSUME NEW m \in Ids, IInv, ProcessData(m)
    PROVE  IInv'
<1> USE DEF processVars, paramVars, handlerVars, taskVars, storeVars,
            historyVars, IInv
<1>1. /\ process = "running" /\ process' = "running"
      /\ m \in Read /\ m \notin handled /\ handled' = handled \cup {m}
      /\ data' = data /\ Read' = Read /\ failed' = failed /\ posts' = posts
      /\ push' = push /\ silent' = silent /\ row' = row /\ points' = points
      /\ tasks' = tasks \cup Started(m)
      /\ wanted' = IF Notifies(m) THEN wanted \cup {m} ELSE wanted
  BY DEF ProcessData, Running, Read
<1>2. /\ m \notin wanted /\ m \notin posts
      /\ \A kind : m \notin Under(kind) /\ <<m, kind>> \notin failed
  BY <1>1 DEF TypeOK, Under
<1>3. /\ Started(m) \subseteq {m} \X Kinds
      /\ <<m, "query">> \in Started(m) <=> Notifies(m)
      /\ <<m, "mysql">> \in Started(m) <=> StoresRow(m)
      /\ <<m, "post">> \notin Started(m)
  BY DEF Started, Kinds
<1>4. \A kind : Under(kind)' = IF <<m, kind>> \in Started(m)
                               THEN Under(kind) \cup {m} ELSE Under(kind)
  BY <1>1, <1>3 DEF Under
<1>5. TypeOK'
  <2>1. /\ tasks' \subseteq handled' \X Kinds
        /\ failed' \subseteq handled' \X Kinds
    BY <1>1, <1>3 DEF TypeOK
  <2>2. current' \in [Columns -> handled' \cup {0}] /\ raced' \subseteq Columns
    BY <1>1, ZenonT(30) DEF ProcessData, TypeOK, Column, Columns
  <2> QED
    BY <1>1, <2>1, <2>2 DEF ProcessData, TypeOK
<1>6. PushTasksWanted'
  BY <1>1, <1>3, <1>4 DEF PushTasksWanted
<1>7. SilentUntouched'
  BY <1>1 DEF SilentUntouched, Notifies
<1>8. PanicExplained'
  BY <1>1 DEF PanicExplained
<1>9. EventsAccounted'
  BY <1>1, <1>2, <1>3, <1>4 DEF EventsAccounted
<1>10. OneTaskPerColumn' /\ LatestValueStored'
  <2>1. \A c : Storing(c)' = IF StoresRow(m) /\ c = Column(m)
                             THEN Storing(c) \cup {m} ELSE Storing(c)
    BY <1>1, <1>3, <1>4 DEF Storing, Column
  <2>2. CASE ~StoresRow(m)
    BY <1>1, <2>1, <2>2
       DEF ProcessData, OneTaskPerColumn, LatestValueStored
  <2>3. CASE StoresRow(m)
    <3>1. /\ Column(m) \in Columns
          /\ current' = [current EXCEPT ![Column(m)] = m]
          /\ raced' = IF Storing(Column(m)) = {} THEN raced
                      ELSE raced \cup {Column(m)}
      BY <2>3 DEF ProcessData, Column, Columns
    <3>2. ASSUME NEW c \in Columns, c \notin raced', c = Column(m)
          PROVE  /\ Storing(c)' = {m} /\ current'[c] = m
      BY <2>1, <2>3, <3>1, <3>2 DEF TypeOK
    <3>3. ASSUME NEW c \in Columns, c \notin raced', c # Column(m)
          PROVE  /\ Storing(c)' = Storing(c) /\ current'[c] = current[c]
                 /\ c \notin raced
      BY <2>1, <3>1, <3>3 DEF TypeOK
    <3> QED
      BY <1>1, <3>2, <3>3 DEF OneTaskPerColumn, LatestValueStored
  <2> QED
    BY <2>2, <2>3
<1> QED
  BY <1>5, <1>6, <1>7, <1>8, <1>9, <1>10

\* A task ends, one way or the other.
LEMMA TaskIInv ==
    ASSUME NEW m \in Ids, IInv, RunTask(m)
    PROVE  IInv'
<1> USE DEF processVars, paramVars, handlerVars, taskVars, storeVars,
            historyVars, IInv
<1>1. /\ data' = data /\ Read' = Read /\ handled' = handled
      /\ wanted' = wanted /\ silent' = silent /\ push' = push
      /\ inner' = inner /\ pushes' = pushes
      /\ current' = current /\ raced' = raced
      /\ \A n : Column(n)' = Column(n)
      /\ process = "running"
  BY DEF RunTask, StoreMySql, StoreInflux, TaskFails, QueryIds, QueryFails,
         Post, Ends, Fails, Running, Read, Column
<1> DEFINE Step(kind, more) ==
          /\ kind \in Kinds /\ more \in {{}, {<<m, "post">>}}
          /\ <<m, kind>> \in tasks
          /\ tasks' = (tasks \ {<<m, kind>>}) \cup more
          /\ more # {} => kind = "query"
          /\ kind = "query" /\ more = {} => <<m, "query">> \in failed'
          /\ IF kind = "post"
             THEN \/ posts' = posts \cup {m}
                  \/ posts' = posts /\ <<m, "post">> \in failed'
             ELSE posts' = posts
          /\ IF kind = "mysql"
             THEN \/ row' = row /\ <<m, "mysql">> \in failed'
                  \/ row' = [row EXCEPT ![Column(m)] = m]
             ELSE row' = row
          /\ failed' \in {failed, failed \cup {<<m, kind>>}}
          /\ \/ process' = process
             \/ process' = "panic" /\ kind = "query" /\ more = {}
          /\ points' \in {points, points \cup {m}}
          /\ dbOpen' = dbOpen
<1>2. PICK kind, more : Step(kind, more)
  <2>1. CASE StoreMySql(m)
    <3>1. Step("mysql", {})
      BY <2>1 DEF StoreMySql, Ends, Kinds
    <3> QED
      BY <3>1
  <2>2. CASE StoreInflux(m)
    <3>1. Step("influx", {})
      BY <2>2 DEF StoreInflux, Ends, Kinds
    <3> QED
      BY <3>1
  <2>3. CASE TaskFails(m)
    <3>1. PICK k \in {"mysql", "influx", "post"} : Fails(m, k)
      BY <2>3 DEF TaskFails
    <3>2. Step(k, {})
      BY <2>3, <3>1 DEF TaskFails, Fails, Ends, Kinds
    <3> QED
      BY <3>2
  <2>4. CASE QueryIds(m)
    <3>1. Step("query", {<<m, "post">>})
      BY <2>4 DEF QueryIds, Under, Kinds
    <3> QED
      BY <3>1
  <2>5. CASE QueryFails(m)
    <3>1. Step("query", {})
      BY <2>5 DEF QueryFails, Fails, Ends, Kinds
    <3> QED
      BY <3>1
  <2>6. CASE Post(m)
    <3>1. Step("post", {})
      BY <2>6 DEF Post, Ends, Kinds
    <3> QED
      BY <3>1
  <2> QED
    BY <2>1, <2>2, <2>3, <2>4, <2>5, <2>6 DEF RunTask
<1>3. m \in handled /\ \A k : <<m, k>> \in tasks \cup failed => k \in Kinds
  BY <1>2 DEF TypeOK
<1>4. \A k, n : n \in Under(k)' <=>
          \/ n \in Under(k) /\ ~(n = m /\ k = kind)
          \/ n = m /\ k = "post" /\ more # {}
  BY <1>2 DEF Under
<1>5. TypeOK'
  <2>1. m \in wanted \/ posts' = posts
    BY <1>2, <1>3 DEF PushTasksWanted, Under
  <2>2. /\ tasks' \subseteq handled \X Kinds
        /\ failed' \subseteq handled \X Kinds
    BY <1>2, <1>3 DEF TypeOK, Kinds
  <2>3. row' \in [Columns -> handled \cup {0}]
    BY <1>2, <1>3 DEF TypeOK
  <2> QED
    BY <1>1, <1>2, <1>3, <2>1, <2>2, <2>3 DEF TypeOK
<1>6. PushTasksWanted'
  BY <1>1, <1>2, <1>4 DEF PushTasksWanted, Under
<1>7. SilentUntouched'
  BY <1>1 DEF SilentUntouched
<1>8. PanicExplained'
  <2>1. SUFFICES ASSUME process' = "panic"
                 PROVE  m \in wanted \ silent /\ <<m, "query">> \in failed'
    BY <1>1 DEF PanicExplained
  <2>2. m \in Under("query") /\ <<m, "query">> \in failed'
    BY <1>1, <1>2, <2>1 DEF Under
  <2> QED
    BY <2>2 DEF PushTasksWanted, SilentUntouched
<1>9. EventsAccounted'
  <2>1. CASE kind = "query"
    BY <1>1, <1>2, <1>4, <2>1 DEF EventsAccounted, Under
  <2>2. CASE kind = "post"
    BY <1>1, <1>2, <1>4, <2>2, ZenonT(30) DEF EventsAccounted, Under
  <2>3. CASE kind \notin {"query", "post"}
    BY <1>1, <1>2, <1>4, <2>3 DEF EventsAccounted, Under
  <2> QED
    BY <2>1, <2>2, <2>3
<1>10. OneTaskPerColumn' /\ LatestValueStored'
  <2>1. \A c : Storing(c)' = IF kind = "mysql" THEN Storing(c) \ {m}
                             ELSE Storing(c)
    BY <1>1, <1>2, <1>4 DEF Storing
  <2>2. OneTaskPerColumn'
    BY <1>1, <2>1 DEF OneTaskPerColumn
  <2>3. CASE kind # "mysql"
    BY <1>1, <1>2, <2>1, <2>2, <2>3 DEF LatestValueStored
  <2>4. CASE kind = "mysql"
    <3>1. m \in Storing(Column(m)) /\ Column(m) \in Columns
      BY <1>2, <2>4 DEF Storing, Under, Column, Columns
    <3>2. ASSUME NEW c \in Columns, c \notin raced, c = Column(m),
                 <<current[c], "mysql">> \notin failed'
          PROVE  row'[c] = current[c]
      <4>1. current[c] = m
        BY <3>1, <3>2 DEF OneTaskPerColumn
      <4> QED
        BY <1>2, <2>4, <3>1, <3>2, <4>1 DEF TypeOK
    <3>3. ASSUME NEW c \in Columns, c # Column(m)
          PROVE  /\ Storing(c)' = Storing(c) /\ row'[c] = row[c]
      BY <1>2, <2>1, <3>3 DEF Storing, TypeOK
    <3>4. failed \subseteq failed'
      BY <1>2
    <3> QED
      BY <1>1, <2>2, <3>2, <3>3, <3>4 DEF LatestValueStored
  <2> QED
    BY <2>2, <2>3, <2>4
<1> QED
  BY <1>5, <1>6, <1>7, <1>8, <1>9, <1>10

LEMMA NextIInv ==
    ASSUME IInv, [Next]_vars
    PROVE  IInv'
<1>1. CASE Next
  BY <1>1, OutsideIInv, ReceiveIInv, ProcessIInv, TaskIInv DEF Next
<1>2. CASE UNCHANGED vars
  <2>1. /\ Read' = Read /\ \A kind : Under(kind)' = Under(kind)
        /\ \A c : Storing(c)' = Storing(c)
    BY <1>2 DEF vars, handlerVars, taskVars, Read, Under, Storing, Column
  <2> QED
    BY <1>2, <2>1
       DEF vars, processVars, paramVars, handlerVars, taskVars, storeVars,
           historyVars, IInv, TypeOK, PushTasksWanted, SilentUntouched,
           PanicExplained, OneTaskPerColumn, LatestValueStored,
           EventsAccounted
<1> QED
  BY <1>1, <1>2

\* The strengthening is an invariant of every behaviour.
THEOREM Inductive == Spec => []IInv
<1> QED
  BY InitIInv, NextIInv, PTL DEF Spec
-----------------------------------------------------------------------------
\* For any number of messages and push commands the state keeps its types:
\* only tasks of handled messages run, fail or store (ProcessData, RunTask).
THEOREM TypeCorrect == Spec => []TypeOK
<1>1. IInv => TypeOK
  BY DEF IInv
<1> QED
  BY <1>1, Inductive, PTL

\* A column no two MySQL tasks raced for ends up with the data of the message
\* handled last, unless its statement failed (StoreSensorDataMySqlTask).
THEOREM LatestStored == Spec => []LatestValueStored
<1>1. IInv => LatestValueStored
  BY DEF IInv
<1> QED
  BY <1>1, Inductive, PTL

\* A notification is in one step of its task, failed or requested: the check
\* for an empty list of ids never skips it (SendPushNotificationTask).
THEOREM EventsKept == Spec => []EventsAccounted
<1>1. IInv => EventsAccounted
  BY DEF IInv
<1> QED
  BY <1>1, Inductive, PTL

\* A message read after the user turned notifications off neither sends one
\* nor ends the process (UserParams.Push, rows.Next on a failed query).
THEOREM SilentKept == Spec => []SilentMeansSilent
<1>1. IInv => SilentMeansSilent
  BY DEF IInv, TypeOK, SilentUntouched, PanicExplained, SilentMeansSilent
<1> QED
  BY <1>1, Inductive, PTL
=============================================================================
