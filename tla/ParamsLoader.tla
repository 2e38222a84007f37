---------------------------- MODULE ParamsLoader ----------------------------
(***************************************************************************)
(* GatewayLogic.LoadParams, run by several goroutines at once over the     *)
(* database pool of Connection.Init, which opens a fixed number of         *)
(* connections.  A query occupies a connection until its rows are closed,  *)
(* and the query for the inner params of a sensor device is made while the *)
(* rows of the devices are open: a load needs two connections at once.     *)
(*                                                                         *)
(* A load has three contexts with a timeout each.  When one expires, or    *)
(* the channel is stopped, database/sql refuses the queries made under it  *)
(* and closes their rows; the loops over these rows then end as if all     *)
(* rows had been read.                                                     *)
(***************************************************************************)
EXTENDS Naturals, FiniteSets

CONSTANTS Loaders,  \* executions of LoadParams
          PoolSize, \* connections of the pool, 8 in Connection.Init
          Cameras,  \* cameras of the gateway of each load
          Sensors,  \* sensor devices of the gateway of each load
          MaxBusy   \* bound: connections in use by single statements

ASSUME ParamsAssumption ==
    /\ PoolSize \in Nat \ {0} /\ Cameras \in Nat /\ Sensors \in Nat
    /\ MaxBusy \in Nat

VARIABLES
    pc,      \* where each load is in LoadParams
    open,    \* <<load, query>>: the queries that occupy a connection
    expired, \* <<load, k>>: context k is done, by timeout or by cancel
    cameras, \* entries of CameraParams
    sensors, \* entries of SensorParams
    inner,   \* of these, the ones that have all their inner params
    result,  \* what LoadParams returned: "none", "loaded" or "error"
    busy     \* connections in use by other statements

loadVars == <<cameras, sensors, inner>>
vars == <<pc, open, expired, loadVars, result, busy>>

Queries == {"user", "camera", "sensor", "inner"}

\* The contexts of a load, and the one a query is made under.
Contexts == 1 .. 3
ContextOf(q) == CASE q = "user" -> 1 [] q = "camera" -> 2 [] OTHER -> 3

\* In "user", "camera", "sensor" and "inner" a load waits for a connection,
\* in the states with Rows it reads what the query returned.
Waiting == Queries
Query(l) == CASE pc[l] \in {"user", "userRow"} -> "user"
              [] pc[l] \in {"camera", "cameraRows"} -> "camera"
              [] pc[l] \in {"sensor", "sensorRows"} -> "sensor"
              [] OTHER -> "inner"

Init ==
    /\ pc = [l \in Loaders |-> "idle"]
    /\ open = {}
    /\ expired = {}
    /\ cameras = [l \in Loaders |-> 0]
    /\ sensors = [l \in Loaders |-> 0]
    /\ inner = [l \in Loaders |-> 0]
    /\ result = [l \in Loaders |-> "none"]
    /\ busy = 0

Free == PoolSize - Cardinality(open) - busy
Active == {l \in Loaders : pc[l] \notin {"idle", "returned"}}
Querying == {l \in Active : pc[l] # "register"}
IsExpired(l) == <<l, ContextOf(Query(l))>> \in expired

Goto(l, from, to) ==
    /\ pc[l] = from
    /\ pc' = [pc EXCEPT ![l] = to]

\* The deferred cancels run: every context of the load is done.
Return(l, r) ==
    /\ pc' = [pc EXCEPT ![l] = "returned"]
    /\ result' = [result EXCEPT ![l] = r]
    /\ expired' = expired \cup ({l} \X Contexts)
-----------------------------------------------------------------------------
(* LoadParams.                                                             *)

Start(l) ==
    /\ Goto(l, "idle", "user")
    /\ UNCHANGED <<open, expired, loadVars, result, busy>>

\* A query gets a connection of the pool.
Acquire(l, q, next) ==
    /\ ~IsExpired(l) /\ Free > 0
    /\ Goto(l, q, next)
    /\ open' = open \cup {<<l, q>>}
    /\ UNCHANGED <<expired, loadVars, result, busy>>

UserQuery(l) == Acquire(l, "user", "userRow")
CameraQuery(l) == Acquire(l, "camera", "cameraRows")
SensorQuery(l) == Acquire(l, "sensor", "sensorRows")
InnerQuery(l) == Acquire(l, "inner", "innerRows")

\* Mutant of UserRead: a query whose first row is read and whose rows are not
\* closed.
UserReadOpen(l) ==
    /\ <<l, "user">> \in open
    /\ Goto(l, "userRow", "camera")
    /\ UNCHANGED <<open, expired, loadVars, result, busy>>

\* GetContext reads one row and closes.  It fails when the row is lost.
UserRead(l) ==
    /\ <<l, "user">> \in open
    /\ Goto(l, "userRow", "camera")
    /\ open' = open \ {<<l, "user">>}
    /\ UNCHANGED <<expired, loadVars, result, busy>>

CameraNext(l) ==
    /\ pc[l] = "cameraRows" /\ <<l, "camera">> \in open
    /\ cameras[l] < Cameras
    /\ cameras' = [cameras EXCEPT ![l] = @ + 1]
    /\ UNCHANGED <<pc, open, expired, sensors, inner, result, busy>>

\* cameraRows.Next() is false: no row is left, or the rows were closed.
CameraEnd(l) ==
    /\ <<l, "camera">> \notin open \/ cameras[l] = Cameras
    /\ Goto(l, "cameraRows", "sensor")
    /\ open' = open \ {<<l, "camera">>}
    /\ UNCHANGED <<expired, loadVars, result, busy>>

SensorNext(l) ==
    /\ <<l, "sensor">> \in open /\ sensors[l] < Sensors
    /\ Goto(l, "sensorRows", "inner")
    /\ UNCHANGED <<open, expired, loadVars, result, busy>>

\* The inner rows were all read, or closed before they were; in both cases
\* the device is added to SensorParams.
InnerEnd(l) ==
    /\ Goto(l, "innerRows", "sensorRows")
    /\ open' = open \ {<<l, "inner">>}
    /\ sensors' = [sensors EXCEPT ![l] = @ + 1]
    /\ inner' = IF <<l, "inner">> \in open
                  THEN [inner EXCEPT ![l] = @ + 1] ELSE inner
    /\ UNCHANGED <<expired, cameras, result, busy>>

\* Mutant of SensorEnd: the first device ends the loop.
SensorEndEarly(l) ==
    /\ <<l, "sensor">> \notin open \/ sensors[l] > 0 \/ sensors[l] = Sensors
    /\ Goto(l, "sensorRows", "register")
    /\ open' = open \ {<<l, "sensor">>}
    /\ UNCHANGED <<expired, loadVars, result, busy>>

SensorEnd(l) ==
    /\ <<l, "sensor">> \notin open \/ sensors[l] = Sensors
    /\ Goto(l, "sensorRows", "register")
    /\ open' = open \ {<<l, "sensor">>}
    /\ UNCHANGED <<expired, loadVars, result, busy>>

\* The gateway is told "registered", or the write fails.
Register(l) ==
    /\ pc[l] = "register"
    /\ \E r \in {"loaded", "error"} : Return(l, r)
    /\ UNCHANGED <<open, loadVars, busy>>

\* A query is refused or a row cannot be scanned, because the context is
\* done or for a reason of the database: LoadParams returns, and leaves it
\* to the deferred cancel to close the rows that are open.
Fail(l) ==
    /\ l \in Querying
    /\ Return(l, "error")
    /\ UNCHANGED <<open, loadVars, busy>>
-----------------------------------------------------------------------------
(* The contexts and the pool.                                              *)

\* Mutant of Expire: the contexts have no timeout.
ExpireNever(l) == FALSE

\* The timeout of the context in use elapses.
Expire(l) ==
    /\ l \in Querying /\ ~IsExpired(l)
    /\ expired' = expired \cup {<<l, ContextOf(Query(l))>>}
    /\ UNCHANGED <<pc, open, loadVars, result, busy>>

\* GatewayChannel.Stop cancels the context the three are derived from.
Stop(l) ==
    /\ pc[l] # "returned"
    /\ expired' = expired \cup ({l} \X Contexts)
    /\ UNCHANGED <<pc, open, loadVars, result, busy>>

\* database/sql closes the rows of a context that is done.
CloseExpired(l, q) ==
    /\ <<l, q>> \in open /\ <<l, ContextOf(q)>> \in expired
    /\ open' = open \ {<<l, q>>}
    /\ UNCHANGED <<pc, expired, loadVars, result, busy>>

\* The tasks and CheckGatewayExistence: one statement, one connection.
Exec ==
    /\ busy < MaxBusy /\ Free > 0
    /\ busy' = busy + 1
    /\ UNCHANGED <<pc, open, expired, loadVars, result>>

ExecDone ==
    /\ busy > 0
    /\ busy' = busy - 1
    /\ UNCHANGED <<pc, open, expired, loadVars, result>>
-----------------------------------------------------------------------------

\* The steps of a load that takes no error.
Load(l) ==
    \/ UserQuery(l) \/ UserRead(l)
    \/ CameraQuery(l) \/ CameraNext(l) \/ CameraEnd(l)
    \/ SensorQuery(l) \/ SensorNext(l) \/ InnerQuery(l) \/ InnerEnd(l)
    \/ SensorEnd(l) \/ Register(l)

Next ==
    \/ \E l \in Loaders :
         \/ Start(l) \/ Load(l) \/ Fail(l) \/ Expire(l) \/ Stop(l)
         \/ \E q \in Queries : CloseExpired(l, q)
    \/ Exec \/ ExecDone

Spec == Init /\ [][Next]_vars

\* Goroutines run and timers fire; a query whose context is done fails, and
\* so does the statement of another task.  Nothing says that a query gets the
\* connection it waits for.
Fairness ==
    /\ \A l \in Loaders :
         /\ WF_vars(Load(l))
         /\ WF_vars(Fail(l) /\ IsExpired(l))
         /\ WF_vars(Expire(l))
    /\ WF_vars(ExecDone)

FairSpec == Spec /\ Fairness
-----------------------------------------------------------------------------
(* Properties.                                                             *)

\* The values of the loads; the pool gives no connection twice.
TypeOK ==
    /\ pc \in [Loaders -> {"idle", "user", "userRow", "camera", "cameraRows",
                           "sensor", "sensorRows", "inner", "innerRows",
                           "register", "returned"}]
    /\ open \subseteq Loaders \X Queries
    /\ expired \subseteq Loaders \X Contexts
    /\ cameras \in [Loaders -> 0 .. Cameras]
    /\ sensors \in [Loaders -> 0 .. Sensors]
    /\ inner \in [Loaders -> 0 .. Sensors]
    /\ result \in [Loaders -> {"none", "loaded", "error"}]
    /\ busy \in 0 .. MaxBusy
    /\ Cardinality(open) + busy <= PoolSize

Complete(l) ==
    cameras[l] = Cameras /\ sensors[l] = Sensors /\ inner[l] = Sensors

\* Without a timeout and without a stop, the gateway is told "registered"
\* only when every camera, every device and all inner params were loaded,
\* whatever the other loads do (LoadParams).
CompleteUnlessExpired ==
    \A l \in Loaders :
        pc[l] = "register" /\ (\A k \in Contexts : <<l, k>> \notin expired)
            => Complete(l)

\* Loads block each other for good, or until a timeout, only when as many of
\* them as the pool has connections hold the rows of their devices and want
\* a second connection each: fewer concurrent loads never do.
Blocked(l) == pc[l] \in Waiting /\ ~IsExpired(l) /\ Free <= 0

SelfBlockTakesAll ==
    (/\ Active # {} /\ \A l \in Active : Blocked(l)
     /\ busy = 0
     /\ \A o \in open : <<o[1], ContextOf(o[2])>> \notin expired)
    => Cardinality({l \in Active : pc[l] = "inner"}) >= PoolSize

\* Every load returns, also when the loads have taken all connections from
\* each other: the timeouts break the circle (LoadParams, Connection.Init).
EveryLoadReturns == \A l \in Loaders : pc[l] = "user" ~> pc[l] = "returned"

=============================================================================
