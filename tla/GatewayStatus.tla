---------------------------- MODULE GatewayStatus ----------------------------
(***************************************************************************)
(* The status of one gateway in the database.  GatewayChannel.Stop and     *)
(* every status message of the gateway start an UpdateGatewayStatusTask in *)
(* a goroutine of its own; a task issues two or three statements, each     *)
(* with a timeout, and goes on when one fails.  Nothing orders the tasks,  *)
(* and main does not wait for them when it closes the database and exits.  *)
(*                                                                         *)
(* A statement that times out may still take effect: the driver gives up   *)
(* the connection, the server may have the statement in execution.         *)
(***************************************************************************)
EXTENDS Naturals, FiniteSets

CONSTANTS Tasks,    \* executions of UpdateGatewayStatusTask.Run
          Nil,      \* the initial writer of each column
          MaxFailed \* bound: statements that fail while the database is open

ASSUME StatusAssumption == Nil \notin Tasks /\ MaxFailed \in Nat

Columns == {"gateway", "devices", "cameras"}

VARIABLES
    online,  \* the gateway is connected and has its channel
    pc,      \* where each task is
    status,  \* the status each was started with
    writer,  \* the task whose value each column holds
    ok,      \* statements (task, column) that returned without error
    failed,  \* statements that returned an error
    late,    \* of these, the ones the server is still executing
    before,  \* the tasks that had returned when each task started
    dbOpen,  \* the database connection is open
    exited   \* main has returned

taskVars == <<pc, status, before>>
outcomeVars == <<ok, failed, late>>
vars == <<online, taskVars, writer, outcomeVars, dbOpen, exited>>

\* Run refuses any other status, and a gateway id that is no UUID.
Statuses == {"on", "off", "invalid"}

Init ==
    /\ online = TRUE
    /\ pc = [t \in Tasks |-> "idle"]
    /\ status = [t \in Tasks |-> "invalid"]
    /\ writer = [c \in Columns |-> Nil]
    /\ ok = {}
    /\ failed = {}
    /\ late = {}
    /\ before = [t \in Tasks |-> {}]
    /\ dbOpen = TRUE
    /\ exited = FALSE

Returned == {t \in Tasks : pc[t] = "done"}

statusInt(s) == IF s = "off" THEN 0 ELSE 1

Bit(s) == IF s = "on" THEN 1 ELSE 0

\* Mutant of Value: the two values of statusInt are exchanged.
ValueSwapped(t, c) == IF c = "gateway" THEN Bit(status[t])
                                       ELSE 1 - statusInt(status[t])

Value(t, c) == IF c = "gateway" THEN Bit(status[t]) ELSE statusInt(status[t])

\* What a column holds.  Before the first write the gateway is offline.
value == [c \in Columns |-> IF writer[c] = Nil THEN 0 ELSE Value(writer[c], c)]

\* The statement a task is about to issue, and what comes after it.
Column(t) == CASE pc[t] = "gateway" -> "gateway"
               [] pc[t] = "devices" -> "devices"
               [] OTHER -> "cameras"

After(t) == CASE pc[t] = "gateway" -> "devices"
              [] pc[t] = "devices" /\ statusInt(status[t]) = 0 -> "cameras"
              [] OTHER -> "done"
-----------------------------------------------------------------------------

\* The goroutine of a task begins Run with the checks of its message.
Begin(t) ==
    /\ pc' = [pc EXCEPT ![t] = IF status'[t] = "invalid" THEN "done"
                                                        ELSE "gateway"]
    /\ before' = [before EXCEPT ![t] = Returned]

\* A status message of the gateway is read and waits in ApplyLogic.
Receive(t) ==
    /\ ~exited /\ online /\ pc[t] = "idle"
    /\ pc' = [pc EXCEPT ![t] = "received"]
    /\ \E s \in Statuses : status' = [status EXCEPT ![t] = s]
    /\ UNCHANGED <<online, before, writer, outcomeVars, dbOpen, exited>>

\* GatewayLogic.Process starts the task, be the channel stopped meanwhile.
ProcessStatus(t) ==
    /\ ~exited /\ pc[t] = "received"
    /\ UNCHANGED status
    /\ Begin(t)
    /\ UNCHANGED <<online, writer, outcomeVars, dbOpen, exited>>

\* The gateway goes offline or the server is stopped: GatewayChannel.Stop
\* starts the task with status "off".
Stop(t) ==
    /\ ~exited /\ online /\ pc[t] = "idle"
    /\ online' = FALSE
    /\ status' = [status EXCEPT ![t] = "off"]
    /\ Begin(t)
    /\ UNCHANGED <<writer, outcomeVars, dbOpen, exited>>

\* The gateway connects again and gets a new channel.
Connect ==
    /\ ~exited /\ dbOpen /\ ~online
    /\ online' = TRUE
    /\ UNCHANGED <<taskVars, writer, outcomeVars, dbOpen, exited>>
-----------------------------------------------------------------------------
(* Run: one statement after the other.                                     *)

\* Mutant of Update: a failed statement ends the task.
UpdateOrReturn(t) ==
    /\ ~exited /\ pc[t] \in Columns
    /\ \/ /\ dbOpen
          /\ writer' = [writer EXCEPT ![Column(t)] = t]
          /\ ok' = ok \cup {<<t, Column(t)>>}
          /\ pc' = [pc EXCEPT ![t] = After(t)]
          /\ UNCHANGED <<failed, late>>
       \/ /\ dbOpen => Cardinality(failed) < MaxFailed
          /\ failed' = failed \cup {<<t, Column(t)>>}
          /\ pc' = [pc EXCEPT ![t] = "done"]
          /\ UNCHANGED <<writer, ok, late>>
    /\ UNCHANGED <<online, status, before, dbOpen, exited>>

\* Mutant of Update: the task does not wait for the result of a statement.
UpdateAsync(t) ==
    /\ ~exited /\ pc[t] \in Columns
    /\ pc' = [pc EXCEPT ![t] = After(t)]
    /\ ok' = ok \cup {<<t, Column(t)>>}
    /\ late' = late \cup {<<t, Column(t)>>}
    /\ UNCHANGED <<online, status, before, writer, failed, dbOpen, exited>>

\* A statement succeeds, or it fails, or it times out and the server still
\* executes it; in every case the task goes on.
Update(t) ==
    /\ ~exited /\ pc[t] \in Columns
    /\ pc' = [pc EXCEPT ![t] = After(t)]
    /\ \/ /\ dbOpen
          /\ writer' = [writer EXCEPT ![Column(t)] = t]
          /\ ok' = ok \cup {<<t, Column(t)>>}
          /\ UNCHANGED <<failed, late>>
       \/ /\ dbOpen => Cardinality(failed) < MaxFailed
          /\ failed' = failed \cup {<<t, Column(t)>>}
          /\ \/ UNCHANGED late
             \/ dbOpen /\ late' = late \cup {<<t, Column(t)>>}
          /\ UNCHANGED <<writer, ok>>
    /\ UNCHANGED <<online, status, before, dbOpen, exited>>

\* The server finishes a statement that was given up, or aborts it.
LateEffect(t, c) ==
    /\ <<t, c>> \in late
    /\ late' = late \ {<<t, c>>}
    /\ \/ writer' = [writer EXCEPT ![c] = t]
       \/ UNCHANGED writer
    /\ UNCHANGED <<online, taskVars, ok, failed, dbOpen, exited>>
-----------------------------------------------------------------------------
(* main, once Manager.Close has stopped the channel.                       *)

CloseDatabase ==
    /\ dbOpen /\ ~online
    /\ dbOpen' = FALSE
    /\ UNCHANGED <<online, taskVars, writer, outcomeVars, exited>>

Exit ==
    /\ ~dbOpen /\ ~exited
    /\ exited' = TRUE
    /\ UNCHANGED <<online, taskVars, writer, outcomeVars, dbOpen>>
-----------------------------------------------------------------------------

Next ==
    \/ \E t \in Tasks : Receive(t) \/ ProcessStatus(t) \/ Stop(t) \/ Update(t)
    \/ \E t \in Tasks, c \in Columns : LateEffect(t, c)
    \/ Connect \/ CloseDatabase \/ Exit

Spec == Init /\ [][Next]_vars
-----------------------------------------------------------------------------
(* Properties.                                                             *)

\* The values of tasks and columns; only a valid task writes, and the
\* cameras are touched by tasks that set the gateway offline.
TypeOK ==
    /\ online \in BOOLEAN
    /\ pc \in [Tasks -> {"idle", "received", "done"} \cup Columns]
    /\ status \in [Tasks -> Statuses]
    /\ writer \in [Columns -> Tasks \cup {Nil}]
    /\ writer["cameras"] # Nil => status[writer["cameras"]] = "off"
    /\ ok \subseteq Tasks \X Columns
    /\ failed \subseteq Tasks \X Columns
    /\ late \subseteq Tasks \X Columns
    /\ before \in [Tasks -> SUBSET Tasks]
    /\ dbOpen \in BOOLEAN
    /\ exited \in BOOLEAN

\* A failed statement does not keep a task from issuing the others: each
\* column of a finished task was written or its failure was reported (Run).
EveryStatementIssued ==
    \A t \in Returned : status[t] # "invalid" =>
        \A c \in {"gateway", "devices"}
                   \cup (IF status[t] = "off" THEN {"cameras"} ELSE {}) :
            <<t, c>> \in ok \cup failed

\* No column goes back to the value of a task that had returned before a
\* task started that wrote the column, unless a statement of the former had
\* timed out: tasks that do not overlap take effect in their order (Run).
LaterTaskWins ==
    \A c \in Columns : writer[c] # Nil =>
        \A t \in Tasks :
            <<t, c>> \in ok /\ writer[c] \in before[t]
                => <<writer[c], c>> \in failed

\* When no two tasks overlapped and nothing failed, gateway and devices
\* agree.
Started == {t \in Tasks : pc[t] \notin {"idle", "received"}}

Sequential ==
    \A t, u \in Started : t # u => t \in before[u] \/ u \in before[t]

SequentialAgrees ==
    /\ Sequential /\ failed = {} /\ writer["gateway"] # Nil
    /\ \A t \in Tasks : pc[t] \notin Columns
    => value["gateway"] = value["devices"]
-----------------------------------------------------------------------------
(* What the comments of the code say and the code does not do.             *)

Quiet ==
    /\ late = {} /\ failed = {} /\ dbOpen
    /\ \A t \in Tasks : pc[t] \in {"idle", "done"}

\* "Change gateway and all its devices statuses to offline in database"
\* (gatewaychannel.go:235): a gateway that is offline, with every task
\* finished without error, is offline in the database.
OffStays == Quiet /\ ~online => \A c \in Columns : value[c] = 0

=============================================================================
