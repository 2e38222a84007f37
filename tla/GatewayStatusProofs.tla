------------------------- MODULE GatewayStatusProofs -------------------------
(***************************************************************************)
(* Proofs about GatewayStatus for any set of tasks: its type correctness,  *)
(* that a failed statement keeps no other from being issued, that tasks    *)
(* which do not overlap take effect in their order, and that gateway and   *)
(* devices agree when nothing overlapped and nothing failed.               *)
(***************************************************************************)
EXTENDS GatewayStatus, TLAPS

\* The columns that are behind the statement of a task, with its own values.
Done(t) ==
    IF status[t] = "invalid" \/ pc[t] \in {"idle", "received", "gateway"} THEN {}
    ELSE IF pc[t] = "devices" THEN {"gateway"}
    ELSE IF pc[t] = "cameras" THEN {"gateway", "devices"}
    ELSE {"gateway", "devices"}
            \cup (IF status[t] = "off" THEN {"cameras"} ELSE {})

\* A task has issued the statements behind it and no others.
Issued ==
    \A t \in Tasks, c \in Columns :
        <<t, c>> \in ok \cup failed <=> c \in Done(t)

\* Only an "off" reaches the cameras, and an invalid status no statement.
CamerasAreOff ==
    \A t \in Tasks :
        /\ pc[t] = "cameras" => status[t] = "off"
        /\ pc[t] \in Columns => status[t] # "invalid"

\* Tasks know who had returned before them, and these stay returned.
BeforeReturned ==
    \A t \in Tasks :
        /\ before[t] \subseteq Returned
        /\ pc[t] \in {"idle", "received"} => before[t] = {}
        /\ t \notin before[t]

\* A statement under execution at the server was given up, a column was
\* written by a statement that returned or was given up, and by one at least
\* when one returned.
WritersIssued ==
    /\ late \subseteq failed
    /\ \A c \in Columns : writer[c] # Nil => <<writer[c], c>> \in ok \cup failed
    /\ \A t \in Tasks, c \in Columns : <<t, c>> \in ok => writer[c] # Nil

IInv ==
    /\ TypeOK
    /\ Issued
    /\ CamerasAreOff
    /\ BeforeReturned
    /\ WritersIssued
    /\ LaterTaskWins

USE StatusAssumption
-----------------------------------------------------------------------------
LEMMA InitIInv == Init => IInv
  BY DEF Init, IInv, TypeOK, Statuses, Columns, Issued, Done, CamerasAreOff,
         BeforeReturned, Returned, WritersIssued, LaterTaskWins

\* A task that has not begun has issued nothing, wrote no column, and no task
\* counts it among those that had returned.
LEMMA NotBegun ==
    ASSUME IInv, NEW t \in Tasks, pc[t] \in {"idle", "received"}
    PROVE  /\ Done(t) = {} /\ before[t] = {}
           /\ \A c \in Columns : <<t, c>> \notin ok \cup failed /\ writer[c] # t
           /\ \A u \in Tasks : t \notin before[u]
<1>1. Done(t) = {} /\ before[t] = {}
  BY DEF IInv, BeforeReturned, Done
<1>2. \A c \in Columns : <<t, c>> \notin ok \cup failed
  BY <1>1 DEF IInv, Issued
<1>3. \A c \in Columns : writer[c] # t
  BY <1>2 DEF IInv, WritersIssued
<1>4. \A u \in Tasks : t \notin before[u]
  BY DEF IInv, BeforeReturned, Returned
<1> QED
  BY <1>1, <1>2, <1>3, <1>4

\* A task that is received, begins or is refused leaves the columns alone.
LEMMA BeginIInv ==
    ASSUME IInv, NEW t \in Tasks, NEW s \in Statuses,
           pc[t] \in {"idle", "received"},
           status' = [status EXCEPT ![t] = s],
           \/ /\ pc' = [pc EXCEPT ![t] = "received"] /\ before' = before
           \/ Begin(t),
           UNCHANGED <<writer, ok, failed, late>>,
           online' \in BOOLEAN, dbOpen' \in BOOLEAN, exited' \in BOOLEAN
    PROVE  IInv'
<1> USE DEF IInv
<1>1. /\ Done(t) = {} /\ before[t] = {}
      /\ \A c \in Columns : <<t, c>> \notin ok \cup failed /\ writer[c] # t
      /\ \A u \in Tasks : t \notin before[u]
  BY NotBegun
<1>2. PICK place \in {"received", "gateway", "done"} :
          /\ pc' = [pc EXCEPT ![t] = place]
          /\ place = "done" => s = "invalid"
          /\ place = "gateway" => s # "invalid"
          /\ place = "received" => before' = before
          /\ before' = before \/ before' = [before EXCEPT ![t] = Returned]
  BY DEF Begin, TypeOK
<1>3. /\ pc'[t] = place /\ status'[t] = s
      /\ \A u \in Tasks : u # t => pc'[u] = pc[u] /\ status'[u] = status[u]
                                   /\ before'[u] = before[u]
      /\ before'[t] \in {{}, Returned}
      /\ place = "received" => before'[t] = {}
  BY <1>1, <1>2 DEF TypeOK
<1>4. Returned \subseteq Returned' /\ t \notin Returned
  BY <1>3 DEF Returned
<1>5. TypeOK'
  <2>1. writer["cameras"] # Nil => status'[writer["cameras"]] = "off"
    BY <1>1, <1>3 DEF TypeOK, Columns
  <2>2. before' \in [Tasks -> SUBSET Tasks]
    BY <1>2 DEF TypeOK, Returned
  <2>3. /\ pc' \in [Tasks -> {"idle", "received", "done"} \cup Columns]
        /\ status' \in [Tasks -> Statuses]
    BY <1>2 DEF TypeOK, Columns
  <2> QED
    BY <2>1, <2>2, <2>3 DEF TypeOK
<1>6. Done(t)' = {} /\ \A u \in Tasks : u # t => Done(u)' = Done(u)
  BY <1>2, <1>3 DEF Done
<1>7. Issued'
  BY <1>1, <1>6 DEF Issued
<1>8. CamerasAreOff'
  BY <1>2, <1>3 DEF CamerasAreOff, Columns
<1>9. BeforeReturned'
  BY <1>2, <1>3, <1>4 DEF BeforeReturned
<1>10. WritersIssued'
  BY DEF WritersIssued
<1>11. LaterTaskWins'
  BY <1>1, <1>3 DEF LaterTaskWins, WritersIssued
<1> QED
  BY <1>5, <1>7, <1>8, <1>9, <1>10, <1>11

\* A statement is issued: it returns or is given up.
LEMMA UpdateIInv ==
    ASSUME IInv, NEW t \in Tasks, Update(t)
    PROVE  IInv'
<1> USE DEF IInv
<1> PICK c : c = Column(t)
  OBVIOUS
<1>1. /\ pc[t] \in Columns /\ c = pc[t] /\ c \in Columns
      /\ pc' = [pc EXCEPT ![t] = After(t)]
      /\ status' = status /\ before' = before /\ online' = online
      /\ dbOpen' = dbOpen /\ exited' = exited
  BY DEF Update, Column, Columns
<1>2. /\ ok \subseteq ok' /\ failed \subseteq failed'
      /\ ok' \cup failed' = ok \cup failed \cup {<<t, c>>}
      /\ \/ /\ writer' = [writer EXCEPT ![c] = t]
            /\ ok' = ok \cup {<<t, c>>} /\ failed' = failed /\ late' = late
         \/ /\ writer' = writer /\ ok' = ok
            /\ failed' = failed \cup {<<t, c>>}
            /\ late' \subseteq late \cup {<<t, c>>}
  BY DEF Update
<1>3. status[t] # "invalid" /\ (c = "cameras" => status[t] = "off")
  BY <1>1 DEF CamerasAreOff
<1>4. /\ pc'[t] = After(t) /\ \A u \in Tasks : u # t => pc'[u] = pc[u]
      /\ After(t) \in {"devices", "cameras", "done"}
      /\ After(t) = "cameras" => status[t] = "off"
  BY <1>1, <1>3 DEF TypeOK, After, statusInt
<1>5. t \notin Returned /\ Returned \subseteq Returned'
  BY <1>1, <1>4 DEF Returned, Columns
<1>6. /\ Done(t)' = Done(t) \cup {c}
      /\ \A u \in Tasks : u # t => Done(u)' = Done(u)
  <2>1. \A u \in Tasks : u # t => Done(u)' = Done(u)
    BY <1>1, <1>4 DEF Done
  <2>2. status[t] \in {"on", "off"}
    BY <1>3 DEF TypeOK, Statuses
  <2>3. CASE pc[t] = "gateway"
    BY <1>1, <1>4, <2>2, <2>3 DEF Done, After
  <2>4. CASE pc[t] = "devices"
    BY <1>1, <1>4, <2>2, <2>4 DEF Done, After, statusInt
  <2>5. CASE pc[t] = "cameras"
    BY <1>1, <1>3, <1>4, <2>2, <2>5 DEF Done, After
  <2> QED
    BY <1>1, <2>1, <2>3, <2>4, <2>5 DEF Columns
<1>7. TypeOK'
  <2>1. /\ ok' \subseteq Tasks \X Columns /\ failed' \subseteq Tasks \X Columns
        /\ late' \subseteq Tasks \X Columns
    BY <1>1, <1>2 DEF TypeOK
  <2>2. writer' \in [Columns -> Tasks \cup {Nil}]
    BY <1>1, <1>2 DEF TypeOK
  <2>3. writer'["cameras"] # Nil => status[writer'["cameras"]] = "off"
    BY <1>1, <1>2, <1>3 DEF TypeOK, Columns
  <2>4. pc' \in [Tasks -> {"idle", "received", "done"} \cup Columns]
    BY <1>1, <1>4 DEF TypeOK, Columns
  <2> QED
    BY <1>1, <2>1, <2>2, <2>3, <2>4 DEF TypeOK
<1>8. Issued'
  <2>1. ASSUME NEW u \in Tasks, NEW d \in Columns
        PROVE  <<u, d>> \in ok' \cup failed' <=> d \in Done(u)'
    <3>1. <<u, d>> \in ok' \cup failed' <=>
              <<u, d>> \in ok \cup failed \/ (u = t /\ d = c)
      BY <1>2
    <3> QED
      BY <1>6, <3>1 DEF Issued
  <2> QED
    BY <2>1 DEF Issued
<1>9. CamerasAreOff'
  BY <1>1, <1>3, <1>4 DEF CamerasAreOff
<1>10. BeforeReturned'
  BY <1>1, <1>4, <1>5 DEF BeforeReturned, Columns
<1>11. WritersIssued'
  BY <1>1, <1>2 DEF WritersIssued, TypeOK
<1>12. LaterTaskWins'
  <2>1. SUFFICES ASSUME NEW d \in Columns, NEW u \in Tasks,
                        <<u, d>> \in ok', writer'[d] # Nil,
                        writer'[d] \in before[u]
                 PROVE  <<writer'[d], d>> \in failed'
    BY <1>1 DEF LaterTaskWins
  <2>2. writer'[d] # t
    BY <1>5, <2>1 DEF BeforeReturned
  <2>3. writer'[d] = writer[d]
    BY <1>1, <1>2, <2>2 DEF TypeOK
  <2>4. CASE <<u, d>> \in ok
    BY <1>2, <2>1, <2>3, <2>4 DEF LaterTaskWins
  <2>5. CASE <<u, d>> \notin ok
    BY <1>1, <1>2, <2>1, <2>2, <2>5 DEF TypeOK
  <2> QED
    BY <2>4, <2>5
<1> QED
  BY <1>7, <1>8, <1>9, <1>10, <1>11, <1>12

\* The server finishes a statement that was given up, or aborts it.
LEMMA LateIInv ==
    ASSUME IInv, NEW t \in Tasks, NEW c \in Columns, LateEffect(t, c)
    PROVE  IInv'
<1> USE DEF IInv
<1>1. /\ <<t, c>> \in late /\ late' = late \ {<<t, c>>}
      /\ writer' = [writer EXCEPT ![c] = t] \/ writer' = writer
      /\ pc' = pc /\ status' = status /\ before' = before /\ ok' = ok
      /\ failed' = failed /\ online' = online /\ dbOpen' = dbOpen
      /\ exited' = exited
      /\ Returned' = Returned /\ \A u : Done(u)' = Done(u)
  BY DEF LateEffect, taskVars, Returned, Done
<1>2. <<t, c>> \in failed /\ c \in Done(t)
  BY <1>1 DEF WritersIssued, Issued
<1>3. c = "cameras" => status[t] = "off"
  BY <1>2 DEF Done
<1>4. TypeOK'
  <2>1. writer' \in [Columns -> Tasks \cup {Nil}] /\ late' \subseteq late
    BY <1>1 DEF TypeOK
  <2>2. writer'["cameras"] # Nil => status[writer'["cameras"]] = "off"
    BY <1>1, <1>3 DEF TypeOK, Columns
  <2> QED
    BY <1>1, <2>1, <2>2 DEF TypeOK
<1>5. Issued' /\ CamerasAreOff' /\ BeforeReturned'
  BY <1>1 DEF Issued, CamerasAreOff, BeforeReturned
<1>6. WritersIssued' /\ LaterTaskWins'
  BY <1>1, <1>2 DEF WritersIssued, LaterTaskWins, TypeOK
<1> QED
  BY <1>4, <1>5, <1>6

\* Connect, CloseDatabase and Exit touch no task and no column.
LEMMA OutsideIInv ==
    ASSUME IInv,
           UNCHANGED <<pc, status, before, writer, ok, failed, late>>,
           online' \in BOOLEAN, dbOpen' \in BOOLEAN, exited' \in BOOLEAN
    PROVE  IInv'
<1>1. Returned' = Returned /\ \A u : Done(u)' = Done(u)
  BY DEF Returned, Done
<1> QED
  BY <1>1 DEF IInv, TypeOK, Issued, CamerasAreOff, BeforeReturned,
              WritersIssued, LaterTaskWins

LEMMA NextIInv ==
    ASSUME IInv, [Next]_vars
    PROVE  IInv'
<1> USE DEF outcomeVars, taskVars
<1>0. online \in BOOLEAN /\ dbOpen \in BOOLEAN /\ exited \in BOOLEAN
  BY DEF IInv, TypeOK
<1>1. ASSUME NEW t \in Tasks, Receive(t) PROVE IInv'
  <2>1. PICK s \in Statuses : status' = [status EXCEPT ![t] = s]
    BY <1>1 DEF Receive
  <2> QED
    BY <1>0, <1>1, <2>1, BeginIInv DEF Receive
<1>2. ASSUME NEW t \in Tasks, ProcessStatus(t) PROVE IInv'
  <2>1. status' = [status EXCEPT ![t] = status[t]] /\ status[t] \in Statuses
    BY <1>2 DEF ProcessStatus, IInv, TypeOK
  <2> QED
    BY <1>0, <1>2, <2>1, BeginIInv DEF ProcessStatus
<1>3. ASSUME NEW t \in Tasks, Stop(t) PROVE IInv'
  <2>1. "off" \in Statuses
    BY DEF Statuses
  <2> QED
    BY <1>0, <1>3, <2>1, BeginIInv DEF Stop
<1>4. CASE Connect \/ CloseDatabase \/ Exit
  BY <1>0, <1>4, OutsideIInv DEF Connect, CloseDatabase, Exit
<1>5. CASE UNCHANGED vars
  BY <1>0, <1>5, OutsideIInv DEF vars
<1> QED
  BY <1>1, <1>2, <1>3, <1>4, <1>5, UpdateIInv, LateIInv DEF Next

\* The strengthening is an invariant of every behaviour.
THEOREM Inductive == Spec => []IInv
<1> QED
  BY InitIInv, NextIInv, PTL DEF Spec
-----------------------------------------------------------------------------
\* For any set of tasks the state keeps its types; the cameras are written
\* only by tasks that set the gateway offline (UpdateGatewayStatusTask.Run).
THEOREM TypeCorrect == Spec => []TypeOK
<1>1. IInv => TypeOK
  BY DEF IInv
<1> QED
  BY <1>1, Inductive, PTL

\* A failed statement keeps no other from being issued (Run).
THEOREM StatementsIssued == Spec => []EveryStatementIssued
<1>1. IInv => EveryStatementIssued
  BY DEF IInv, Issued, Done, Returned, EveryStatementIssued, Columns
<1> QED
  BY <1>1, Inductive, PTL

\* Tasks that do not overlap take effect in their order, unless a statement
\* of the earlier one timed out (Run).
THEOREM LaterWins == Spec => []LaterTaskWins
<1>1. IInv => LaterTaskWins
  BY DEF IInv
<1> QED
  BY <1>1, Inductive, PTL

\* When nothing overlapped and nothing failed, gateway and devices agree: the
\* last writer of one column is the last writer of the other (Run).
THEOREM SequentialsAgree == Spec => []SequentialAgrees
<1>1. IInv => SequentialAgrees
  <2> SUFFICES ASSUME IInv, Sequential, failed = {}, writer["gateway"] # Nil,
                      \A t \in Tasks : pc[t] \notin Columns
               PROVE  value["gateway"] = value["devices"]
    BY DEF SequentialAgrees
  <2> USE DEF IInv
  <2>1. "gateway" \in Columns /\ "devices" \in Columns
    BY DEF Columns
  <2>2. PICK w \in Tasks : w = writer["gateway"] /\ <<w, "gateway">> \in ok
    BY <2>1 DEF WritersIssued, TypeOK
  <2>3. ASSUME NEW t \in Tasks, NEW c \in Columns, <<t, c>> \in ok
        PROVE  /\ t \in Started /\ status[t] \in {"on", "off"}
               /\ <<t, "gateway">> \in ok /\ <<t, "devices">> \in ok
    <3>1. c \in Done(t)
      BY <2>3 DEF Issued
    <3>2. pc[t] = "done" /\ status[t] # "invalid"
      BY <3>1 DEF Done, TypeOK, Columns
    <3> QED
      BY <2>1, <3>2 DEF Started, Issued, Done, TypeOK, Statuses
  <2>4. PICK v \in Tasks : v = writer["devices"] /\ <<v, "devices">> \in ok
    BY <2>1, <2>2, <2>3 DEF WritersIssued, TypeOK
  <2>5. /\ w \in Started /\ v \in Started /\ <<w, "devices">> \in ok
        /\ <<v, "gateway">> \in ok /\ status[w] \in {"on", "off"}
    BY <2>1, <2>2, <2>3, <2>4
  <2>6. w = v
    BY <2>1, <2>2, <2>4, <2>5 DEF Sequential, LaterTaskWins
  <2> QED
    BY <2>1, <2>2, <2>4, <2>5, <2>6 DEF value, Value, Bit, statusInt
<1> QED
  BY <1>1, Inductive, PTL
=============================================================================
