-------------------------- MODULE LogicLoaderProofs --------------------------
(***************************************************************************)
(* Proofs about LogicLoader for any number of concurrent messages: who may *)
(* process a message, why one is given up, what it takes to panic on the   *)
(* field c.bl, and that a logic in use stays.                              *)
(***************************************************************************)
EXTENDS LogicLoader, TLAPS

\* CreateLogic returns nil, or the caller's own logic, complete; params are
\* read before the gateway is informed.
ResultsComplete ==
    /\ \A m \in Messages :
         result[m] # Nil => result[m] = m /\ m \in loaded \cap registered
    /\ \A m \in Messages : pc[m] = "register" => m \in loaded

\* The field never holds an incomplete logic, and none has processed a
\* message or was handed to the push command.
FieldComplete ==
    /\ blData # Nil => blData \in loaded \cap registered
    /\ pushOn # Nil => pushOn \in loaded \cap registered

\* A goroutine that stores has a logic, or its CreateLogic failed.
StoresExplained ==
    \A m \in Messages :
        pc[m] \in {"assign", "assignData", "assignType"} =>
            result[m] # Nil \/ m \in failed

\* Without failures the type word, once set, stays set.
SetWithoutFailure ==
    failed = {} =>
        \A m \in Messages :
            pc[m] \in {"assignData", "valid", "process"} => blType

\* m is the only goroutine that may have stored anything.
Alone(m) == \A n \in Messages \ {m} : n \notin failed /\ result[n] = Nil

\* What such a goroutine finds in the field at each place.
AloneField ==
    \A m \in Messages : Alone(m) =>
        /\ pc[m] \in {"idle", "check", "exists", "load", "register", "assign"}
             => ~blType /\ blData = Nil
        /\ pc[m] = "assignData" => blType = (result[m] # Nil) /\ blData = Nil
        /\ pc[m] = "assignType" => ~blType /\ blData = result[m]
        /\ pc[m] = "valid" => blType = (blData # Nil)
        /\ pc[m] = "process" => blType /\ blData # Nil

\* The inductive invariant.
IInv ==
    /\ TypeOK
    /\ ResultsComplete
    /\ FieldComplete
    /\ ProcessedWhenRegistered
    /\ StoresExplained
    /\ SetWithoutFailure
    /\ DropExplained
    /\ AloneField
    /\ CrashNeedsAnother
-----------------------------------------------------------------------------
LEMMA InitIInv == Init => IInv
<1> USE LoaderAssumption
      DEF IInv, TypeOK, ResultsComplete, FieldComplete,
          ProcessedWhenRegistered, StoresExplained, SetWithoutFailure,
          DropExplained, AloneField, Alone, CrashNeedsAnother,
          blVars, createVars, pushVars, Alive
<1> SUFFICES ASSUME Init PROVE IInv
  OBVIOUS
<1>1. TypeOK
  BY DEF Init
<1>2. ResultsComplete /\ FieldComplete /\ ProcessedWhenRegistered
  BY DEF Init
<1>3. StoresExplained /\ SetWithoutFailure /\ DropExplained
  BY DEF Init
<1>4. AloneField /\ CrashNeedsAnother
  BY DEF Init
<1> QED
  BY <1>1, <1>2, <1>3, <1>4

\* The steps of ApplyLogic.
LEMMA ApplyLogicIInv ==
    ASSUME NEW m \in Messages, IInv, ApplyLogic(m)
    PROVE  IInv'
<1> USE LoaderAssumption
      DEF IInv, TypeOK, ResultsComplete, FieldComplete,
          ProcessedWhenRegistered, StoresExplained, SetWithoutFailure,
          DropExplained, AloneField, Alone, CrashNeedsAnother,
          blVars, createVars, pushVars, Alive
<1>1. CASE Arrive(m)
  BY <1>1 DEF Arrive, Goto
<1>2. CASE Check(m)
  BY <1>2 DEF Check, Goto
<1>3. CASE CheckGatewayExistence(m)
  BY <1>3 DEF CheckGatewayExistence, Goto
<1>4. CASE LoadParams(m)
  BY <1>4 DEF LoadParams, Goto
<1>5. CASE Register(m)
  BY <1>5 DEF Register, Goto
<1>6. CASE AssignFirst(m)
  <2>1. \A n \in Messages \ {m} : ~Alone(n) /\ ~Alone(n)'
    BY <1>6 DEF AssignFirst, Goto
  <2>2. CASE result[m] = Nil
    <3>1. m \in failed
      BY <1>6, <2>2 DEF AssignFirst, Goto
    <3>2. \/ blType' = FALSE /\ blData' = blData
          \/ blType' = blType /\ blData' = Nil
      BY <1>6, <2>2 DEF AssignFirst
    <3>3. TypeOK' /\ FieldComplete'
      <4>1. blType' \in BOOLEAN
        BY <3>2
      <4>2. blData' = Nil \/ blData' = blData
        BY <3>2
      <4> QED
        BY <1>6, <4>1, <4>2 DEF AssignFirst, Goto
    <3>4. ResultsComplete' /\ StoresExplained' /\ ProcessedWhenRegistered'
      BY <1>6 DEF AssignFirst, Goto
    <3>5. SetWithoutFailure' /\ DropExplained' /\ CrashNeedsAnother'
      BY <1>6, <3>1 DEF AssignFirst, Goto
    <3>6. AloneField'
      BY <1>6, <2>1, <2>2, <3>2 DEF AssignFirst, Goto
    <3> QED
      BY <3>3, <3>4, <3>5, <3>6
  <2>3. CASE result[m] # Nil
    <3>1. \/ blType' = TRUE /\ blData' = blData
          \/ blType' = blType /\ blData' = m
      BY <1>6, <2>3 DEF AssignFirst
    <3>2. TypeOK' /\ FieldComplete'
      <4>1. blType' \in BOOLEAN
        BY <3>1
      <4>2. blData' = m \/ blData' = blData
        BY <3>1
      <4>3. m \in loaded \cap registered
        BY <2>3
      <4> QED
        BY <1>6, <4>1, <4>2, <4>3 DEF AssignFirst, Goto
    <3>3. ResultsComplete' /\ StoresExplained' /\ ProcessedWhenRegistered'
      BY <1>6 DEF AssignFirst, Goto
    <3>4. SetWithoutFailure' /\ DropExplained' /\ CrashNeedsAnother'
      BY <1>6, <2>3, <3>1 DEF AssignFirst, Goto
    <3>5. AloneField'
      BY <1>6, <2>1, <2>3, <3>1 DEF AssignFirst, Goto
    <3> QED
      BY <3>2, <3>3, <3>4, <3>5
  <2> QED
    BY <2>2, <2>3
<1>7. CASE AssignSecond(m)
  <2>1. \A n \in Messages \ {m} : ~Alone(n) /\ ~Alone(n)'
    BY <1>7 DEF AssignSecond, Goto
  <2>2. CASE result[m] = Nil
    <3>1. m \in failed
      BY <1>7, <2>2 DEF AssignSecond, Goto
    <3>2. \/ blType' = FALSE /\ blData' = blData
          \/ blType' = blType /\ blData' = Nil
      BY <1>7, <2>2 DEF AssignSecond
    <3>3. TypeOK' /\ FieldComplete'
      <4>1. blType' \in BOOLEAN
        BY <3>2
      <4>2. blData' = Nil \/ blData' = blData
        BY <3>2
      <4> QED
        BY <1>7, <4>1, <4>2 DEF AssignSecond, Goto
    <3>4. ResultsComplete' /\ StoresExplained' /\ ProcessedWhenRegistered'
      BY <1>7 DEF AssignSecond, Goto
    <3>5. SetWithoutFailure' /\ DropExplained' /\ CrashNeedsAnother'
      BY <1>7, <3>1 DEF AssignSecond, Goto
    <3>6. AloneField'
      BY <1>7, <2>1, <2>2, <3>2 DEF AssignSecond, Goto
    <3> QED
      BY <3>3, <3>4, <3>5, <3>6
  <2>3. CASE result[m] # Nil
    <3>1. \/ blType' = TRUE /\ blData' = blData
          \/ blType' = blType /\ blData' = m
      BY <1>7, <2>3 DEF AssignSecond
    <3>2. TypeOK' /\ FieldComplete'
      <4>1. blType' \in BOOLEAN
        BY <3>1
      <4>2. blData' = m \/ blData' = blData
        BY <3>1
      <4>3. m \in loaded \cap registered
        BY <2>3
      <4> QED
        BY <1>7, <4>1, <4>2, <4>3 DEF AssignSecond, Goto
    <3>3. ResultsComplete' /\ StoresExplained' /\ ProcessedWhenRegistered'
      BY <1>7 DEF AssignSecond, Goto
    <3>4. SetWithoutFailure' /\ DropExplained' /\ CrashNeedsAnother'
      BY <1>7, <2>3, <3>1 DEF AssignSecond, Goto
    <3>5. AloneField'
      BY <1>7, <2>1, <2>3, <3>1 DEF AssignSecond, Goto
    <3> QED
      BY <3>2, <3>3, <3>4, <3>5
  <2> QED
    BY <2>2, <2>3
<1>8. CASE CheckValid(m)
  BY <1>8 DEF CheckValid, Goto
<1>9. CASE Process(m)
  BY <1>9 DEF Process, Goto
<1> QED
  BY <1>1, <1>2, <1>3, <1>4, <1>5, <1>6, <1>7, <1>8, <1>9 DEF ApplyLogic

\* The steps of the push command touch neither the field nor the results.
LEMMA PushIInv ==
    ASSUME IInv, WriteDbPush \/ GetLogic \/ SetPush
    PROVE  IInv'
<1> USE LoaderAssumption
      DEF IInv, TypeOK, ResultsComplete, FieldComplete,
          ProcessedWhenRegistered, StoresExplained, SetWithoutFailure,
          DropExplained, AloneField, Alone, CrashNeedsAnother,
          blVars, createVars, pushVars, Alive
<1>1. CASE WriteDbPush
  BY <1>1 DEF WriteDbPush
<1>2. CASE GetLogic
  BY <1>2 DEF GetLogic
<1>3. CASE SetPush
  BY <1>3 DEF SetPush
<1> QED
  BY <1>1, <1>2, <1>3

LEMMA NextIInv == IInv /\ [Next]_vars => IInv'
<1> SUFFICES ASSUME IInv, [Next]_vars PROVE IInv'
  OBVIOUS
<1>1. CASE Next
  BY <1>1, ApplyLogicIInv, PushIInv DEF Next
<1>2. CASE UNCHANGED vars
  BY <1>2 DEF vars, blVars, createVars, pushVars,
              IInv, TypeOK, ResultsComplete, FieldComplete,
              ProcessedWhenRegistered, StoresExplained, SetWithoutFailure,
              DropExplained, AloneField, Alone, CrashNeedsAnother
<1> QED
  BY <1>1, <1>2

\* The inductive invariant holds in every reachable state.
THEOREM Inductive == Spec => []IInv
  BY InitIInv, NextIInv, PTL DEF Spec

\* Torn stores included, the data word of c.bl is nil or a logic whose params
\* were read (ApplyLogic, CreateLogic).
THEOREM TypeCorrect == Spec => []TypeOK
<1>1. IInv => TypeOK
  BY DEF IInv
<1> QED
  BY Inductive, <1>1, PTL

\* However many messages race to build the logic, each is processed by one
\* that is complete and announced to the gateway (CreateLogic, LoadParams).
THEOREM OnlyRegisteredProcess == Spec => []ProcessedWhenRegistered
<1>1. IInv => ProcessedWhenRegistered
  BY DEF IInv
<1> QED
  BY Inductive, <1>1, PTL

\* The race loses no message by itself: one is given up only after a failed
\* check of the gateway or a failed CreateLogic (ApplyLogic).
THEOREM DropsAreExplained == Spec => []DropExplained
<1>1. IInv => DropExplained
  BY DEF IInv
<1> QED
  BY Inductive, <1>1, PTL

\* A goroutine on its own never panics on the field, whatever fails
\* (ApplyLogic).
THEOREM CrashTakesTwo == Spec => []CrashNeedsAnother
<1>1. IInv => CrashNeedsAnother
  BY DEF IInv
<1> QED
  BY Inductive, <1>1, PTL

\* A logic in use that nobody is replacing stays in use (ApplyLogic).
THEOREM Sticks == Spec => LogicSticks
<1>1. IInv /\ [Next]_vars => [Settled => Settled' /\ UNCHANGED blVars]_vars
  <2> SUFFICES ASSUME IInv, Next, Settled
               PROVE  Settled' /\ UNCHANGED blVars
    BY DEF LogicSticks
  <2>0. TypeOK
    BY DEF IInv
  <2>1. CASE WriteDbPush \/ GetLogic \/ SetPush
    BY <2>1 DEF WriteDbPush, GetLogic, SetPush, Settled, Creating, blVars
  <2>2. ASSUME NEW m \in Messages, ApplyLogic(m)
        PROVE  Settled' /\ UNCHANGED blVars
    <3>1. ~Creating(m) /\ blType
      BY DEF Settled
    <3>2. Arrive(m) \/ Check(m) \/ CheckValid(m) \/ Process(m)
      BY <2>2, <3>1
         DEF ApplyLogic, Creating, CheckGatewayExistence, LoadParams, Register,
             AssignFirst, AssignSecond, Goto
    <3>3. UNCHANGED blVars
      BY <3>2 DEF Arrive, Check, CheckValid, Process
    <3>4. /\ \A n \in Messages \ {m} : pc'[n] = pc[n]
          /\ pc'[m] \in {"check", "valid", "process", "done"}
      BY <2>0, <3>1, <3>2 DEF Arrive, Check, CheckValid, Process, Goto, TypeOK
    <3> QED
      BY <3>3, <3>4 DEF Settled, Creating, blVars
  <2> QED
    BY <2>1, <2>2 DEF Next
<1> QED
  BY Inductive, <1>1, PTL DEF Spec, LogicSticks
=============================================================================
