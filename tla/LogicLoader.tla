----------------------------- MODULE LogicLoader -----------------------------
(***************************************************************************)
(* GatewayChannel.bl: every message runs ApplyLogic in a goroutine of its  *)
(* own, and each that finds no business logic builds one.  The field is an *)
(* interface value, a type word and a data word, read and written without  *)
(* a lock by these goroutines and by the REST handler of the push command. *)
(* A store is therefore two steps, in either order; a comparison with nil  *)
(* looks at the type word alone.                                           *)
(*                                                                         *)
(* A GatewayLogic is identified by the message whose goroutine built it.   *)
(* A panic in a goroutine of ApplyLogic ends the process; one in a REST    *)
(* handler is recovered by gin.                                            *)
(***************************************************************************)
EXTENDS FiniteSets

CONSTANTS Messages, \* gateway messages and REST commands, one goroutine each
          Nil       \* Go's nil pointer

ASSUME LoaderAssumption == Nil \notin Messages

VARIABLES
    pc,         \* where the goroutine of each message is in ApplyLogic
    blType,     \* the type word of c.bl is set
    blData,     \* the data word of c.bl
    result,     \* what CreateLogic returned to each message
    loaded,     \* logics whose params were read
    registered, \* logics that sent the message "registered"
    failed,     \* messages whose CreateLogic returned an error
    absent,     \* messages for which the existence check said no, or failed
    handledBy,  \* the logic that processed each message
    push,       \* UserParams.Push of each logic
    dbPush,     \* column users.push
    pushPc,     \* where the handler of the push command is
    pushOn,     \* the logic the handler got
    crash       \* the message whose goroutine panicked, or Nil

blVars == <<blType, blData>>
createVars == <<result, loaded, registered, failed, absent>>
pushVars == <<dbPush, pushPc, pushOn>>
vars == <<pc, blVars, createVars, handledBy, push, pushVars, crash>>

Init ==
    /\ pc = [m \in Messages |-> "idle"]
    /\ blType = FALSE
    /\ blData = Nil
    /\ result = [m \in Messages |-> Nil]
    /\ loaded = {}
    /\ registered = {}
    /\ failed = {}
    /\ absent = {}
    /\ handledBy = [m \in Messages |-> Nil]
    /\ push = [m \in Messages |-> FALSE]
    /\ dbPush = FALSE
    /\ pushPc = "idle"
    /\ pushOn = Nil
    /\ crash = Nil

Alive == crash = Nil

Goto(m, from, to) ==
    /\ pc[m] = from
    /\ pc' = [pc EXCEPT ![m] = to]
-----------------------------------------------------------------------------
(* ApplyLogic.                                                             *)

\* A gateway message arrives (Start) or a command (handleCommand).
Arrive(m) ==
    /\ Alive
    /\ Goto(m, "idle", "check")
    /\ UNCHANGED <<blVars, createVars, handledBy, push, pushVars, crash>>

\* Mutant of Check: a logic is created for every message.
CheckNot(m) ==
    /\ Alive
    /\ Goto(m, "check", "exists")
    /\ UNCHANGED <<blVars, createVars, handledBy, push, pushVars, crash>>

Check(m) ==
    /\ Alive
    /\ Goto(m, "check", IF blType THEN "valid" ELSE "exists")
    /\ UNCHANGED <<blVars, createVars, handledBy, push, pushVars, crash>>

\* CheckGatewayExistence: found, or not found, or the query failed.
CheckGatewayExistence(m) ==
    /\ Alive
    /\ \/ /\ Goto(m, "exists", "load")
          /\ UNCHANGED absent
       \/ /\ Goto(m, "exists", "done")
          /\ absent' = absent \cup {m}
    /\ UNCHANGED <<blVars, result, loaded, registered, failed, handledBy, push,
                   pushVars, crash>>

\* CreateLogic, first part: LoadParams reads the params, or a query fails.
LoadParams(m) ==
    /\ Alive
    /\ \/ /\ Goto(m, "load", "register")
          /\ loaded' = loaded \cup {m}
          /\ push' = [push EXCEPT ![m] = dbPush]
          /\ UNCHANGED failed
       \/ /\ Goto(m, "load", "assign")
          /\ failed' = failed \cup {m}
          /\ UNCHANGED <<loaded, push>>
    /\ UNCHANGED <<blVars, result, registered, absent, handledBy, pushVars,
                   crash>>

\* Mutant of Register: CreateLogic returns without informing the gateway.
RegisterForgotten(m) ==
    /\ Alive
    /\ Goto(m, "register", "assign")
    /\ result' = [result EXCEPT ![m] = m]
    /\ UNCHANGED <<blVars, loaded, registered, failed, absent, handledBy, push,
                   pushVars, crash>>

\* CreateLogic, second part: the gateway is told "registered", or the write
\* fails and the loaded logic is thrown away.
Register(m) ==
    /\ Alive
    /\ Goto(m, "register", "assign")
    /\ \/ /\ registered' = registered \cup {m}
          /\ result' = [result EXCEPT ![m] = m]
          /\ UNCHANGED failed
       \/ /\ failed' = failed \cup {m}
          /\ UNCHANGED <<registered, result>>
    /\ UNCHANGED <<blVars, loaded, absent, handledBy, push, pushVars, crash>>

\* Mutant of AssignFirst: `bl, err := c.CreateLogic()`, a local variable.
AssignToLocal(m) ==
    /\ Alive
    /\ Goto(m, "assign", "valid")
    /\ UNCHANGED <<blVars, createVars, handledBy, push, pushVars, crash>>

\* `c.bl, err = c.CreateLogic()` stores the result, nil after an error too,
\* one word and then the other.
AssignFirst(m) ==
    /\ Alive
    /\ \/ /\ Goto(m, "assign", "assignData")
          /\ blType' = (result[m] # Nil)
          /\ UNCHANGED blData
       \/ /\ Goto(m, "assign", "assignType")
          /\ blData' = result[m]
          /\ UNCHANGED blType
    /\ UNCHANGED <<createVars, handledBy, push, pushVars, crash>>

AssignSecond(m) ==
    /\ Alive
    /\ \/ /\ Goto(m, "assignData", "valid")
          /\ blData' = result[m]
          /\ UNCHANGED blType
       \/ /\ Goto(m, "assignType", "valid")
          /\ blType' = (result[m] # Nil)
          /\ UNCHANGED blData
    /\ UNCHANGED <<createVars, handledBy, push, pushVars, crash>>

\* Mutant of CheckValid: the pointer is not checked.
CheckValidNot(m) ==
    /\ Alive
    /\ Goto(m, "valid", "process")
    /\ UNCHANGED <<blVars, createVars, handledBy, push, pushVars, crash>>

CheckValid(m) ==
    /\ Alive
    /\ Goto(m, "valid", IF blType THEN "process" ELSE "done")
    /\ UNCHANGED <<blVars, createVars, handledBy, push, pushVars, crash>>

\* c.bl.Process reads the field again: a nil type word or a nil receiver
\* panics.
Process(m) ==
    /\ Alive
    /\ \/ /\ blType /\ blData # Nil
          /\ Goto(m, "process", "done")
          /\ handledBy' = [handledBy EXCEPT ![m] = blData]
          /\ UNCHANGED crash
       \/ /\ pc[m] = "process" /\ (~blType \/ blData = Nil)
          /\ crash' = m
          /\ UNCHANGED <<pc, handledBy>>
    /\ UNCHANGED <<blVars, createVars, push, pushVars>>
-----------------------------------------------------------------------------
(* The push command of the REST API.  Its client sets the flag in the      *)
(* database before it tells the server.                                    *)

WriteDbPush ==
    /\ Alive /\ pushPc = "idle"
    /\ pushPc' = "get"
    /\ dbPush' = TRUE
    /\ UNCHANGED <<pc, blVars, createVars, handledBy, push, pushOn, crash>>

\* GetLogic; the command is given up when no logic is loaded.
GetLogic ==
    /\ Alive /\ pushPc = "get"
    /\ pushPc' = IF blType THEN "set" ELSE "skipped"
    /\ pushOn' = IF blType THEN blData ELSE Nil
    /\ UNCHANGED <<pc, blVars, createVars, handledBy, push, dbPush, crash>>

\* Mutant of SetPush: a value receiver, which sets the flag of a copy.
SetPushOnCopy ==
    /\ Alive /\ pushPc = "set"
    /\ pushPc' = IF pushOn # Nil THEN "done" ELSE "recovered"
    /\ UNCHANGED <<pc, blVars, createVars, handledBy, push, dbPush, pushOn,
                   crash>>

\* SetPush; on a nil receiver it panics and gin recovers.
SetPush ==
    /\ Alive /\ pushPc = "set"
    /\ \/ /\ pushOn # Nil
          /\ push' = [push EXCEPT ![pushOn] = TRUE]
          /\ pushPc' = "done"
       \/ /\ pushOn = Nil
          /\ pushPc' = "recovered"
          /\ UNCHANGED push
    /\ UNCHANGED <<pc, blVars, createVars, handledBy, dbPush, pushOn, crash>>
-----------------------------------------------------------------------------

ApplyLogic(m) ==
    \/ Arrive(m) \/ Check(m) \/ CheckGatewayExistence(m) \/ LoadParams(m)
    \/ Register(m) \/ AssignFirst(m) \/ AssignSecond(m) \/ CheckValid(m)
    \/ Process(m)

Next ==
    \/ \E m \in Messages : ApplyLogic(m)
    \/ WriteDbPush \/ GetLogic \/ SetPush

Spec == Init /\ [][Next]_vars

\* The goroutine of the handler runs once the request has come.
FairSpec == Spec /\ WF_vars(GetLogic \/ SetPush)
-----------------------------------------------------------------------------
(* Properties.                                                             *)

\* The values of the field and of the goroutines; whatever words a goroutine
\* reads, the data word is nil or a logic whose params were read.
TypeOK ==
    /\ pc \in [Messages -> {"idle", "check", "exists", "load", "register",
                            "assign", "assignData", "assignType", "valid",
                            "process", "done"}]
    /\ blType \in BOOLEAN
    /\ blData \in loaded \cup {Nil}
    /\ result \in [Messages -> Messages \cup {Nil}]
    /\ loaded \subseteq Messages
    /\ registered \subseteq Messages
    /\ failed \subseteq Messages
    /\ absent \subseteq Messages
    /\ handledBy \in [Messages -> Messages \cup {Nil}]
    /\ push \in [Messages -> BOOLEAN]
    /\ dbPush \in BOOLEAN
    /\ pushPc \in {"idle", "get", "set", "done", "skipped", "recovered"}
    /\ pushOn \in Messages \cup {Nil}
    /\ crash \in Messages \cup {Nil}

\* The goroutines that are between their first look at c.bl and the end of
\* their store to it.
Creating(m) == pc[m] \in {"exists", "load", "register", "assign",
                          "assignData", "assignType"}

\* A message is processed only by a logic that has all its params and about
\* which the gateway was informed, torn stores and lost races included
\* (CreateLogic, LoadParams).
ProcessedWhenRegistered ==
    \A m \in Messages :
        handledBy[m] # Nil => handledBy[m] \in loaded \cap registered

\* A message is given up only when its gateway was not found, or some
\* CreateLogic failed: races alone lose none (ApplyLogic).
DropExplained ==
    \A m \in Messages :
        pc[m] = "done" /\ handledBy[m] = Nil => m \in absent \/ failed # {}

\* A goroutine panics on the field only when another one wrote it: a failed
\* CreateLogic of its own is caught by the check of the pointer.
CrashNeedsAnother ==
    crash # Nil => \E m \in Messages \ {crash} :
        m \in failed \/ result[m] # Nil

\* Once a logic is in the field and nobody is building another, it stays for
\* the life of the channel: what later messages change in its params is not
\* lost (ApplyLogic).
Settled == blType /\ \A m \in Messages : ~Creating(m)

LogicSticks == [][Settled => Settled' /\ UNCHANGED blVars]_vars

\* A push command takes effect when it meets a settled logic, whatever
\* messages come while it is handled: the logic in use has the flag.  With
\* another load under way the flag may be set in a logic that is replaced
\* (handleCommand, SetPush).
PushTakesEffect ==
    Settled /\ blData # Nil /\ pushPc = "get" ~>
        (pushPc = "done" /\ \E m \in Messages : blData = m /\ push[m]) \/ ~Alive
=============================================================================
