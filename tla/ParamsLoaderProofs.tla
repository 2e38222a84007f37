------------------------- MODULE ParamsLoaderProofs -------------------------
(***************************************************************************)
(* Proofs about ParamsLoader for any loads, pool, cameras and devices: its *)
(* type correctness, which says that the pool gives no connection twice,   *)
(* that what is registered was loaded completely unless a timeout or a     *)
(* stop came, and that it takes as many loads as the pool has connections  *)
(* to block each other.                                                    *)
(***************************************************************************)
EXTENDS ParamsLoader, FiniteSetTheorems, TLAPS

\* Where a load is while it holds the connection of a query.
At(q) == CASE q = "user" -> {"userRow"}
           [] q = "camera" -> {"cameraRows"}
           [] q = "sensor" -> {"sensorRows", "inner", "innerRows"}
           [] OTHER -> {"innerRows"}

\* Until its context is done, a query has a connection exactly while the load
\* reads its rows.
RowsHeld ==
    \A l \in Loaders, q \in Queries :
        <<l, ContextOf(q)>> \notin expired
            => (<<l, q>> \in open <=> pc[l] \in At(q))

\* A device is left to read while its inner params are.
DeviceLeft ==
    \A l \in Loaders :
        /\ inner[l] <= sensors[l]
        /\ pc[l] \in {"inner", "innerRows"} => sensors[l] < Sensors

\* What a load has read, none of whose contexts is done.
ReadSoFar(l) ==
    (\A k \in Contexts : <<l, k>> \notin expired) =>
        /\ inner[l] = sensors[l]
        /\ pc[l] \in {"sensor", "sensorRows", "inner", "innerRows", "register"}
              => cameras[l] = Cameras
        /\ pc[l] = "register" => sensors[l] = Sensors

Values ==
    /\ pc \in [Loaders -> {"idle", "user", "userRow", "camera", "cameraRows",
                           "sensor", "sensorRows", "inner", "innerRows",
                           "register", "returned"}]
    /\ open \subseteq Loaders \X Queries
    /\ expired \subseteq Loaders \X Contexts
    /\ cameras \in [Loaders -> 0 .. Cameras]
    /\ sensors \in [Loaders -> 0 .. Sensors]
    /\ inner \in [Loaders -> 0 .. Sensors]
    /\ result \in [Loaders -> {"none", "loaded", "error"}]

Pool ==
    /\ IsFiniteSet(open)
    /\ busy \in 0 .. MaxBusy
    /\ Cardinality(open) + busy <= PoolSize

IInv ==
    /\ Values
    /\ Pool
    /\ RowsHeld
    /\ DeviceLeft
    /\ \A l \in Loaders : ReadSoFar(l)

USE ParamsAssumption
USE DEF loadVars
-----------------------------------------------------------------------------
(* The pool.                                                               *)

\* A query that gets a connection found one free.
LEMMA PoolAdds ==
    ASSUME Pool, Free > 0, NEW o, open' = open \cup {o}, busy' = busy
    PROVE  Pool'
<1>1. /\ IsFiniteSet(open') /\ Cardinality(open) \in Nat
      /\ Cardinality(open') \in {Cardinality(open), Cardinality(open) + 1}
  BY FS_AddElement, FS_CardinalityType DEF Pool
<1> QED
  BY <1>1 DEF Pool, Free

\* Rows that are closed give their connections back.
LEMMA PoolFrees ==
    ASSUME Pool, open' \subseteq open, busy' = busy
    PROVE  Pool'
<1>1. /\ IsFiniteSet(open') /\ Cardinality(open) \in Nat
      /\ Cardinality(open') \in Nat /\ Cardinality(open') <= Cardinality(open)
  BY FS_Subset, FS_CardinalityType DEF Pool
<1> QED
  BY <1>1 DEF Pool
-----------------------------------------------------------------------------
(* A load.                                                                 *)

\* A step of one load leaves what holds of the others alone.
LEMMA LoadIInv ==
    ASSUME IInv, NEW l \in Loaders, Values', Pool',
           expired \subseteq expired',
           \A q \in Queries : <<l, ContextOf(q)>> \notin expired' =>
              (<<l, q>> \in open' <=> pc'[l] \in At(q)),
           inner'[l] <= sensors'[l],
           pc'[l] \in {"inner", "innerRows"} => sensors'[l] < Sensors,
           ReadSoFar(l)',
           \A m \in Loaders \ {l} :
              /\ pc'[m] = pc[m] /\ cameras'[m] = cameras[m]
              /\ sensors'[m] = sensors[m] /\ inner'[m] = inner[m]
              /\ \A q \in Queries : <<m, q>> \in open' <=> <<m, q>> \in open
              /\ \A k \in Contexts : <<m, k>> \in expired' => <<m, k>> \in expired
    PROVE  IInv'
<1> USE DEF IInv
<1>1. ASSUME NEW q \in Queries PROVE ContextOf(q) \in Contexts
  BY DEF Queries, ContextOf, Contexts
<1>2. RowsHeld'
  <2> SUFFICES ASSUME NEW m \in Loaders, NEW q \in Queries,
                      <<m, ContextOf(q)>> \notin expired'
               PROVE  <<m, q>> \in open' <=> pc'[m] \in At(q)
    BY DEF RowsHeld
  <2>1. CASE m = l
    BY <2>1
  <2>2. CASE m # l
    BY <1>1, <2>2 DEF RowsHeld
  <2> QED
    BY <2>1, <2>2
<1>3. DeviceLeft'
  BY DEF DeviceLeft
<1>4. ASSUME NEW m \in Loaders PROVE ReadSoFar(m)'
  <2>1. CASE m # l
    BY <2>1 DEF ReadSoFar
  <2> QED
    BY <2>1
<1> QED
  BY <1>2, <1>3, <1>4
\* What LoadIInv asks of a load whose contexts and loaded params are the same.
LEMMA SameParams ==
    ASSUME IInv, NEW l \in Loaders, UNCHANGED <<expired, loadVars, result>>,
           pc' \in [Loaders -> {"idle", "user", "userRow", "camera",
                                "cameraRows", "sensor", "sensorRows", "inner",
                                "innerRows", "register", "returned"}],
           open' \subseteq Loaders \X Queries, Pool',
           \A m \in Loaders \ {l} :
              /\ pc'[m] = pc[m]
              /\ \A q \in Queries : <<m, q>> \in open' <=> <<m, q>> \in open,
           \A q \in Queries : <<l, ContextOf(q)>> \notin expired =>
              (<<l, q>> \in open' <=> pc'[l] \in At(q)),
           pc'[l] \in {"inner", "innerRows"} => sensors[l] < Sensors,
           ReadSoFar(l)'
    PROVE  IInv'
<1>1. Values'
  BY DEF IInv, Values
<1>2. inner[l] <= sensors[l]
  BY DEF IInv, DeviceLeft
<1> QED
  BY <1>1, <1>2, LoadIInv

LEMMA QueryAt ==
    ASSUME NEW l, NEW q \in Queries, pc[l] = q
    PROVE  Query(l) = q
  BY DEF Query, Queries

\* A query that has got its connection is read.
LEMMA AcquireIInv ==
    ASSUME IInv, NEW l \in Loaders,
           UserQuery(l) \/ CameraQuery(l) \/ SensorQuery(l) \/ InnerQuery(l)
    PROVE  IInv'
<1>1. PICK q \in Queries,
            next \in {"userRow", "cameraRows", "sensorRows", "innerRows"} :
        /\ Acquire(l, q, next)
        /\ \/ q = "user" /\ next = "userRow"
           \/ q = "camera" /\ next = "cameraRows"
           \/ q = "sensor" /\ next = "sensorRows"
           \/ q = "inner" /\ next = "innerRows"
  BY DEF UserQuery, CameraQuery, SensorQuery, InnerQuery, Queries
<1>2. /\ Free > 0 /\ pc[l] = q /\ pc' = [pc EXCEPT ![l] = next]
      /\ open' = open \cup {<<l, q>>}
      /\ UNCHANGED <<expired, loadVars, result, busy>>
  BY <1>1 DEF Acquire, Goto
<1>3. <<l, ContextOf(q)>> \notin expired
  BY <1>1, <1>2, QueryAt DEF Acquire, IsExpired
<1>4. /\ pc' \in [Loaders -> {"idle", "user", "userRow", "camera",
                              "cameraRows", "sensor", "sensorRows", "inner",
                              "innerRows", "register", "returned"}]
      /\ pc'[l] = next /\ \A m \in Loaders \ {l} : pc'[m] = pc[m]
      /\ open' \subseteq Loaders \X Queries
  BY <1>1, <1>2 DEF IInv, Values
<1>5. Pool'
  BY <1>2, PoolAdds DEF IInv
<1>6. ASSUME NEW p \in Queries, <<l, ContextOf(p)>> \notin expired
      PROVE  <<l, p>> \in open' <=> pc'[l] \in At(p)
  <2>1. <<l, p>> \in open <=> pc[l] \in At(p)
    BY <1>6 DEF IInv, RowsHeld
  <2> QED
    BY <1>1, <1>2, <1>4, <2>1 DEF At, Queries
<1>7. pc'[l] \in {"inner", "innerRows"} => sensors[l] < Sensors
  BY <1>1, <1>2, <1>4 DEF IInv, DeviceLeft
<1>8. ReadSoFar(l)'
  BY <1>1, <1>2, <1>4 DEF IInv, ReadSoFar
<1>9. \A m \in Loaders \ {l}, p \in Queries :
         <<m, p>> \in open' <=> <<m, p>> \in open
  BY <1>2
<1> QED
  BY <1>2, <1>4, <1>5, <1>6, <1>7, <1>8, <1>9, SameParams

\* Rows that were read are closed, and the load goes on.  Whether rows are
\* left is known as long as the context is not done.
LEMMA CloseIInv ==
    ASSUME IInv, NEW l \in Loaders, UserRead(l) \/ CameraEnd(l) \/ SensorEnd(l)
    PROVE  IInv'
<1>1. PICK q \in Queries,
            from \in {"userRow", "cameraRows", "sensorRows"},
            to \in {"camera", "sensor", "register"} :
        /\ \/ q = "user" /\ from = "userRow" /\ to = "camera"
           \/ /\ q = "camera" /\ from = "cameraRows" /\ to = "sensor"
              /\ <<l, q>> \notin open \/ cameras[l] = Cameras
           \/ /\ q = "sensor" /\ from = "sensorRows" /\ to = "register"
              /\ <<l, q>> \notin open \/ sensors[l] = Sensors
        /\ pc[l] = from /\ pc' = [pc EXCEPT ![l] = to]
        /\ open' = open \ {<<l, q>>}
        /\ UNCHANGED <<expired, loadVars, result, busy>>
  BY DEF UserRead, CameraEnd, SensorEnd, Goto, Queries
<1>2. /\ pc' \in [Loaders -> {"idle", "user", "userRow", "camera",
                              "cameraRows", "sensor", "sensorRows", "inner",
                              "innerRows", "register", "returned"}]
      /\ pc'[l] = to /\ \A m \in Loaders \ {l} : pc'[m] = pc[m]
      /\ open' \subseteq Loaders \X Queries
  BY <1>1 DEF IInv, Values
<1>3. Pool'
  BY <1>1, PoolFrees DEF IInv
<1>4. ASSUME NEW p \in Queries, <<l, ContextOf(p)>> \notin expired
      PROVE  <<l, p>> \in open' <=> pc'[l] \in At(p)
  <2>1. <<l, p>> \in open <=> pc[l] \in At(p)
    BY <1>4 DEF IInv, RowsHeld
  <2> QED
    BY <1>1, <1>2, <2>1 DEF At, Queries
<1>5. ReadSoFar(l)'
  <2> SUFFICES ASSUME \A k \in Contexts : <<l, k>> \notin expired
               PROVE  ReadSoFar(l)'
    BY <1>1 DEF ReadSoFar
  <2>1. /\ inner[l] = sensors[l]
        /\ from = "sensorRows" => cameras[l] = Cameras
    BY <1>1 DEF IInv, ReadSoFar
  <2>2. <<l, ContextOf(q)>> \notin expired
    BY <1>1 DEF ContextOf, Contexts
  <2>3. pc[l] \in At(q) => <<l, q>> \in open
    BY <2>2 DEF IInv, RowsHeld
  <2>4. pc[l] \in At(q)
    BY <1>1 DEF At
  <2> QED
    BY <1>1, <1>2, <2>1, <2>3, <2>4 DEF ReadSoFar
<1>6. \A m \in Loaders \ {l}, p \in Queries :
         <<m, p>> \in open' <=> <<m, p>> \in open
  BY <1>1
<1>7. pc'[l] \notin {"inner", "innerRows"}
  BY <1>1, <1>2
<1> QED
  BY <1>1, <1>2, <1>3, <1>4, <1>5, <1>6, <1>7, SameParams

\* The steps that take no connection and give none back.
LEMMA ReadIInv ==
    ASSUME IInv, NEW l \in Loaders, Start(l) \/ SensorNext(l)
    PROVE  IInv'
<1>1. PICK to :
        /\ \/ pc[l] = "idle" /\ to = "user"
           \/ pc[l] = "sensorRows" /\ to = "inner" /\ sensors[l] < Sensors
        /\ pc' = [pc EXCEPT ![l] = to]
        /\ UNCHANGED <<open, expired, loadVars, result, busy>>
  BY DEF Start, SensorNext, Goto
<1>2. /\ pc' \in [Loaders -> {"idle", "user", "userRow", "camera",
                              "cameraRows", "sensor", "sensorRows", "inner",
                              "innerRows", "register", "returned"}]
      /\ pc'[l] = to /\ \A m \in Loaders \ {l} : pc'[m] = pc[m]
      /\ open' \subseteq Loaders \X Queries
  BY <1>1 DEF IInv, Values
<1>3. Pool'
  BY <1>1, PoolFrees DEF IInv
<1>4. ASSUME NEW p \in Queries, <<l, ContextOf(p)>> \notin expired
      PROVE  <<l, p>> \in open' <=> pc'[l] \in At(p)
  <2>1. <<l, p>> \in open <=> pc[l] \in At(p)
    BY <1>4 DEF IInv, RowsHeld
  <2> QED
    BY <1>1, <1>2, <2>1 DEF At, Queries
<1>5. ReadSoFar(l)'
  BY <1>1, <1>2 DEF IInv, ReadSoFar
<1>6. pc'[l] \in {"inner", "innerRows"} => sensors[l] < Sensors
  BY <1>1, <1>2
<1>7. \A m \in Loaders \ {l}, p \in Queries :
         <<m, p>> \in open' <=> <<m, p>> \in open
  BY <1>1
<1> QED
  BY <1>1, <1>2, <1>3, <1>4, <1>5, <1>6, <1>7, SameParams

LEMMA CameraNextIInv ==
    ASSUME IInv, NEW l \in Loaders, CameraNext(l)
    PROVE  IInv'
<1>1. /\ pc[l] = "cameraRows" /\ cameras[l] < Cameras
      /\ cameras' = [cameras EXCEPT ![l] = cameras[l] + 1]
      /\ UNCHANGED <<pc, open, expired, sensors, inner, result, busy>>
  BY DEF CameraNext
<1>2. /\ cameras \in [Loaders -> 0 .. Cameras] /\ Values
  BY DEF IInv, Values
<1>3. cameras[l] + 1 \in 0 .. Cameras
  BY <1>1, <1>2
<1>4. /\ cameras' \in [Loaders -> 0 .. Cameras]
      /\ \A m \in Loaders \ {l} : cameras'[m] = cameras[m]
  BY <1>1, <1>2, <1>3
<1>5. Values'
  BY <1>1, <1>2, <1>4 DEF Values
<1>6. Pool'
  BY <1>1, PoolFrees DEF IInv
<1>7. ReadSoFar(l)'
  BY <1>1 DEF IInv, ReadSoFar
<1>8. \A q \in Queries : <<l, ContextOf(q)>> \notin expired =>
          (<<l, q>> \in open <=> pc[l] \in At(q))
  BY DEF IInv, RowsHeld
<1>9. inner[l] <= sensors[l]
  BY DEF IInv, DeviceLeft
<1> QED
  BY <1>1, <1>4, <1>5, <1>6, <1>7, <1>8, <1>9, LoadIInv

\* A device is added with all its inner params, unless the context is done.
LEMMA InnerEndIInv ==
    ASSUME IInv, NEW l \in Loaders, InnerEnd(l)
    PROVE  IInv'
<1>1. /\ pc[l] = "innerRows" /\ pc' = [pc EXCEPT ![l] = "sensorRows"]
      /\ open' = open \ {<<l, "inner">>}
      /\ sensors' = [sensors EXCEPT ![l] = sensors[l] + 1]
      /\ inner' = IF <<l, "inner">> \in open
                    THEN [inner EXCEPT ![l] = inner[l] + 1] ELSE inner
      /\ UNCHANGED <<expired, cameras, result, busy>>
  BY DEF InnerEnd, Goto
<1>2. /\ Values /\ inner[l] <= sensors[l] /\ sensors[l] < Sensors
      /\ sensors \in [Loaders -> 0 .. Sensors]
      /\ inner \in [Loaders -> 0 .. Sensors]
  BY <1>1 DEF IInv, Values, DeviceLeft
<1>3. sensors[l] + 1 \in 0 .. Sensors /\ inner[l] + 1 \in 0 .. Sensors
  BY <1>2
<1>4. /\ sensors' \in [Loaders -> 0 .. Sensors]
      /\ inner' \in [Loaders -> 0 .. Sensors]
      /\ sensors'[l] = sensors[l] + 1
      /\ inner'[l] = IF <<l, "inner">> \in open THEN inner[l] + 1 ELSE inner[l]
      /\ \A m \in Loaders \ {l} : /\ sensors'[m] = sensors[m]
                                  /\ inner'[m] = inner[m]
  BY <1>1, <1>2, <1>3
<1>5. /\ pc' \in [Loaders -> {"idle", "user", "userRow", "camera",
                              "cameraRows", "sensor", "sensorRows", "inner",
                              "innerRows", "register", "returned"}]
      /\ pc'[l] = "sensorRows" /\ \A m \in Loaders \ {l} : pc'[m] = pc[m]
      /\ open' \subseteq Loaders \X Queries
  BY <1>1 DEF IInv, Values
<1>6. Values'
  BY <1>1, <1>2, <1>4, <1>5 DEF Values
<1>7. Pool'
  BY <1>1, PoolFrees DEF IInv
<1>8. ASSUME NEW p \in Queries, <<l, ContextOf(p)>> \notin expired
      PROVE  <<l, p>> \in open' <=> pc'[l] \in At(p)
  <2>1. <<l, p>> \in open <=> pc[l] \in At(p)
    BY <1>8 DEF IInv, RowsHeld
  <2> QED
    BY <1>1, <1>5, <2>1 DEF At, Queries
<1>9. ReadSoFar(l)'
  <2> SUFFICES ASSUME \A k \in Contexts : <<l, k>> \notin expired
               PROVE  ReadSoFar(l)'
    BY <1>1 DEF ReadSoFar
  <2>1. <<l, "inner">> \in open
    <3>1. "inner" \in Queries /\ <<l, ContextOf("inner")>> \notin expired
      BY DEF Queries, ContextOf, Contexts
    <3>2. pc[l] \in At("inner")
      BY <1>1 DEF At
    <3> QED
      BY <3>1, <3>2 DEF IInv, RowsHeld
  <2>2. inner[l] = sensors[l] /\ cameras[l] = Cameras
    BY <1>1 DEF IInv, ReadSoFar
  <2> QED
    BY <1>1, <1>4, <1>5, <2>1, <2>2 DEF ReadSoFar
<1>10. inner'[l] <= sensors'[l]
  BY <1>2, <1>4
<1>11. \A m \in Loaders \ {l}, p \in Queries :
          <<m, p>> \in open' <=> <<m, p>> \in open
  BY <1>1
<1> QED
  BY <1>1, <1>4, <1>5, <1>6, <1>7, <1>8, <1>9, <1>10, <1>11, LoadIInv

\* A load of which a context is done promises nothing, but holds no more.
LEMMA ExpireIInv ==
    ASSUME IInv, NEW l \in Loaders,
           Register(l) \/ Fail(l) \/ Expire(l) \/ Stop(l)
             \/ \E q \in Queries : CloseExpired(l, q)
    PROVE  IInv'
<1>1. /\ \/ pc' = pc /\ result' = result
         \/ \E r \in {"loaded", "error"} :
               /\ pc' = [pc EXCEPT ![l] = "returned"]
               /\ result' = [result EXCEPT ![l] = r]
               /\ \A k \in Contexts : <<l, k>> \in expired'
      /\ \/ open' = open
         \/ \E q \in Queries : /\ <<l, ContextOf(q)>> \in expired
                               /\ open' = open \ {<<l, q>>}
      /\ \E K \in SUBSET Contexts : expired' = expired \cup ({l} \X K)
      /\ UNCHANGED <<loadVars, busy>>
  <2>0. ContextOf(Query(l)) \in Contexts
    BY DEF ContextOf, Contexts
  <2>1. CASE Register(l)
    BY <2>1 DEF Register, Return
  <2>2. CASE Fail(l)
    BY <2>2 DEF Fail, Return
  <2>3. CASE Expire(l)
    <3>1. expired' = expired \cup ({l} \X {ContextOf(Query(l))})
      BY <2>3 DEF Expire
    <3> QED
      BY <2>0, <2>3, <3>1 DEF Expire
  <2>4. CASE Stop(l)
    BY <2>4 DEF Stop
  <2>5. ASSUME NEW q \in Queries, CloseExpired(l, q)
        PROVE  /\ pc' = pc /\ result' = result
               /\ <<l, ContextOf(q)>> \in expired
               /\ open' = open \ {<<l, q>>}
               /\ expired' = expired \cup ({l} \X {})
               /\ UNCHANGED <<loadVars, busy>>
    BY <2>5 DEF CloseExpired
  <2> QED
    BY <2>1, <2>2, <2>3, <2>4, <2>5
<1>2. /\ expired \subseteq expired' /\ expired' \subseteq Loaders \X Contexts
      /\ \A m \in Loaders \ {l}, k \in Contexts :
            <<m, k>> \in expired' => <<m, k>> \in expired
  BY <1>1 DEF IInv, Values
<1>3. /\ open' \subseteq open
      /\ \A m \in Loaders \ {l}, q \in Queries :
            <<m, q>> \in open' <=> <<m, q>> \in open
      /\ \A q \in Queries : <<l, ContextOf(q)>> \notin expired =>
            (<<l, q>> \in open' <=> <<l, q>> \in open)
  BY <1>1
<1>4. /\ pc' \in [Loaders -> {"idle", "user", "userRow", "camera",
                              "cameraRows", "sensor", "sensorRows", "inner",
                              "innerRows", "register", "returned"}]
      /\ result' \in [Loaders -> {"none", "loaded", "error"}]
      /\ \A m \in Loaders \ {l} : pc'[m] = pc[m]
      /\ \/ pc'[l] = pc[l]
         \/ pc'[l] = "returned" /\ \A k \in Contexts : <<l, k>> \in expired'
  BY <1>1 DEF IInv, Values
<1>5. Values'
  BY <1>1, <1>2, <1>3, <1>4 DEF IInv, Values
<1>6. Pool'
  BY <1>1, <1>3, PoolFrees DEF IInv
<1>7. ASSUME NEW q \in Queries, <<l, ContextOf(q)>> \notin expired'
      PROVE  <<l, q>> \in open' <=> pc'[l] \in At(q)
  <2>1. ContextOf(q) \in Contexts /\ <<l, ContextOf(q)>> \notin expired
    BY <1>2, <1>7 DEF ContextOf, Contexts
  <2>2. pc'[l] = pc[l]
    BY <1>4, <1>7, <2>1
  <2> QED
    BY <1>3, <2>1, <2>2 DEF IInv, RowsHeld
<1>8. ReadSoFar(l)'
  <2> SUFFICES ASSUME \A k \in Contexts : <<l, k>> \notin expired'
               PROVE  ReadSoFar(l)'
    BY DEF ReadSoFar
  <2>1. pc'[l] = pc[l]
    BY <1>4 DEF Contexts
  <2>2. \A k \in Contexts : <<l, k>> \notin expired
    BY <1>2
  <2> QED
    BY <1>1, <2>1, <2>2 DEF IInv, ReadSoFar
<1>9. /\ inner[l] <= sensors[l]
      /\ pc'[l] \in {"inner", "innerRows"} => sensors[l] < Sensors
  BY <1>4 DEF IInv, DeviceLeft
<1> QED
  BY <1>1, <1>2, <1>3, <1>4, <1>5, <1>6, <1>7, <1>8, <1>9, LoadIInv
\* The statements of the other tasks.
LEMMA ExecIInv ==
    ASSUME IInv, Exec \/ ExecDone
    PROVE  IInv'
<1>1. /\ \/ Free > 0 /\ busy < MaxBusy /\ busy' = busy + 1
         \/ busy > 0 /\ busy' = busy - 1
      /\ UNCHANGED <<pc, open, expired, loadVars, result>>
  BY DEF Exec, ExecDone
<1>2. Pool'
  <2>1. Cardinality(open) \in Nat
    BY FS_CardinalityType DEF IInv, Pool
  <2> QED
    BY <1>1, <2>1 DEF IInv, Pool, Free
<1>3. Values'
  BY <1>1 DEF IInv, Values
<1>4. RowsHeld' /\ DeviceLeft'
  BY <1>1 DEF IInv, RowsHeld, DeviceLeft
<1>5. ASSUME NEW l \in Loaders PROVE ReadSoFar(l)'
  BY <1>1 DEF IInv, ReadSoFar
<1> QED
  BY <1>2, <1>3, <1>4, <1>5 DEF IInv
-----------------------------------------------------------------------------
(* The theorems.                                                           *)

LEMMA InitIInv == Init => IInv
<1> SUFFICES ASSUME Init PROVE IInv
  OBVIOUS
<1>1. Values
  BY DEF Init, Values
<1>2. Pool
  BY FS_EmptySet DEF Init, Pool
<1>3. RowsHeld
  BY DEF Init, RowsHeld, At, Queries
<1>4. DeviceLeft /\ \A l \in Loaders : ReadSoFar(l)
  BY DEF Init, DeviceLeft, ReadSoFar
<1> QED
  BY <1>1, <1>2, <1>3, <1>4 DEF IInv

LEMMA NextIInv == IInv /\ [Next]_vars => IInv'
<1> SUFFICES ASSUME IInv, [Next]_vars PROVE IInv'
  OBVIOUS
<1>1. ASSUME NEW l \in Loaders,
             \/ Start(l) \/ Load(l) \/ Fail(l) \/ Expire(l) \/ Stop(l)
             \/ \E q \in Queries : CloseExpired(l, q)
      PROVE  IInv'
  <2>1. CASE Load(l)
    BY <2>1, AcquireIInv, CloseIInv, ReadIInv, CameraNextIInv, InnerEndIInv,
       ExpireIInv DEF Load
  <2> QED
    BY <1>1, <2>1, ReadIInv, ExpireIInv
<1>2. CASE Exec \/ ExecDone
  BY <1>2, ExecIInv
<1>3. CASE UNCHANGED vars
  <2>1. Values' /\ Pool' /\ RowsHeld' /\ DeviceLeft'
    BY <1>3 DEF vars, IInv, Values, Pool, RowsHeld, DeviceLeft
  <2>2. ASSUME NEW l \in Loaders PROVE ReadSoFar(l)'
    BY <1>3 DEF vars, IInv, ReadSoFar
  <2> QED
    BY <2>1, <2>2 DEF IInv
<1> QED
  BY <1>1, <1>2, <1>3 DEF Next

\* The inductive invariant of the loads holds in every state.
THEOREM Inductive == Spec => []IInv
  BY InitIInv, NextIInv, PTL DEF Spec

\* Every variable keeps its type, and the pool never has more connections in
\* use than it was opened with (Connection.Init).
THEOREM TypeCorrect == Spec => []TypeOK
<1>1. IInv => TypeOK
  BY DEF IInv, Values, Pool, TypeOK
<1> QED
  BY <1>1, Inductive, PTL

\* A load none of whose contexts is done has loaded everything when the
\* gateway is told "registered" (LoadParams).
THEOREM LoadsComplete == Spec => []CompleteUnlessExpired
<1>1. IInv => CompleteUnlessExpired
  BY DEF IInv, ReadSoFar, CompleteUnlessExpired, Complete
<1> QED
  BY <1>1, Inductive, PTL

\* Loads that all wait for a connection, without a context that is done and
\* without other statements, are as many as the pool has connections, each
\* with the rows of its devices open (LoadParams, Connection.Init).
THEOREM SelfBlock == Spec => []SelfBlockTakesAll
<1>1. IInv => SelfBlockTakesAll
  <2> DEFINE S == {l \in Active : pc[l] = "inner"}
             f == [o \in open |-> o[1]]
  <2> SUFFICES ASSUME IInv, Active # {}, \A l \in Active : Blocked(l),
                      busy = 0,
                      \A o \in open : <<o[1], ContextOf(o[2])>> \notin expired
               PROVE  Cardinality(S) >= PoolSize
    BY DEF SelfBlockTakesAll
  <2>1. ASSUME NEW o \in open
        PROVE  o = <<o[1], "sensor">> /\ o[1] \in S
    <3>1. /\ o[1] \in Loaders /\ o[2] \in Queries /\ o = <<o[1], o[2]>>
          /\ pc[o[1]] \in At(o[2])
      <4>1. o \in Loaders \X Queries
        BY DEF IInv, Values
      <4>2. o[1] \in Loaders /\ o[2] \in Queries /\ o = <<o[1], o[2]>>
        BY <4>1
      <4> QED
        BY <4>2 DEF IInv, RowsHeld
    <3>2. o[1] \in Active
      BY <3>1 DEF Active, At, Queries
    <3>3. pc[o[1]] \in Queries
      BY <3>2 DEF Blocked, Waiting
    <3> QED
      BY <3>1, <3>2, <3>3 DEF At, Queries
  <2>2. ASSUME NEW l \in S PROVE <<l, "sensor">> \in open
    <3>1. l \in Loaders /\ pc[l] = "inner" /\ ~IsExpired(l)
      BY DEF Active, Blocked
    <3>2. <<l, ContextOf("sensor")>> \notin expired
      BY <3>1 DEF IsExpired, Query, ContextOf
    <3>3. "sensor" \in Queries /\ pc[l] \in At("sensor")
      BY <3>1 DEF Queries, At
    <3> QED
      BY <3>1, <3>2, <3>3 DEF IInv, RowsHeld
  <2>3. f \in Surjection(open, S)
    BY <2>1, <2>2 DEF Surjection
  <2>4. f \in Injection(open, S)
    <3>1. f \in [open -> S]
      BY <2>3 DEF Surjection
    <3>2. ASSUME NEW o \in open, NEW p \in open, f[o] = f[p] PROVE o = p
      <4>1. o[1] = p[1]
        BY <3>2
      <4> HIDE DEF S, f
      <4> QED
        BY <2>1, <4>1
    <3> HIDE DEF S, f
    <3> QED
      BY <3>1, <3>2 DEF Injection, IsInjective
  <2>5. IsFiniteSet(open)
    BY DEF IInv, Pool
  <2>6. IsFiniteSet(S) /\ Cardinality(S) = Cardinality(open)
    BY <2>3, <2>4, <2>5, FS_Surjection
  <2>7. Free <= 0
    BY DEF Blocked
  <2>8. Cardinality(open) \in Nat
    BY <2>5, FS_CardinalityType
  <2> QED
    BY <2>6, <2>7, <2>8 DEF Free
<1> QED
  BY <1>1, Inductive, PTL
=============================================================================
