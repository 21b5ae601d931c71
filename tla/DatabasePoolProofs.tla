------------------------- MODULE DatabasePoolProofs -------------------------
(* Theorems about DatabasePool, for every pool size and every finite number of *)
(* threads.                                                                    *)
EXTENDS DatabasePool, FiniteSetTheorems, TLAPS

IndInv == TypeOK /\ ControlOK /\ ConnectionsConserved

LEMMA InitIndInv == Init => IndInv
  <1> SUFFICES ASSUME Init PROVE IndInv
    OBVIOUS
  <1> USE PoolAssumption DEF Init, Conns
  <1>1. available \in Seq(Conns) /\ Len(available) = PoolSize
    OBVIOUS
  <1>2. TypeOK
    BY <1>1 DEF TypeOK, Points
  <1>3. ControlOK
    BY DEF ControlOK
  <1>4. Queued = Conns
    BY <1>1 DEF Queued
  <1>5. ConnectionsConserved
    BY <1>1, <1>4 DEF ConnectionsConserved
  <1> QED
    BY <1>2, <1>3, <1>5 DEF IndInv

(* Taking the front of the queue removes that connection from it, once and for all. *)
LEMMA QueuedAfterTail ==
    ASSUME IndInv, available # <<>>, available' = Tail(available)
    PROVE  /\ available' \in Seq(Conns)
           /\ Head(available) \in Conns
           /\ \A i, j \in 1..Len(available') : available'[i] = available'[j] => i = j
           /\ Queued' = Queued \ {Head(available)}
           /\ Head(available) \in Queued
  <1> USE DEF IndInv, TypeOK
  <1>1. /\ available' \in Seq(Conns) /\ Head(available) \in Conns
        /\ Head(available) = available[1]
        /\ Len(available) \in Nat \ {0}
        /\ Len(available') = Len(available) - 1
        /\ \A i \in 1..Len(available') : available'[i] = available[i + 1]
    OBVIOUS
  <1>2. \A i, j \in 1..Len(available) : available[i] = available[j] => i = j
    BY DEF ConnectionsConserved
  <1>3. \A i, j \in 1..Len(available') : available'[i] = available'[j] => i = j
    BY <1>1, <1>2
  <1>4. Queued' = Queued \ {Head(available)}
    <2>1. ASSUME NEW c \in Queued' PROVE c \in Queued \ {Head(available)}
      <3>1. PICK i \in 1..Len(available') : c = available'[i]
        BY <2>1 DEF Queued
      <3>2. i + 1 \in 1..Len(available) /\ c = available[i + 1] /\ 1 \in 1..Len(available)
        BY <1>1, <3>1
      <3> QED
        BY <1>1, <1>2, <3>1, <3>2 DEF Queued
    <2>2. ASSUME NEW c \in Queued \ {Head(available)} PROVE c \in Queued'
      <3>1. PICK i \in 1..Len(available) : c = available[i]
        BY <2>2 DEF Queued
      <3>2. i - 1 \in 1..Len(available') /\ c = available'[i - 1]
        BY <1>1, <2>2, <3>1
      <3> QED
        BY <3>2 DEF Queued
    <2> QED
      BY <2>1, <2>2
  <1>5. Head(available) \in Queued
    BY <1>1 DEF Queued
  <1> QED
    BY <1>1, <1>3, <1>4, <1>5

(* Giving back a connection that is not in the queue puts it there once. *)
LEMMA QueuedAfterAppend ==
    ASSUME IndInv, NEW c \in Conns, c \notin Queued, available' = Append(available, c)
    PROVE  /\ available' \in Seq(Conns)
           /\ \A i, j \in 1..Len(available') : available'[i] = available'[j] => i = j
           /\ Queued' = Queued \cup {c}
  <1> USE DEF IndInv, TypeOK
  <1>1. /\ available' \in Seq(Conns)
        /\ Len(available) \in Nat
        /\ Len(available') = Len(available) + 1
        /\ \A i \in 1..Len(available) : available'[i] = available[i]
        /\ available'[Len(available')] = c
    OBVIOUS
  <1>2. \A i, j \in 1..Len(available) : available[i] = available[j] => i = j
    BY DEF ConnectionsConserved
  <1>3. \A i \in 1..Len(available) : available[i] # c
    BY DEF Queued
  <1>4. \A i \in 1..Len(available') : i \in 1..Len(available) \/ i = Len(available')
    BY <1>1
  <1>5. \A i, j \in 1..Len(available') : available'[i] = available'[j] => i = j
    BY <1>1, <1>2, <1>3, <1>4
  <1>6. Queued' = Queued \cup {c}
    <2>1. ASSUME NEW d \in Queued' PROVE d \in Queued \cup {c}
      BY <1>1, <1>4, <2>1 DEF Queued
    <2>2. ASSUME NEW d \in Queued PROVE d \in Queued'
      <3>1. PICK i \in 1..Len(available) : d = available[i]
        BY <2>2 DEF Queued
      <3>2. i \in 1..Len(available') /\ d = available'[i]
        BY <1>1, <3>1
      <3> QED
        BY <3>2 DEF Queued
    <2>3. c \in Queued'
      BY <1>1 DEF Queued
    <2> QED
      BY <2>1, <2>2, <2>3
  <1> QED
    BY <1>1, <1>5, <1>6

LEMMA AcquireIndInv ==
    ASSUME IndInv, NEW t \in Threads, acquire(t)
    PROVE  IndInv'
  <1> DEFINE c == Head(available)
  <1>1. /\ available' \in Seq(Conns) /\ c \in Conns /\ c # NoConn
        /\ \A i, j \in 1..Len(available') : available'[i] = available'[j] => i = j
        /\ Queued' = Queued \ {c} /\ c \in Queued
    BY QueuedAfterTail, PoolAssumption DEF acquire
  <1>2. held' = [held EXCEPT ![t] = c] /\ held[t] = NoConn
    BY DEF acquire, IndInv, ControlOK
  <1>3. TypeOK'
    BY <1>1 DEF acquire, IndInv, TypeOK, Points
  <1>4. ControlOK'
    <2>1. \A s \in Threads : (held[s] # NoConn <=> pc[s] \in {"using", "release"})'
      BY <1>1 DEF acquire, IndInv, TypeOK, ControlOK
    <2>2. ASSUME NEW d \in inTxn' PROVE \E s \in Threads : pc'[s] = "using" /\ held'[s] = d
      <3>1. CASE d \in inTxn
        <4>1. PICK s \in Threads : pc[s] = "using" /\ held[s] = d
          BY <3>1 DEF IndInv, ControlOK
        <4> QED
          BY <4>1 DEF acquire, IndInv, TypeOK
      <3>2. CASE d \notin inTxn
        BY <3>2, <2>2, <1>2 DEF acquire, IndInv, TypeOK
      <3> QED
        BY <3>1, <3>2
    <2> QED
      BY <2>1, <2>2 DEF ControlOK
  <1>5. ConnectionsConserved'
    <2>1. \A s \in Threads : held[s] # c
      BY <1>1 DEF IndInv, ConnectionsConserved
    <2>2. \A s, r \in Threads : held'[s] = held'[r] /\ held'[s] # NoConn => s = r
      BY <1>2, <2>1 DEF IndInv, TypeOK, ConnectionsConserved
    <2>3. \A s \in Threads : held'[s] \notin Queued'
      BY <1>1, <1>2 DEF IndInv, TypeOK, ConnectionsConserved
    <2>4. \A d \in Conns : d \in Queued' \/ \E s \in Threads : held'[s] = d
      <3> SUFFICES ASSUME NEW d \in Conns, d \notin Queued' PROVE \E s \in Threads : held'[s] = d
        OBVIOUS
      <3>1. CASE d = c
        BY <3>1, <1>2 DEF IndInv, TypeOK
      <3>2. CASE d # c
        <4>1. PICK s \in Threads : held[s] = d
          BY <3>2, <1>1 DEF IndInv, ConnectionsConserved
        <4>2. s # t
          BY <4>1, <1>2, PoolAssumption
        <4> QED
          BY <4>1, <4>2, <1>2 DEF IndInv, TypeOK
      <3> QED
        BY <3>1, <3>2
    <2> QED
      BY <1>1, <2>2, <2>3, <2>4 DEF ConnectionsConserved
  <1> QED
    BY <1>3, <1>4, <1>5 DEF IndInv

LEMMA ReleaseIndInv ==
    ASSUME IndInv, NEW t \in Threads, release(t)
    PROVE  IndInv'
  <1> DEFINE c == held[t]
  <1>1. c \in Conns /\ c \notin Queued /\ c # NoConn /\ pc[t] = "release"
    BY PoolAssumption DEF release, IndInv, TypeOK, ControlOK, ConnectionsConserved
  <1>2. /\ available' \in Seq(Conns)
        /\ \A i, j \in 1..Len(available') : available'[i] = available'[j] => i = j
        /\ Queued' = Queued \cup {c}
    BY <1>1, QueuedAfterAppend DEF release
  <1>3. TypeOK'
    BY <1>2 DEF release, IndInv, TypeOK, Points
  <1>4. ControlOK'
    <2>1. \A s \in Threads : (held[s] # NoConn <=> pc[s] \in {"using", "release"})'
      BY DEF release, IndInv, TypeOK, ControlOK
    <2>2. ASSUME NEW d \in inTxn' PROVE \E s \in Threads : pc'[s] = "using" /\ held'[s] = d
      <3>1. PICK s \in Threads : pc[s] = "using" /\ held[s] = d
        BY DEF release, IndInv, ControlOK
      <3> QED
        BY <1>1, <3>1 DEF release, IndInv, TypeOK
    <2> QED
      BY <2>1, <2>2 DEF ControlOK
  <1>5. ConnectionsConserved'
    <2>1. \A s, r \in Threads : held'[s] = held'[r] /\ held'[s] # NoConn => s = r
      BY DEF release, IndInv, TypeOK, ConnectionsConserved
    <2>2. NoConn \notin Queued'
      BY <1>1, <1>2, PoolAssumption DEF Queued, IndInv, TypeOK
    <2>3. \A s \in Threads : held'[s] \notin Queued'
      BY <1>1, <1>2, <2>2 DEF release, IndInv, TypeOK, ConnectionsConserved
    <2>4. \A d \in Conns : d \in Queued' \/ \E s \in Threads : held'[s] = d
      <3> SUFFICES ASSUME NEW d \in Conns, d \notin Queued' PROVE \E s \in Threads : held'[s] = d
        OBVIOUS
      <3>1. PICK s \in Threads : held[s] = d
        BY <1>2 DEF IndInv, ConnectionsConserved
      <3>2. s # t
        BY <1>2, <3>1
      <3> QED
        BY <3>1, <3>2 DEF release, IndInv, TypeOK
    <2> QED
      BY <1>2, <2>1, <2>3, <2>4 DEF ConnectionsConserved
  <1> QED
    BY <1>3, <1>4, <1>5 DEF IndInv

LEMMA EndTxnIndInv ==
    ASSUME IndInv, NEW t \in Threads, endTxn(t)
    PROVE  IndInv'
  <1>1. TypeOK'
    BY DEF endTxn, IndInv, TypeOK, Points
  <1>2. ControlOK'
    <2>1. \A s \in Threads : (held[s] # NoConn <=> pc[s] \in {"using", "release"})'
      BY DEF endTxn, IndInv, TypeOK, ControlOK
    <2>2. ASSUME NEW d \in inTxn' PROVE \E s \in Threads : pc'[s] = "using" /\ held'[s] = d
      <3>1. PICK s \in Threads : pc[s] = "using" /\ held[s] = d
        BY DEF endTxn, IndInv, ControlOK
      <3> QED
        BY <3>1 DEF endTxn, IndInv, TypeOK
    <2> QED
      BY <2>1, <2>2 DEF ControlOK
  <1>3. ConnectionsConserved'
    BY DEF endTxn, IndInv, ConnectionsConserved, Queued
  <1> QED
    BY <1>1, <1>2, <1>3 DEF IndInv

(* The steps that touch neither the queue nor a connection. *)
LEMMA WaitingIndInv ==
    ASSUME IndInv, NEW t \in Threads,
           (\E n \in 0..1 : call(t, n)) \/ sleep(t) \/ wakeSpuriously(t) \/ notify(t)
    PROVE  IndInv'
  <1>1. TypeOK'
    BY DEF call, sleep, wakeSpuriously, notify, IndInv, TypeOK, Points
  <1>2. \A s \in Threads : /\ pc'[s] = "using" <=> pc[s] = "using"
                           /\ pc'[s] = "release" <=> pc[s] = "release"
    BY DEF call, sleep, wakeSpuriously, notify, IndInv, TypeOK
  <1>3. UNCHANGED <<available, held, inTxn>>
    BY DEF call, sleep, wakeSpuriously, notify
  <1>4. ControlOK'
    BY <1>2, <1>3 DEF IndInv, ControlOK
  <1>5. ConnectionsConserved'
    BY <1>3 DEF IndInv, ConnectionsConserved, Queued
  <1> QED
    BY <1>1, <1>4, <1>5 DEF IndInv

LEMMA NextIndInv == IndInv /\ [Next]_vars => IndInv'
  <1> SUFFICES ASSUME IndInv, [Next]_vars PROVE IndInv'
    OBVIOUS
  <1>1. ASSUME NEW t \in Threads, threadStep(t) PROVE IndInv'
    BY <1>1, AcquireIndInv, ReleaseIndInv, EndTxnIndInv, WaitingIndInv DEF threadStep
  <1>2. ASSUME NEW c \in Conns, breakConnection(c) PROVE IndInv'
    BY <1>2 DEF breakConnection, IndInv, TypeOK, ControlOK, ConnectionsConserved, Queued
  <1>3. CASE UNCHANGED vars
    BY <1>3 DEF vars, IndInv, TypeOK, ControlOK, ConnectionsConserved, Queued
  <1> QED
    BY <1>1, <1>2, <1>3, WaitingIndInv DEF Next

(* The invariant that the theorems below rest on. *)
THEOREM Inductive == Spec => []IndInv
  BY InitIndInv, NextIndInv, PTL DEF Spec

(* The variables of the pool keep their types. *)
THEOREM TypeCorrect == Spec => []TypeOK
  BY Inductive, PTL DEF IndInv

(* No connection is lost, queued twice or held by two threads, whatever the    *)
(* pool size, the number of threads and the order of their steps.              *)
THEOREM PoolConserves == Spec => []ConnectionsConserved
  BY Inductive, PTL DEF IndInv

(* A thread never gets a connection on which a transaction is still open. *)
THEOREM PoolClean == Spec => []IdleConnectionsClean
  <1>1. IndInv => IdleConnectionsClean
    BY DEF IndInv, ControlOK, ConnectionsConserved, IdleConnectionsClean
  <1> QED
    BY <1>1, Inductive, PTL

-----------------------------------------------------------------------------
LEMMA PendingFinite == IsFiniteSet(Pending) /\ Cardinality(Pending) \in Nat
  <1>1. Pending \subseteq Threads
    BY DEF Pending
  <1>2. IsFiniteSet(Pending)
    BY <1>1, PoolAssumption, FS_Subset
  <1> QED
    BY <1>2, FS_CardinalityType

(* acquire and release move the number of idle connections and the number of   *)
(* pending wakeups together, and notify_one hands its wakeup over.             *)
LEMMA ThreadStepWakeup ==
    ASSUME IndInv, NoLostWakeup, NEW t \in Threads, threadStep(t)
    PROVE  NoLostWakeup'
  <1> USE DEF IndInv, TypeOK
  <1>0. Len(available) \in Nat /\ IsFiniteSet(Pending) /\ Cardinality(Pending) \in Nat
    BY PendingFinite
  <1>1. CASE acquire(t)
    <2>1. Len(available') = Len(available) - 1
      BY <1>1 DEF acquire
    <2>2. \A s \in Threads : pc'[s] = "asleep" => pc[s] = "asleep"
      BY <1>1 DEF acquire
    <2>3. CASE pc[t] = "acquire"
      <3>1. Pending' = Pending
        BY <1>1, <2>3 DEF acquire, Pending
      <3> QED
        BY <1>0, <2>1, <2>2, <3>1 DEF NoLostWakeup
    <2>4. CASE pc[t] = "woken"
      <3>1. Pending' = Pending \ {t} /\ t \in Pending
        BY <1>1, <2>4 DEF acquire, Pending
      <3>2. Cardinality(Pending') = Cardinality(Pending) - 1
        BY <1>0, <3>1, FS_RemoveElement
      <3> QED
        BY <1>0, <2>1, <2>2, <3>2 DEF NoLostWakeup
    <2> QED
      BY <1>1, <2>3, <2>4 DEF acquire
  <1>2. CASE sleep(t)
    <2>1. Len(available') = 0
      BY <1>2 DEF sleep
    <2>2. Cardinality(Pending') \in Nat
      <3>1. Pending' \subseteq Threads
        BY DEF Pending
      <3> QED
        BY <3>1, PoolAssumption, FS_Subset, FS_CardinalityType
    <2> QED
      BY <2>1, <2>2 DEF NoLostWakeup
  <1>3. CASE endTxn(t)
    <2>1. Pending' = Pending /\ UNCHANGED available
      BY <1>3 DEF endTxn, Pending
    <2>2. \A s \in Threads : pc'[s] = "asleep" => pc[s] = "asleep"
      BY <1>3 DEF endTxn
    <2> QED
      BY <2>1, <2>2 DEF NoLostWakeup
  <1>4. CASE release(t)
    <2>1. Len(available') = Len(available) + 1
      BY <1>4 DEF release
    <2>2. Pending' = Pending \cup {t} /\ t \notin Pending
      BY <1>4 DEF release, Pending
    <2>3. Cardinality(Pending') = Cardinality(Pending) + 1
      BY <1>0, <2>2, FS_AddElement
    <2>4. \A s \in Threads : pc'[s] = "asleep" => pc[s] = "asleep"
      BY <1>4 DEF release
    <2> QED
      BY <1>0, <2>1, <2>3, <2>4 DEF NoLostWakeup
  <1>5. CASE notify(t)
    <2> DEFINE next == IF rest[t] > 0 THEN "acquire" ELSE "idle"
    <2>1. CASE \A s \in Threads : pc[s] # "asleep"
      <3>1. \A s \in Threads : pc'[s] # "asleep"
        BY <1>5, <2>1 DEF notify
      <3> QED
        BY <3>1 DEF NoLostWakeup
    <2>2. CASE \E s \in Threads : pc[s] = "asleep"
      <3>1. PICK s \in Threads : pc[s] = "asleep" /\ pc' = [pc EXCEPT ![t] = next, ![s] = "woken"]
        BY <1>5, <2>2 DEF notify
      <3>2. s # t /\ pc[t] = "notify"
        BY <1>5, <3>1 DEF notify
      <3>3. t \in Pending /\ s \notin Pending \ {t} /\ Pending' = (Pending \ {t}) \cup {s}
        BY <3>1, <3>2 DEF Pending
      <3>4. IsFiniteSet(Pending \ {t}) /\ Cardinality(Pending \ {t}) = Cardinality(Pending) - 1
        BY <1>0, <3>3, FS_RemoveElement
      <3>5. Cardinality(Pending') = Cardinality(Pending \ {t}) + 1
        BY <3>3, <3>4, FS_AddElement
      <3>6. UNCHANGED available
        BY <1>5 DEF notify
      <3> QED
        BY <1>0, <2>2, <3>4, <3>5, <3>6 DEF NoLostWakeup
    <2> QED
      BY <2>1, <2>2
  <1> QED
    BY <1>1, <1>2, <1>3, <1>4, <1>5 DEF threadStep

LEMMA NextWakeup == IndInv /\ NoLostWakeup /\ [Next]_vars => NoLostWakeup'
  <1> SUFFICES ASSUME IndInv, NoLostWakeup, [Next]_vars PROVE NoLostWakeup'
    OBVIOUS
  <1> USE DEF IndInv, TypeOK
  <1>1. ASSUME NEW t \in Threads, NEW n \in 0..1, call(t, n) PROVE NoLostWakeup'
    <2>1. Pending' = Pending /\ UNCHANGED available
      BY <1>1 DEF call, Pending
    <2>2. \A s \in Threads : pc'[s] = "asleep" => pc[s] = "asleep"
      BY <1>1 DEF call
    <2> QED
      BY <2>1, <2>2 DEF NoLostWakeup
  <1>2. ASSUME NEW t \in Threads, wakeSpuriously(t) PROVE NoLostWakeup'
    <2>1. Pending' = Pending \cup {t} /\ t \notin Pending
      BY <1>2 DEF wakeSpuriously, Pending
    <2>2. Cardinality(Pending') = Cardinality(Pending) + 1
      BY <2>1, PendingFinite, FS_AddElement
    <2>3. \A s \in Threads : pc'[s] = "asleep" => pc[s] = "asleep"
      BY <1>2 DEF wakeSpuriously
    <2>4. UNCHANGED available /\ Len(available) \in Nat
      BY <1>2 DEF wakeSpuriously
    <2> QED
      BY <2>2, <2>3, <2>4, PendingFinite DEF NoLostWakeup
  <1>3. ASSUME NEW c \in Conns, breakConnection(c) PROVE NoLostWakeup'
    BY <1>3 DEF breakConnection, NoLostWakeup, Pending
  <1>4. CASE UNCHANGED vars
    BY <1>4 DEF vars, NoLostWakeup, Pending
  <1> QED
    BY <1>1, <1>2, <1>3, <1>4, ThreadStepWakeup DEF Next

(* No wakeup is lost: a thread that sleeps in acquire while connections are    *)
(* idle has a notify_one or a woken thread ahead of it for each of them.       *)
THEOREM NoWakeupLost == Spec => []NoLostWakeup
  <1>1. Init => NoLostWakeup
    BY DEF Init, NoLostWakeup
  <1> QED
    BY <1>1, NextWakeup, Inductive, PTL DEF Spec
=============================================================================
