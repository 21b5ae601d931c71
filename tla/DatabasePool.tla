---------------------------- MODULE DatabasePool ----------------------------
(***************************************************************************)
(* The connection pool of Database.cpp, shared by every client thread: a   *)
(* queue of idle PostgreSQL connections behind a mutex and a condition     *)
(* variable.  Each method of Database takes a connection, runs one         *)
(* transaction on it and gives it back when the Connection goes out of     *)
(* scope.  getHistory does so twice, one after the other: getUserId, then  *)
(* its own query.                                                          *)
(*                                                                         *)
(* One step is one critical section of mutex_ (cv_.wait tests, and sleeps  *)
(* if it must, without leaving the section), the end of a transaction, or  *)
(* a notify_one, which release calls after it has left the section.        *)
(***************************************************************************)
EXTENDS Naturals, Sequences, FiniteSets

CONSTANTS
    Threads,    \* client threads that call Database
    PoolSize,   \* db_pool_size
    NoConn,     \* a Connection that holds nothing
    MaxCalls    \* bound: calls of Database's methods in one execution

Conns == 1..PoolSize

(* The constructor throws when poolSize is 0. *)
ASSUME PoolAssumption ==
    /\ PoolSize \in Nat \ {0}
    /\ MaxCalls \in Nat
    /\ NoConn \notin Conns
    /\ IsFiniteSet(Threads)

VARIABLES
    available,  \* available_
    pc,         \* what a thread does next
    held,       \* the connection of the Connection object on a thread's stack
    inTxn,      \* connections with a transaction in progress
    broken,     \* connections whose server side is gone
    rest,       \* how often the current call will still acquire
    calls       \* calls so far

vars == <<available, pc, held, inTxn, broken, rest, calls>>

Points == {"idle", "acquire", "asleep", "woken", "using", "release", "notify"}

TypeOK ==
    /\ available \in Seq(Conns)
    /\ pc \in [Threads -> Points]
    /\ held \in [Threads -> Conns \cup {NoConn}]
    /\ inTxn \in SUBSET Conns
    /\ broken \in SUBSET Conns
    /\ rest \in [Threads -> 0..1]
    /\ calls \in Nat

Init ==
    /\ available = [i \in Conns |-> i]
    /\ pc = [t \in Threads |-> "idle"]
    /\ held = [t \in Threads |-> NoConn]
    /\ inTxn = {}
    /\ broken = {}
    /\ rest = [t \in Threads |-> 0]
    /\ calls = 0

-----------------------------------------------------------------------------
(* A method of Database is called; n is 1 in getHistory, when the login it     *)
(* looks up exists, and 0 in every other call.                                 *)
call(t, n) ==
    /\ pc[t] = "idle"
    /\ calls < MaxCalls
    /\ calls' = calls + 1
    /\ pc' = [pc EXCEPT ![t] = "acquire"]
    /\ rest' = [rest EXCEPT ![t] = n]
    /\ UNCHANGED <<available, held, inTxn, broken>>

(* Mutated form: the front of the queue is used and stays there. *)
acquireKeepsFront(t) ==
    /\ pc[t] \in {"acquire", "woken"}
    /\ available # <<>>
    /\ held' = [held EXCEPT ![t] = Head(available)]
    /\ inTxn' = inTxn \cup {Head(available)}
    /\ pc' = [pc EXCEPT ![t] = "using"]
    /\ UNCHANGED <<available, broken, rest, calls>>

(* acquire: cv_.wait finds a connection.  pqxx::work begins a transaction on it; *)
(* on a broken one its constructor throws, the method returns its error (and    *)
(* getUserId nothing, so that getHistory ends), and ~Connection is next.        *)
acquire(t) ==
    /\ pc[t] \in {"acquire", "woken"}
    /\ available # <<>>
    /\ held' = [held EXCEPT ![t] = Head(available)]
    /\ available' = Tail(available)
    /\ \/ /\ Head(available) \notin broken
          /\ inTxn' = inTxn \cup {Head(available)}
          /\ pc' = [pc EXCEPT ![t] = "using"]
          /\ UNCHANGED rest
       \/ /\ Head(available) \in broken
          /\ pc' = [pc EXCEPT ![t] = "release"]
          /\ rest' = [rest EXCEPT ![t] = 0]
          /\ UNCHANGED inTxn
    /\ UNCHANGED <<broken, calls>>

(* acquire: cv_.wait finds the queue empty. *)
sleep(t) ==
    /\ pc[t] \in {"acquire", "woken"}
    /\ available = <<>>
    /\ pc' = [pc EXCEPT ![t] = "asleep"]
    /\ UNCHANGED <<available, held, inTxn, broken, rest, calls>>

(* A condition variable may wake a thread for no reason; wait tests again. *)
wakeSpuriously(t) ==
    /\ pc[t] = "asleep"
    /\ pc' = [pc EXCEPT ![t] = "woken"]
    /\ UNCHANGED <<available, held, inTxn, broken, rest, calls>>

(* PostgreSQL restarts, or the network between it and the server fails.  Nothing *)
(* in the pool replaces a connection that is broken.                            *)
breakConnection(c) ==
    /\ c \notin broken
    /\ broken' = broken \cup {c}
    /\ UNCHANGED <<available, pc, held, inTxn, rest, calls>>

(* Mutated form: the transaction outlives the Connection it runs on. *)
endTxnLate(t) ==
    /\ pc[t] = "using"
    /\ pc' = [pc EXCEPT ![t] = "release"]
    /\ UNCHANGED <<available, held, inTxn, broken, rest, calls>>

(* The pqxx::work, declared after the Connection, is destroyed before it: the  *)
(* transaction has been committed, or is rolled back now.                      *)
endTxn(t) ==
    /\ pc[t] = "using"
    /\ inTxn' = inTxn \ {held[t]}
    /\ pc' = [pc EXCEPT ![t] = "release"]
    /\ UNCHANGED <<available, held, broken, rest, calls>>

(* Mutated form: notify_one only when the queue was empty. *)
releaseNotifyFirst(t) ==
    /\ pc[t] = "release"
    /\ available' = Append(available, held[t])
    /\ held' = [held EXCEPT ![t] = NoConn]
    /\ \/ available = <<>> /\ pc' = [pc EXCEPT ![t] = "notify"] /\ UNCHANGED rest
       \/ /\ available # <<>>
          /\ pc' = [pc EXCEPT ![t] = IF rest[t] > 0 THEN "acquire" ELSE "idle"]
          /\ rest' = [rest EXCEPT ![t] = 0]
    /\ UNCHANGED <<inTxn, broken, calls>>

(* Mutated form: the connection is pushed and nobody is notified. *)
releaseSilently(t) ==
    /\ pc[t] = "release"
    /\ available' = Append(available, held[t])
    /\ held' = [held EXCEPT ![t] = NoConn]
    /\ pc' = [pc EXCEPT ![t] = IF rest[t] > 0 THEN "acquire" ELSE "idle"]
    /\ rest' = [rest EXCEPT ![t] = 0]
    /\ UNCHANGED <<inTxn, broken, calls>>

(* Mutated form: the destructor of a moved-from Connection pushes its null pointer. *)
releaseNull(t) ==
    /\ pc[t] = "release"
    /\ available' = Append(Append(available, held[t]), NoConn)
    /\ held' = [held EXCEPT ![t] = NoConn]
    /\ pc' = [pc EXCEPT ![t] = "notify"]
    /\ UNCHANGED <<inTxn, broken, rest, calls>>

(* ~Connection calls release, whose critical section pushes the connection. *)
release(t) ==
    /\ pc[t] = "release"
    /\ available' = Append(available, held[t])
    /\ held' = [held EXCEPT ![t] = NoConn]
    /\ pc' = [pc EXCEPT ![t] = "notify"]
    /\ UNCHANGED <<inTxn, broken, rest, calls>>

(* cv_.notify_one() wakes one sleeper, if there is one.  getHistory goes on to   *)
(* its second acquire.                                                           *)
notify(t) ==
    /\ pc[t] = "notify"
    /\ LET next == IF rest[t] > 0 THEN "acquire" ELSE "idle"
           asleep == {s \in Threads : pc[s] = "asleep"}
       IN  \/ /\ asleep = {}
              /\ pc' = [pc EXCEPT ![t] = next]
           \/ \E s \in asleep : pc' = [pc EXCEPT ![t] = next, ![s] = "woken"]
    /\ rest' = [rest EXCEPT ![t] = 0]
    /\ UNCHANGED <<available, held, inTxn, broken, calls>>

threadStep(t) ==
    acquire(t) \/ sleep(t) \/ endTxn(t) \/ release(t) \/ notify(t)

Next ==
    \/ \E t \in Threads :
          \/ \E n \in 0..1 : call(t, n)
          \/ threadStep(t)
          \/ wakeSpuriously(t)
    \/ \E c \in Conns : breakConnection(c)

Spec == Init /\ [][Next]_vars

(* Threads are scheduled, and PostgreSQL answers or its connection is found     *)
(* broken.  Nobody has to call, and nothing wakes a sleeper but notify_one.     *)
FairSpec == Spec /\ \A t \in Threads : WF_vars(threadStep(t))

-----------------------------------------------------------------------------
(* What a thread's place in the code says about its connection. *)
ControlOK ==
    /\ \A t \in Threads : held[t] # NoConn <=> pc[t] \in {"using", "release"}
    /\ \A c \in inTxn : \E t \in Threads : pc[t] = "using" /\ held[t] = c

Queued == {available[i] : i \in 1..Len(available)}

(* Every connection is at one place: once in available_, or in the hands of    *)
(* one thread.  None is lost, none is shared by two threads.                   *)
ConnectionsConserved ==
    /\ \A i, j \in 1..Len(available) : available[i] = available[j] => i = j
    /\ \A s, t \in Threads : held[s] = held[t] /\ held[s] # NoConn => s = t
    /\ \A t \in Threads : held[t] \notin Queued
    /\ \A c \in Conns : c \in Queued \/ \E t \in Threads : held[t] = c

(* A connection in the queue has no transaction in progress: the next thread   *)
(* to take it begins one of its own (pqxx allows one at a time).               *)
IdleConnectionsClean == Queued \cap inTxn = {}

(* No lost wakeup: while a thread sleeps, every idle connection is matched by  *)
(* a thread that has been woken for it or a notify_one that is still to come.  *)
Pending == {t \in Threads : pc[t] \in {"woken", "notify"}}

NoLostWakeup ==
    (\E t \in Threads : pc[t] = "asleep") => Len(available) <= Cardinality(Pending)

(* Every call of a Database method gets its connections and returns, be it with *)
(* an error because they are broken.  The                                      *)
(* bound on the calls matters: a thread that calls acquire as a sleeper wakes  *)
(* up may take the connection first, so an endless stream of calls could keep  *)
(* a sleeper waiting.                                                          *)
CallsReturn == \A t \in Threads : pc[t] # "idle" ~> pc[t] = "idle"
=============================================================================
