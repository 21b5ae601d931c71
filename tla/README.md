# A TLA+ model of the C++ messenger

This directory holds TLA+ modules that model the messenger (server, console client,
admin window), the TLC configurations that check them on small instances, and TLAPS proofs of the
properties that matter most. Paths below are relative to the repository
(`root/app/...`, under `src/` in PROJECT.json).

Parse with `tlasany M.tla`, check with `tlc -config X.cfg M`, prove with
`tlapm M.tla` for the seven modules whose names end in `Proofs`.

## 1. Inventory of the system

| Part | State | Operations | Interacts with |
| --- | --- | --- | --- |
| Server accept loop (`server/src/Server.cpp`) | `activeClients_`, listening socket | accept below `maxClients`, start a detached thread, count it out | one ClientHandler per thread |
| ClientHandler (`server/src/ClientHandler.cpp`) | `userId_`, `role_`, `authed_`, `clientSocket_`, `sendMutex_` | `run`, the `handle*` methods, `cleanupSession`, `deliverFrame`, `disconnectFromAdmin` | registry, database; called by other handlers' threads |
| SessionRegistry (`server/src/SessionRegistry.cpp`) | user id -> vector of handler pointers, one mutex | `addSession`, `removeSession`, `deliverToUser`, `disconnectUser` | calls handlers after it has released its mutex |
| Database (`server/src/Database.cpp`) | rows of `chat.users`, `chat.messages`, `chat.audit_log` | register, login, logout, send, ban, unban, kick; queries | PostgreSQL, through the pool |
| DatabasePool (same file) | queue of idle connections, mutex, condition variable | `acquire`, `release` | every Database method |
| Framing (`libs/tcp/src/SocketOps.cpp`, `Protocol.cpp`) | a partly written or partly read frame | `encodeFrame`, `sendFrame`, `receiveFrame`, `FrameDecoder` | handlers, client, GUI |
| TcpSocket, SocketFactory (`libs/tcp/src`) | a descriptor | thin wrappers of socket calls | framing |
| Client (`client/src/Client.cpp`), UI | `pendingLogin_`, current user, receive thread | commands typed in, answers printed | the server |
| Admin GUI (`root/serverGUI`) | the table of users; a fresh connection for each command | connect, LOGIN, one command, read the reply, LOGOUT | the server |
| Server main, Config (`server/src/main.cpp`, `Config.cpp`) | settings | read, parse, validate; open pool, log, ping, listen | environment, file, command line, PostgreSQL |
| Auth | none | login and password policy | register |
| ThreadPool (`libs/threading`) | task queue, stop flag | enqueue, worker loop, drain on destruction | nobody: the server starts detached threads |
| Logger | a file under a mutex, `stderrFallback_` | configure, append a line | everybody |

What is hard here:

* **Threads meet in three places**: the registry, the database, and each other's
  handler objects. The registry's mutex is released before the handlers it has
  copied are called, so every delivery and every disconnection works on a
  snapshot that may be stale.
* **A command is several transactions and several critical sections.** A login
  is a SELECT, an UPDATE, perhaps the cleanup of the previous session, and
  `addSession`; a BAN or KICK from another thread may fall between any two.
* **Two truths about who is online**: the row's `status` and the registry. Only
  `cleanupSession` keeps them together, its database half may fail, and a crash
  loses the registry and keeps the rows.
* **Bytes arrive in pieces**, several threads write to one socket, and the
  connection may end, or a receive timeout expire, inside a frame. `send()` has no
  timeout: it waits, under `sendMutex_`, for a peer that does not read.
* **Answers have no identity.** The admin window takes the first frame after
  LOGIN for its answer, although the registry may deliver a message first, and
  gives up after 3 s while the server carries the command out.
* **Names that are used again**: handler addresses, and descriptor numbers, which
  `accept` gives out as soon as one of the two threads that close them has.
* **The pool is smaller than the number of threads**; `notify_one` is called
  outside the mutex, `getHistory` acquires twice, and a connection that breaks
  stays in the queue.

What makes each part correct:

| Part | Property |
| --- | --- |
| registry | a handler is registered once, under its own user, and not after its destruction |
| status | "online" means that somebody is connected; a ban lasts until it is lifted |
| messages | announced only when stored; every session that stays is offered them |
| moderation | only with the right as it is in the row now |
| accept loop | never more than `maxClients` handlers; every thread of a kicked connection ends; a peer that stops reading holds up only those who write to it |
| pool | connections conserved, clean when idle, no lost wakeup, every call returns |
| framing | a FIFO channel of whole payloads |
| client | shows the user the server has logged in; notices a closed connection; can be left, and ends unattended |
| admin window | its ban column is right; it always comes back to its event loop |
| start-up | serves with the numbers the operator wrote, listens only when the database answers, never hangs |

The full list of hazards, each at its line and with the properties that would
catch it, is in `PROJECT.json`.

## 2. The modules

```
Identities <- SessionRegistry \
Identities <- Database         > ClientHandler <- Server <- MCServer
                                                   Server <- ServerProofs <- ServerDeliveryProofs
DatabasePool <- MCDatabasePool, DatabasePoolProofs
FrameChannel <- (INSTANCE) Framing <- MCFraming, FramingProofs
Client <- MCClient, ClientProofs
AdminGui <- MCAdminGui, AdminGuiProofs
Startup <- MCStartup, StartupProofs
Descriptors
```

**Identities** declares users, handler addresses and `NoUser`. A handler is an
*address*: it is used again once its object is destroyed, as the code's memory is.

**SessionRegistry** models `sessions_` as a bag of handlers for each user (the
vector's order decides only the order of a loop, which the model leaves open).
`addSession`, `removeSession` and `copyHandlers` are the critical sections;
`removeSession` erases every entry of the handler, as `std::remove` does.

**Database** holds each user's `status` ("absent" before REGISTER) and `role`,
the last moderation decision on record (`audit`), the messages and the sequence
behind `messages.id`. A transaction is one step unless another thread can come
between its statements with an effect: `loginUser` and `sendMessage` are split
into their SELECT and their write. PostgreSQL runs at READ COMMITTED, so a
statement sees what has been committed by then, and an UPDATE by primary key
waits for a concurrent one and then applies. The sequence does not roll back:
an aborted INSERT uses up an id. `IntMax` is the largest id `as<int>()` accepts.
`orphaned` is auxiliary: users whose last logout was lost, or whose login was
committed and reported as failed.

**ClientHandler** gives each handler a `pc`. One step is one critical section of
the registry, one database statement that others can come between, one call on
another handler's object, the reading of a frame, or the writing of a command's
last reply. An error reply before
anything was changed is the one action `refuse`, allowed at every point where
the code can fail; errors after a change (`messageAborted`, `logoutUserFails`,
`receiverLookupFails`) are actions of their own, and so is `commitInDoubt`: the
COMMIT is done, its answer is lost, and `commit()` throws. `cleanupSession` is a
subroutine: `return` says where it goes back to (the loop, `handleLogin`, or the
destructor). Queries change nothing and are left out here; so are the contents of
replies, and logs.

A socket is "open", "closed" by either side's thread, or "stalled": its peer has
stopped reading for good (`peerStalls`) and the buffers are full. A step that
writes to a stalled socket is not enabled, whoever writes: the handler's own
reply (`reply`, and MESSAGE_OK before the delivery), a delivery, a KICKED. On a
closed socket a write fails at once, and the code ignores the result.

Two variables are auxiliary and say what a delivery owes. `owed` holds the pairs
of a stored message and a session that the receiver had at the commit; a pair is
taken out when the frame is offered to the session, or the session leaves.
`untold` holds the messages that the code gives up: `receiverLookupFails`
(`getUserByLogin` returns nothing after MESSAGE_OK) and `commitInDoubt`.

| Code | Actions |
| --- | --- |
| `run`, `sendResponse` | `receiveFrame`, `leaveRun`, `refuse`, `reply` |
| `handleRegister` | `handleRegister` |
| `handleLogin` | `handleLogin`, `loginCommits`, (cleanup), `loginRegisters` |
| `handleLogout`, `cleanupSession` | `handleLogout`, `cleanupRemoves`, `cleanupLogsOut` |
| `handleMessage`, `deliverToUser` | `handleMessage`, `messageStored` / `messageAborted`, `deliverToUser` / `receiverLookupFails`, `deliverFrame`, `loopEnds` |
| `handleBan`, `handleUnban`, `handleKick`, `disconnectUser` | `handleModeration`, `banCommits` / `unbanCommits` / `kickCommits`, `disconnectUser`, `disconnectFromAdmin`, `loopEnds` |
| `~ClientHandler` | `destroyHandler` |

A loop that reaches an object which is no longer there is undefined behaviour.
The model lets the call have no effect or land on the object that lives at the
address now; the third outcome, the death of the process, is `crash`.

**Server** composes the whole: `accept`, `threadEnds`, `crash` (the process dies
at any point and is started again; the constructors look at no row), and
`changeRole`, an administrator's UPDATE in psql as the repository's README
describes it. It states the properties.

**DatabasePool** models `acquire` and `release` with a condition variable that
wakes spuriously, the transaction on a connection, `getHistory`'s two
acquisitions, and connections that break while idle or in use: `pqxx::work` then
throws, the call fails, and the connection goes back into the queue as it is.

**FrameChannel** is the abstract specification of one direction of a connection:
what has been handed over is a prefix of what was accepted. **Framing** is the
byte level: several senders and `sendMutex_`, `sendAll`'s partial writes, the
header, the reader's partial reads and its limit, a receive timeout and a
connection that breaks anywhere. A behaviour has one of two readers,
`receiveFrame`'s loop or a `FrameDecoder` fed with what `recv` returns. The header
has the code's four bytes, written and read by the code's shifts; a byte has
`Base` values, 256 in the code. It implements `FrameChannel` (`INSTANCE
FrameChannel WITH`, the identity on `accepted` and `received`).

**Client** models both threads of the console client. `menu` is the place of
`run`'s thread, `receiver` that of `receiveLoop`. `login` and `logout` have two
steps each (the field under `userMutex_` and the send), and so has the handling
of `LOGIN_OK`, which reads `pendingLogin_` in one critical section and sets
`currentUser_` in another. The server is what this connection sees of it:
`serve` answers commands in order, `serverKicks` and `serverCloses` end it.
Commands and answers that only print are one kind each. The channels carry whole
frames in order, which is what `FrameChannel` states. `endOfInput` ends the
standard input; from then on every menu returns at once.

**AdminGui** is the admin window with the part of the server it can see. The
slots and the 5 s timer all run `sendCommandToServer` on the GUI thread, whose
waits run no event loop, so there is one command at a time; but the handler of a
connection that the window has given up lives on. Buttons depend on the table
(`click`), the end of a slot writes it (`newTable`).

| Code | Actions |
| --- | --- |
| `sendCommandToServer`, `loginForCommand` | `connectToHost` / `connectFails`, `loginAnswered` / `loginFails`, `sendFails`, `readLine`, `commandEnds` / `readTimesOut` |
| the slots | `click`, and `conclude` in each action that ends a command |
| `ClientHandler` on the other side | `handleLogin`, `loginCommits`, `handleLogout`, `handleList`, `handleAllMessages`, `handleBan`, `handleUnban`, `handleKick`, `refuse`, `sendLine`, `deliver`, `leaveRun` |

`unseen` and `later` are auxiliary: whose ban has been changed by a command of
which the window has not seen the OK, before and after the present command was
carried out.

**Startup** follows `main`: `loadServerConfig` (environment before file before
default; `stoi` and `stoul`, which read the number at the front of a text and drop
the rest, with their ranges and `stoul`'s wrap of negative numbers; validation), the port of the command line, the pool connection by
connection, `Logger::configure`, `ping`, `initSocket`. Integer widths are scaled
down. Everything that can throw has an action that ends the process. `AnyInit`
leaves every setting free in both places; `Init`, for TLC, bounds it to one
setting that is written.

**Descriptors** is `clientSocket_` as a number in the kernel's table, closed and
reset by the handler's own thread and by a moderator's, and given out again by
`accept`. In ClientHandler a socket has no number.

## 3. What is checked

| Run | Instance | Shows |
| --- | --- | --- |
| `delivery` | 2 users, 3 addresses, 3 slots, LOGIN and MESSAGE, 1 message stored or aborted, commits in doubt | `DeliveredToAllActive`, `DeliveredIsStored` |
| `moderation` | 2 users (one unregistered), 3 addresses, 2 slots, every command but MESSAGE, crashes, a demotion, commits in doubt | `RegistryExact`, `NoGhostOnline`, `ClientLimit`, `ModeratorsOnly`, `BanOutlivesSessions`, `TypeOK` |
| `progress` | 1 user, 2 handlers, LOGIN, LOGOUT, MESSAGE and KICK, peers that stall, 2 ids of which 1 fits an `int`, fair | `CommandsFinish`, `KickedLeaves` |
| `pool` | 4 threads, 2 connections that may break, 4 calls, fair | `ConnectionsConserved`, `IdleConnectionsClean`, `NoLostWakeup`, `CallsReturn`, `TypeOK` |
| `framing` | 2 senders, 2 kinds of reader, payloads of 0 to 4 bytes, limits 3 and 2, 2 byte values, a pipe of 6 bytes, fair | `ImplementsChannel`, `TooLargeIsReal`, `EverythingArrives` |
| `client` | 2 logins, 2 frames on their way in each direction, input that ends, fair | `InSync`, `ShownMeansSession`, `RunReturns`, `CloseIsNoticed`, `UnattendedEnds`, `TypeOK` |
| `gui` | the administrator and one user, 2 connections alive at once, 1 line in flight, fair | `BanColumnRight`, `GuiReturns`, `TypeOK` |
| `startup` | one setting written in one or both places, an argument, 12 numbers around every limit, each with and without characters after it, fair | `ServesAsWritten`, `ReadyWhenListening`, `StartupEnds` |
| `ban_race`, `two_sessions`, `stale_recipient` | as above, fewest commands that show it | the disagreements of section 6 |
| `fd_reuse` | 2 handlers, 1 descriptor number | likewise |

What the less obvious ones say:

* `BanColumnRight`: the table says of each user whether the user is banned, and
  says it right, unless a BAN or UNBAN was carried out whose OK the window did
  not see, or a LOGIN under way undid the ban; a LIST that was read ends the doubt.
* `GuiReturns`: the window comes back from every command, whatever the server
  does, unless messages are delivered into its session for ever.
* `ServesAsWritten`: the number at the front of what an operator writes is not
  cut, wrapped or replaced without the server refusing to start, with the
  exceptions of section 6. It says nothing of the text after that number, which
  `stoi` and `stoul` drop.
* `DeliveredToAllActive`: a session that the receiver had when a message was
  committed, and has had ever since, lacks it only while `handleMessage` is still
  at its delivery. The two exceptions are the messages in `untold`.
* `CommandsFinish`, `KickedLeaves`: a thread that has to write to a stalled peer
  may wait for ever (`Waits`), and only such a thread: nobody holds the
  registry's mutex or a database connection during a `send()`.
* `UnattendedEnds`: without a user, the client still ends with its connection.

**Why the bounds are enough to be interesting.** Two users let a connection
change from one to the other. The three slots of `delivery` let a sender meet two
other sessions of the receiver, of which one leaves, or turns into another
user's, while the loop is at the other; one message is in flight there, and the
theorem is about any number of them. In `moderation` three addresses exceed two
slots, and one can be destroyed and built anew while a loop holds it. Nothing
bounds the number of crashes. In `progress` one user is enough: two sessions of
hers write to each other and kick each other, and either may stall. Four threads on
two connections give two sleepers at once, which a lost wakeup needs, and four
calls let all of them be at work. The two byte values of `framing` let any byte of a
payload pass for one of a header; its two scripts have an empty payload, one the sender refuses and, in one of them,
one the reader refuses. Two frames in each direction let a LOGIN, a LOGOUT and a
second LOGIN overlap with their answers. Two connections let the handler of an
abandoned command meet the next command; the administrator as a user among the
listed ones lets the window ban and kick itself. The numbers of `startup` lie
below, on and above each limit of a 2-bit port, a 4-bit int and a 5-bit size,
and a database with three connections is too small for the pools that are too
large. One descriptor number is enough for it to be used again. Handler
addresses are symmetric: no action or invariant tells them apart; symmetry is
not used where liveness is checked. Nothing bounds how many connections and
commands an execution of the server has: the state space is finite without it.

**Deadlock** is checked in the server's safety runs: clients may always connect,
send or leave. In `progress` it is not: with every slot taken by a connection
whose peer has stalled, every thread may be waiting in `send()`, and that is
what the code does; `CommandsFinish` and `KickedLeaves` say who may wait. The
pool's and the framing's executions end when their bounded work is done, the
client's when the user has quit, and the start-up's when the server serves or has
ended, so their configurations switch the check off; `CallsReturn`,
`EverythingArrives`, `RunReturns` and `StartupEnds` take its place. The admin
window can always be clicked, and its run checks for deadlock.

**Fairness.** Weak fairness of each thread's own steps: the operating system
runs every thread that can run, and PostgreSQL answers. Nothing obliges a peer to
read: a step that writes to a stalled one is not enabled, so fairness does not
ask for it. `leaveRun` is fair only on a closed socket, where
`shutdown()` in `closeSocket` wakes the blocked `recv`. Nothing obliges a client
to connect, to send or to leave, and nothing obliges the process to die. In the
client only the two threads are fair: nobody has to type, and the server owes no
answer; at the end of the input a menu needs no user and its return is fair too.
The admin window's thread is fair, its 3 s timers included, and nothing is
assumed of the server. The start-up has one thread, which runs. In the framing
threads run and bytes move; no timeout has to expire. In the
pool nothing but `notify_one` is assumed to wake a sleeper, and the bound on
calls matters for `CallsReturn`: `acquire` lets a newcomer overtake a woken
thread, so an endless stream of calls could keep it waiting.

## 4. What is proved

For every value of the constants that satisfies the assumptions named in the
modules: any number of users, handler addresses, threads, connections, crashes,
payloads, settings.

| Theorem | States |
| --- | --- |
| `ServerProofs!TypeCorrect` | `Spec => []TypeOK` |
| `ServerProofs!LimitKept` | `Spec => []ClientLimit` |
| `ServerProofs!RegistryStaysExact` | `Spec => []RegistryExact` |
| `ServerProofs!OnlineIsServed` | `Spec => []NoGhostOnline` |
| `ServerProofs!BansOutliveSessions` | `Spec => BanOutlivesSessions` |
| `ServerDeliveryProofs!AnnouncedIsStored` | `Spec => []DeliveredIsStored` |
| `ServerDeliveryProofs!DeliveryComplete` | `Spec => []DeliveredToAllActive` |
| `ServerDeliveryProofs!OnlyModeratorsModerate` | `Spec => []ModeratorsOnly` |
| `DatabasePoolProofs!TypeCorrect`, `PoolConserves`, `PoolClean`, `NoWakeupLost` | the pool's four invariants |
| `FramingProofs!TooLargeStaysReal` | `Spec => []TooLargeIsReal` |
| `FramingProofs!FramingImplementsChannel` | `Spec => ImplementsChannel`, the refinement |
| `ClientProofs!TypeCorrect`, `ShownHasSession`, `ClientInSync` | the client's three invariants |
| `AdminGuiProofs!TypeCorrect`, `BanColumnStaysRight` | the window's two invariants |
| `StartupProofs!ReadyBeforeListening`, `ServedAsWritten` | the start-up's two invariants, for `AnySpec` |

*The server.* `TypeOK` is not inductive: `loginRegisters` writes
`arg[h]` to `userId[h]` and files `h` under it, which is well typed only because
a thread at that point has a login in `arg`; and `threadEnds` subtracts from
`activeClients`, which stays a natural number only because it counts the
threads. `IndInv == TypeOK /\ ControlOK /\ CountOK` adds the two: what a `pc`
says of the thread's fields, and `activeClients = Cardinality(Threads) <=
MaxClients` with a finite set of threads. `LimitKept` follows because handlers
alive are among the threads. `RegistryExact` and `NoGhostOnline` are inductive
relative to `IndInv`; for the latter a logout is matched by the session that is
left behind, or by the row no longer being "online", and a lost logout or a
crash by `orphaned`, and so is a login whose commit is in doubt.
`BanOutlivesSessions` is a property of steps and follows from `ControlOK` by
cases: few actions write a status, and `logoutUser` is the one whose guard
matters.

*Messages and moderation.* `MessagesStep` says that `chat.messages` only grows,
and `DeliveryStep` that a thread which delivers after a step either stored its
message in that step or was delivering the same message before.
`DeliveredIsStored` follows. `DeliveredToAllActive` needs `OwedOK`: a frame that is
owed to a session, and is not in `untold`, is held by a thread (`Holds`), which has
not copied the receiver's vector yet and finds the session in it, or has copied
it and has the session still to visit. `HoldsKept` says that the holder lets go
only when the frame has been offered, the session has left or the message has
become untold, `OwedStep` that whatever becomes owed is held or untold. The
theorem says no more than the property: messages whose lookup failed or whose
commit was in doubt are stored and delivered to nobody. `ModeratorsOnly`
needs `KnownUsers`: REGISTER writes the role of the row it inserts, so a user with
a session, or being logged in, must have a row already.

*The pool.* `IndInv == TypeOK /\ ControlOK /\ ConnectionsConserved`;
`ControlOK` ties `held` and `inTxn` to the thread's place. Two lemmas say what
`Tail` and `Append` do to the set of queued connections. `NoLostWakeup` is
inductive relative to `IndInv`: `release` adds one connection and one pending
notification, `notify` passes its notification to a sleeper if there is one,
`acquire` removes one of each, and a thread that goes (back) to sleep found the
queue empty. A broken connection changes none of this: it is queued, held and
released like any other, and only skips its transaction.

*The framing.* The arithmetic comes first: `RoundTrip` shows that
`readBigEndian32` gives back every size below `Base^4` that `writeBigEndian32` was
given. The frames of a byte stream would be a recursive definition, about which
nothing can be proved here by induction; `Framed(bytes, ps, k)` says instead that
offsets exist at which the stream can be cut into the frames of `ps` after the
first `k`. Lemmas say how a frame is added at the end (`FrameAdded`), what the
first bytes are (`FirstFrame`), and what is left when the first frame is taken
off (`CutFrame`). `IndInv` has `MutexOK` (only the holder of `sendMutex_` is inside
a frame), `ReaderOK` (the two loops of `receiveFrame` keep to the next frame) and
`StreamOK`: what the reader has, what is in the pipe and what is still to be
written are `Framed` by the payloads accepted and not returned; on a broken
connection the end of the stream is lost, but some bytes would complete it. A
frame that is handed over is then the next accepted payload, which is
`FrameChannel`'s step, and every other step stutters or accepts.

*The client.* `ShownMeansSession` needs `ShownOK`: while the server has no session,
an answer that clears `currentUser_` is on its way behind everything that would
set it, or has set it. This needs no assumption on how commands overlap. `InSync` needs
`InOrder`: for a user who waits for answers, one LOGIN or LOGOUT exists in the
whole round from the menu to `currentUser_` (`OneAtATime`), and wherever it is, it
agrees with `pendingLogin_`, with the local copy in `receiveLoop` and with the
server's session (`Tracked`).

*The admin window.* `TypeOK` needs `LinksOK`: which handlers exist, are registered,
or are the window's own. `BanColumnRight` needs `ConversationOK`, which speaks of
the connection in use: up to LOGIN_OK nothing but the login was asked
(`LoginOK`); then the command is either still unread and no `OK` or `USER` line
exists (`NotExecuted`), or it was carried out and every such line, read or on its
way, agrees with the rows but for what late handlers changed since, which is
`later` (`Executed`). `Users` is assumed finite, as a table is: the lines of LIST
are then a finite sequence.

*The start-up.* `StageOK` says what has been done when `main` has come as far as
`stage`: which checks the settings have passed, that `config` is what was loaded,
with the port of the command line over it, that the pool is complete, that the
ping was answered. A text is a number, a number with something after it, or
neither; the proof uses only the number at the front. The theorems are about `AnySpec`, in which all settings
are free in both places, and lemma `BoundedInputs` shows that TLC's `Spec` is a
case of it. The integer types have any widths: an int no wider than `size_t`, a
database with fewer connections than half of `size_t`'s range.

*Assumptions:* those named in the modules (`NoUser` is no user, bounds are
natural numbers, the pool has a connection, the set of threads is finite, the
sender's limit is below `Base^4`, and those above). TLC evaluates them in the runs.
The strengthenings were model-checked on the runs' instances before they were
proved.

## 5. What is only model-checked

Every invariant, the action property and the refinement that a passing run
checks have a theorem. Liveness (`CommandsFinish`, `KickedLeaves`, `CallsReturn`,
`EverythingArrives`, `RunReturns`, `CloseIsNoticed`, `UnattendedEnds`, `GuiReturns`,
`StartupEnds`) has none: it rests on fairness and ENABLED, which are outside
the prover's reach, and is checked on the small instances only.

## 6. Where the code and its documentation part

Each of these is a run that TLC must refute.

* `ban_race`: `loginUser` reads the status, then sets 'online' without looking
  again; a BAN in between is overwritten although the audit log ends with it, and
  finds no session to disconnect. A BAN between a login's commit and its
  `addSession` violates the same property: the row stays banned, the session works.
* `two_sessions`: the logout of one of two sessions sets 'offline' for both, and
  a second LOGIN on the same connection as the same user ends 'offline', because
  `cleanupSession` runs after the new login has set 'online'.
* `stale_recipient`: a connection that logs in as another user while a message
  is under way receives its former user's message. In the same window the handler
  may be destroyed, and `deliverToUser` and `disconnectUser` then call an object
  that no longer exists.
* `fd_reuse`: `disconnectFromAdmin` closes the number and resets the field later;
  the handler's thread closes the number once more, and by then it may belong to
  a connection that nobody has kicked.

The client's `InSync` says where client and server part, rather than that they
do: its two exceptions are logins and logouts that overlap (one `pendingLogin_`
serves all of them, and a late `LOGOUT_OK` clears that of the next login) and a
login that is refused while the connection has a session (the client shows
nobody, the server keeps the session). Without either exception TLC refutes it.

The delivery's, the admin window's and the start-up's properties name their
exceptions in the same way:

* The repository's README says "online delivery is sent to all active sessions". When
  `getUserByLogin` fails after MESSAGE_OK (an error of the database, or of its
  connection), and when a commit is reported as an error although it was done, the
  message is stored and no session is sent anything. A peer that does not read
  keeps the sessions behind it in the loop from their frame for as long as it
  likes.
* `Config.cpp` reports "must be an integer" and "must be a positive integer" (lines
  41 and 57), but `stoi` and `stoul` take a text that only begins with a number:
  `64k` is served as 64, `1e3` as 1, and `main` takes `8080x` for port 8080.
* A message delivered before LOGIN's answer makes the command fail; one delivered
  before the command's own answer makes `handleToggleBan` report an error for a
  BAN that was done. An administrator who bans or kicks himself reads KICKED first.
* A command given up after 3 s is carried out when its handler gets to it, also
  after later commands. A LIST cut short counts as a success, and empties the
  table or fills a part of it.
* Each line restarts the 3 s, and LIST and ALL_MESSAGES do not end on `ERROR_`
  lines; messages without end hold the window.
* The port of the command line is not validated and is cut down to 16 bits; a
  negative frame size becomes a limit near 2^64. A negative pool size does too,
  but no database has that many connections; a number so far below zero that it
  wraps to a small one (1 - 2^64, say) is served as that small one. The proof
  made this exception of `ServesAsWritten` necessary, and -31 among the numbers of
  `startup` shows it in the instance.

## 7. What is not modelled

* The order of a registry vector: a loop of the model may serve the sessions
  behind a stalled one first, the code's may not. The properties do not tell the
  two apart, because a loop with a stalled session ahead of it counts as waiting.
* An interrupted write: a stalled peer stalls for good in the model, and one that
  is only slow delays a step. One that stalls and then breaks is a slow one.
* The contents of INBOX, HISTORY and ALL_MESSAGES (order, paging, `clampLimit`),
  the text of replies, validation of names and texts: they change no state.
  `Auth` is a pair of stateless predicates on one string.
* The window's table of messages, filters and themes, and its stub build: no
  command depends on them.
* `ThreadPool`: no program creates one. `Database::markUserOffline` and
  `FrameDecoder::clear` have no caller.
* Socket wrappers, prompts, log lines, the client's command line, and the indexes
  and triggers of the SQL migrations: I/O, or run elsewhere. Trimming and comments of the configuration
  file are text; the model begins with the settings it yields.
* Limits of 2^32 bytes and more for a frame, which would truncate the header:
  `FramingAssumption` excludes them.
* A login's commit and its registration are one step in AdminGui, which is about
  the table; they are two in ClientHandler.

## 8. Plan

1. *Done:* server core (registry, database, handlers, accept loop) with commits in
   doubt and peers that stall, pool with connections that break, framing with both readers and
   timeouts, console client, admin window, start-up, descriptors; all invariants
   of the passing runs, `BanOutlivesSessions` and the refinement of `FrameChannel`
   proved.
2. *Next:* what still holds of descriptors in spite of `fd_reuse`, checked and
   proved; properties of steps behind the invariants that the proofs
   already establish as lemmas (rows are never deleted, messages only grow);
   shorter proofs where lemmas about sequences repeat between modules.
