------------------------------ MODULE AdminGui ------------------------------
(***************************************************************************)
(* The Qt admin window and the server behind it.  Every button (and the    *)
(* 5 s timer) runs sendCommandToServer on the GUI thread: connect, LOGIN,  *)
(* one command, its reply line by line, LOGOUT.  The waits of QTcpSocket   *)
(* run no event loop, so one command ends before the next begins; but the  *)
(* handler of an abandoned connection goes on, other users' messages are   *)
(* delivered into the GUI's session, and every wait ends after 3 s.        *)
(* The server side is the part of ClientHandler and Database that the GUI  *)
(* can see; this GUI is the only moderator at work.  Of a user's status    *)
(* only the ban is kept: "active" stands for online and offline, which the *)
(* GUI shows and never acts on.  A login's commit and its registration are *)
(* one step here (two in module ClientHandler): a BAN in between would     *)
(* leave a session open, which the table does not show.                    *)
(***************************************************************************)
EXTENDS Naturals, Sequences, SequencesExt

CONSTANTS
    Users,          \* the logins of chat.users
    admin,          \* CHAT_GUI_ADMIN_LOGIN
    Conns,          \* bound: connections of the GUI that the server still works on
    NoConn,         \* the GUI has no connection
    MaxInFlight     \* bound: frames the kernel buffers towards the GUI

ASSUME GuiAssumption ==
    /\ IsFiniteSet(Users) /\ admin \in Users
    /\ NoConn \notin Conns /\ MaxInFlight \in Nat \ {0}

Statuses == {"active", "banned"}

(* Frames to the server.  LIST, ALL_MESSAGES, LOGIN and LOGOUT name nobody else. *)
Frame(name, u) == [name |-> name, login |-> u]
BanCommands == [name : {"BAN", "UNBAN"}, login : Users]
Commands ==
    BanCommands \cup [name : {"KICK"}, login : Users]
    \cup [name : {"LIST", "ALL_MESSAGES"}, login : {admin}]
Frames == Commands \cup {Frame("LOGIN", admin), Frame("LOGOUT", admin)}
NoCommand == Frame("none", admin)

(* Frames to the GUI. *)
Line(text) == [text |-> text]
UserLine(u, s) == [text |-> "USER", login |-> u, status |-> s]
Lines ==
    [text : {"OK", "ERROR_", "LOGIN_OK", "LOGIN_ERROR", "LOGOUT_OK", "MESSAGE", "KICKED",
             "USERS_BEGIN", "USERS_END", "ALL_MESSAGES_END"}]
    \cup [text : {"USER"}, login : Users, status : Statuses]

NoRows == [u \in Users |-> "none"]

VARIABLES
    gui,            \* where the GUI thread is
    conn,           \* the connection of the command in progress
    cmd,            \* the command in progress
    first,          \* response[0]: "OK" or another line
    rows,           \* the USER lines of response, by login
    tableUsers,     \* the status column, by login; "none": no row
    alive,          \* connections that have a handler
    open,           \* connections whose server-side socket has not been closed
    checked,        \* connections whose LOGIN has read the row and not yet written it
    authed,         \* connections whose handler is registered as admin's session
    toServer,       \* frames the handler has not read
    reply,          \* lines the handler has still to send to an open connection
    toGui,          \* lines the GUI has not read
    status,         \* the status column of chat.users
    unseen,         \* auxiliary: users whose ban changed without the GUI knowing
    later           \* auxiliary: ... and after the command in progress was executed

windowVars == <<gui, conn, cmd, first, rows, tableUsers>>
linkVars == <<toServer, reply, toGui>>
handlerVars == <<alive, open, checked, authed>>
auxVars == <<unseen, later>>
vars == <<windowVars, linkVars, handlerVars, status, auxVars>>

TypeOK ==
    /\ gui \in {"idle", "connecting", "login", "reading", "finished"}
    /\ conn \in Conns \cup {NoConn} /\ (conn = NoConn <=> gui \in {"idle", "connecting"})
    /\ cmd \in Commands \cup {NoCommand} /\ (cmd = NoCommand <=> gui = "idle")
    /\ first \in {"none", "OK", "other"}
    /\ rows \in [Users -> Statuses \cup {"none"}]
    /\ tableUsers \in [Users -> Statuses \cup {"none"}]
    /\ authed \cup checked \subseteq alive /\ alive \subseteq Conns /\ open \subseteq Conns
    /\ toServer \in [Conns -> Seq(Frames)]
    /\ reply \in [Conns -> Seq(Lines)] /\ toGui \in [Conns -> Seq(Lines)]
    /\ \A c \in Conns : Len(toGui[c]) <= MaxInFlight + 1
    /\ status \in [Users -> Statuses]
    /\ unseen \subseteq Users /\ later \subseteq Users

Init ==
    /\ gui = "idle" /\ conn = NoConn /\ cmd = NoCommand
    /\ first = "none" /\ rows = NoRows /\ tableUsers = NoRows
    /\ alive = {} /\ open = {} /\ checked = {} /\ authed = {}
    /\ toServer = [c \in Conns |-> <<>>]
    /\ reply = [c \in Conns |-> <<>>]
    /\ toGui = [c \in Conns |-> <<>>]
    /\ status = [u \in Users |-> "active"]
    /\ unseen = {} /\ later = {}

-----------------------------------------------------------------------------
(* The GUI thread.                                                             *)

(* A slot begins: the two refreshes at any time, the others on a selected row. *)
(* The row's status decides between BAN and UNBAN.                             *)
click(c) ==
    /\ gui = "idle"
    /\ \/ c.name \in {"LIST", "ALL_MESSAGES"}
       \/ c.name = "KICK" /\ tableUsers[c.login] # "none"
       \/ c.name = "UNBAN" /\ tableUsers[c.login] = "banned"
       \/ c.name = "BAN" /\ tableUsers[c.login] = "active"
    /\ gui' = "connecting"
    /\ cmd' = c
    /\ UNCHANGED <<conn, first, rows, tableUsers, linkVars, handlerVars, status, auxVars>>

(* handleToggleBan, handleKickUser: the condition for touching the table. *)
AnsweredOk(sent) == sent /\ first = "OK"

(* Mutated form: the table is not emptied before a refresh fills it. *)
newTableMerged(sent) ==
    CASE cmd.name = "LIST" /\ sent ->
            [u \in Users |-> IF rows[u] = "none" THEN tableUsers[u] ELSE rows[u]]
      [] cmd.name = "BAN" /\ AnsweredOk(sent) -> [tableUsers EXCEPT ![cmd.login] = "banned"]
      [] cmd.name \in {"UNBAN", "KICK"} /\ AnsweredOk(sent) ->
            [tableUsers EXCEPT ![cmd.login] = "active"]
      [] OTHER -> tableUsers

(* The rest of the slot, after sendCommandToServer has returned sent. *)
newTable(sent) ==
    CASE cmd.name = "LIST" /\ sent -> rows
      [] cmd.name = "BAN" /\ AnsweredOk(sent) -> [tableUsers EXCEPT ![cmd.login] = "banned"]
      [] cmd.name \in {"UNBAN", "KICK"} /\ AnsweredOk(sent) ->
            [tableUsers EXCEPT ![cmd.login] = "active"]
      [] OTHER -> tableUsers

(* sendCommandToServer returns and the slot ends.  The socket goes with its    *)
(* scope: what it has sent may still be read, or be lost with the connection.  *)
conclude(sent) ==
    /\ gui' = "idle" /\ conn' = NoConn /\ cmd' = NoCommand
    /\ first' = "none" /\ rows' = NoRows
    /\ tableUsers' = newTable(sent)
    /\ \/ conn = NoConn /\ UNCHANGED linkVars
       \/ /\ conn # NoConn
          /\ \E kept \in Prefixes(toServer[conn]
                            \o (IF sent THEN <<Frame("LOGOUT", admin)>> ELSE <<>>)) :
                toServer' = [toServer EXCEPT ![conn] = kept]
          /\ toGui' = [toGui EXCEPT ![conn] = <<>>]
          /\ reply' = [reply EXCEPT ![conn] = <<>>]
    /\ unseen' = CASE cmd.name = "LIST" /\ sent -> later
                   [] AnsweredOk(sent) -> (unseen \ {cmd.login}) \cup later
                   [] OTHER -> unseen
    /\ later' = {}
    /\ UNCHANGED <<handlerVars, status>>

(* waitForConnected fails. *)
connectFails == gui = "connecting" /\ conclude(FALSE)

(* The connection is accepted: a handler, or ERROR_SERVER_BUSY and a closed    *)
(* socket.  loginForCommand sends LOGIN.                                       *)
connectToHost(c) ==
    /\ gui = "connecting"
    /\ c \notin alive
    /\ c = CHOOSE free \in Conns : free \notin alive
    /\ gui' = "login"
    /\ conn' = c
    /\ \/ /\ alive' = alive \cup {c}
          /\ open' = open \cup {c}
          /\ toServer' = [toServer EXCEPT ![c] = <<Frame("LOGIN", admin)>>]
          /\ toGui' = [toGui EXCEPT ![c] = <<>>]
       \/ /\ open' = open \ {c}
          /\ toServer' = [toServer EXCEPT ![c] = <<>>]
          /\ toGui' = [toGui EXCEPT ![c] = <<Line("ERROR_")>>]
          /\ UNCHANGED alive
    /\ UNCHANGED <<cmd, first, rows, tableUsers, reply, checked, authed, status, auxVars>>

(* loginForCommand: whatever comes first is taken for the answer to LOGIN.     *)
loginAnswered ==
    /\ gui = "login"
    /\ toGui[conn] # <<>>
    /\ Head(toGui[conn]) = Line("LOGIN_OK")
    /\ gui' = "reading"
    /\ toServer' = [toServer EXCEPT ![conn] = Append(@, cmd)]
    /\ toGui' = [toGui EXCEPT ![conn] = Tail(@)]
    /\ UNCHANGED <<conn, cmd, first, rows, tableUsers, reply, handlerVars, status, auxVars>>

(* Any other answer, no frame within 3 s, a closed connection, or LOGIN itself *)
(* could not be sent: nothing has been asked of the server.                    *)
loginFails == gui = "login" /\ conclude(FALSE)

(* The command was not written within 3 s; it may reach the server all the same. *)
sendFails == gui = "reading" /\ first = "none" /\ conclude(FALSE)

commandFinished(line) ==
    CASE cmd.name = "LIST" -> line.text = "USERS_END"
      [] cmd.name = "ALL_MESSAGES" -> line.text = "ALL_MESSAGES_END"
      [] OTHER -> line.text \in {"OK", "ERROR_"}

(* sendCommandToServer's loop: one line is appended to response. *)
readLine ==
    /\ gui = "reading"
    /\ toGui[conn] # <<>>
    /\ LET line == Head(toGui[conn])
       IN  /\ first' = IF first # "none" THEN first ELSE IF line.text = "OK" THEN "OK" ELSE "other"
           /\ rows' = IF line.text = "USER" THEN [rows EXCEPT ![line.login] = line.status]
                      ELSE rows
           /\ gui' = IF commandFinished(line) THEN "finished" ELSE "reading"
    /\ toGui' = [toGui EXCEPT ![conn] = Tail(@)]
    /\ UNCHANGED <<conn, cmd, tableUsers, toServer, reply, handlerVars, status, auxVars>>

(* The last line has come; or 3 s have passed, or the connection has ended:    *)
(* the function returns true all the same.                                     *)
commandEnds == gui = "finished" /\ conclude(TRUE)

(* Mutated form: waitForReadyRead without a limit ends with the connection only. *)
readWaitsForEver == gui = "reading" /\ conn \notin alive /\ conclude(TRUE)

readTimesOut == gui = "reading" /\ conclude(TRUE)

guiStep ==
    \/ connectFails \/ (\E c \in Conns : connectToHost(c))
    \/ loginAnswered \/ loginFails \/ sendFails \/ readLine \/ commandEnds \/ readTimesOut

-----------------------------------------------------------------------------
(* The server.  A line reaches the GUI while both ends are open; a send on a   *)
(* closed connection fails, and the handler takes no notice.                   *)
reaches(c) == c = conn /\ c \in open

(* The handler of c has read its next frame. *)
reads(c, name) ==
    /\ c \in (alive \cap open) \ checked
    /\ reply[c] = <<>>
    /\ toServer[c] # <<>>
    /\ Head(toServer[c]).name = name
    /\ toServer' = [toServer EXCEPT ![c] = Tail(@)]

answers(c, lines) == reply' = [reply EXCEPT ![c] = IF c = conn THEN lines ELSE <<>>]

(* handleLogin: loginUser reads the row. *)
handleLogin(c) ==
    /\ reads(c, "LOGIN")
    /\ \/ /\ status[admin] # "banned"
          /\ checked' = checked \cup {c}
          /\ UNCHANGED reply
       \/ /\ answers(c, <<Line("LOGIN_ERROR")>>)
          /\ UNCHANGED checked
    /\ UNCHANGED <<windowVars, toGui, alive, open, authed, status, auxVars>>

(* u's ban has changed on the connection c, perhaps after the command in progress *)
(* was executed.                                                                 *)
changed(c, u) ==
    /\ unseen' = unseen \cup {u}
    /\ later' = IF c # conn /\ gui \in {"reading", "finished"} /\ toServer[conn] = <<>>
                THEN later \cup {u} ELSE later

(* handleLogin: loginUser writes the row, whatever it is by now, and the session *)
(* is registered.  LOGIN_OK is still to be sent, and deliveries can overtake it. *)
loginCommits(c) ==
    /\ c \in checked
    /\ checked' = checked \ {c}
    /\ authed' = authed \cup {c}
    /\ status' = [status EXCEPT ![admin] = "active"]
    /\ \/ status[admin] = "banned" /\ changed(c, admin)
       \/ status[admin] # "banned" /\ UNCHANGED auxVars
    /\ answers(c, <<Line("LOGIN_OK")>>)
    /\ UNCHANGED <<windowVars, toServer, toGui, alive, open>>

handleLogout(c) ==
    /\ reads(c, "LOGOUT")
    /\ authed' = authed \ {c}
    /\ answers(c, <<Line("LOGOUT_OK")>>)
    /\ UNCHANGED <<windowVars, toGui, alive, open, checked, status, auxVars>>

(* handleList.  When listUsers fails, the list is empty. *)
handleList(c) ==
    /\ reads(c, "LIST")
    /\ \E listed \in {SetToSeq({UserLine(u, status[u]) : u \in Users}), <<>>} :
          answers(c, <<Line("USERS_BEGIN")>> \o listed \o <<Line("USERS_END")>>)
    /\ UNCHANGED <<windowVars, toGui, handlerVars, status, auxVars>>

(* handleAllMessages.  The lines before the last, which fill another table, are  *)
(* left out.                                                                    *)
handleAllMessages(c) ==
    /\ reads(c, "ALL_MESSAGES")
    /\ answers(c, <<Line("ALL_MESSAGES_END")>>)
    /\ UNCHANGED <<windowVars, toGui, handlerVars, status, auxVars>>

(* requireModerator refuses, or the transaction fails: nothing has changed. *)
refuse(c) ==
    /\ \E name \in {"BAN", "UNBAN", "KICK", "ALL_MESSAGES"} : reads(c, name)
    /\ answers(c, <<Line("ERROR_")>>)
    /\ UNCHANGED <<windowVars, toGui, handlerVars, status, auxVars>>

(* disconnectUser: KICKED is sent and the socket closed.  The GUI sees only    *)
(* what happens to its own account's sessions.                                 *)
disconnectUser(u) ==
    \/ /\ u = admin
       /\ open' = open \ authed
       /\ toGui' = [c \in Conns |-> IF c \in authed /\ reaches(c)
                                     THEN Append(toGui[c], Line("KICKED")) ELSE toGui[c]]
    \/ u # admin /\ UNCHANGED <<open, toGui>>

handleBan(c) ==
    /\ reads(c, "BAN")
    /\ LET u == Head(toServer[c]).login
       IN  /\ status' = [status EXCEPT ![u] = "banned"]
           /\ changed(c, u)
           /\ \/ disconnectUser(u) /\ answers(c, <<Line("OK")>>)
              \/ answers(c, <<Line("ERROR_")>>) /\ UNCHANGED <<open, toGui>>   \* commit in doubt
    /\ UNCHANGED <<windowVars, alive, checked, authed>>

handleUnban(c) ==
    /\ reads(c, "UNBAN")
    /\ LET u == Head(toServer[c]).login
       IN  /\ status[u] = "banned"
           /\ status' = [status EXCEPT ![u] = "active"]
           /\ changed(c, u)
    /\ answers(c, <<Line("OK")>>) \/ answers(c, <<Line("ERROR_")>>)
    /\ UNCHANGED <<windowVars, toGui, handlerVars>>

(* handleKick: a banned user is not found; then the sessions are counted. *)
handleKick(c) ==
    /\ reads(c, "KICK")
    /\ LET u == Head(toServer[c]).login
       IN  /\ status[u] # "banned"
           /\ \/ disconnectUser(u) /\ answers(c, <<Line("OK")>>)
              \/ answers(c, <<Line("ERROR_")>>) /\ UNCHANGED <<open, toGui>>
    /\ UNCHANGED <<windowVars, alive, checked, authed, status, auxVars>>

(* sendResponse, one line. *)
sendLine(c) ==
    /\ reply[c] # <<>>
    /\ Len(toGui[c]) < MaxInFlight
    /\ toGui' = [toGui EXCEPT ![c] = IF reaches(c) THEN Append(@, Head(reply[c])) ELSE @]
    /\ reply' = [reply EXCEPT ![c] = Tail(@)]
    /\ UNCHANGED <<windowVars, toServer, handlerVars, status, auxVars>>

(* Another user's message is delivered into the GUI's session. *)
deliver(c) ==
    /\ c \in authed
    /\ reaches(c)
    /\ Len(toGui[c]) < MaxInFlight
    /\ toGui' = [toGui EXCEPT ![c] = Append(@, Line("MESSAGE"))]
    /\ UNCHANGED <<windowVars, toServer, reply, handlerVars, status, auxVars>>

(* Mutated form: the session stays registered. *)
leaveRunRegistered(c) ==
    /\ c \in alive \ checked
    /\ reply[c] = <<>>
    /\ alive' = alive \ {c}
    /\ open' = open \ {c}
    /\ toServer' = [toServer EXCEPT ![c] = <<>>]
    /\ UNCHANGED <<windowVars, checked, authed, reply, toGui, status, auxVars>>

(* run ends: the GUI has gone, the socket was closed, or the connection broke. *)
leaveRun(c) ==
    /\ c \in alive \ checked
    /\ reply[c] = <<>>
    /\ alive' = alive \ {c}
    /\ open' = open \ {c}
    /\ authed' = authed \ {c}
    /\ toServer' = [toServer EXCEPT ![c] = <<>>]
    /\ UNCHANGED <<windowVars, checked, reply, toGui, status, auxVars>>

serverStep(c) ==
    \/ handleLogin(c) \/ loginCommits(c) \/ handleLogout(c) \/ handleList(c) \/ handleAllMessages(c)
    \/ handleBan(c) \/ handleUnban(c) \/ handleKick(c) \/ refuse(c)
    \/ sendLine(c) \/ deliver(c) \/ leaveRun(c)

Next ==
    \/ \E c \in Commands : click(c)
    \/ guiStep
    \/ \E c \in Conns : serverStep(c)

Spec == Init /\ [][Next]_vars

(* The GUI thread runs and its timers expire; nothing is assumed of the server. *)
FairSpec == Spec /\ WF_vars(guiStep)

-----------------------------------------------------------------------------
(* The window says of every user it lists whether the user is banned, and says *)
(* it right, unless a BAN or UNBAN has been carried out of which the window    *)
(* did not see the OK (a late handler, a lost line, a message in front of it), *)
(* or a LOGIN that had read the row before the ban has undone it.              *)
(* A refresh that has read the user's line ends the doubt.                     *)
BanColumnRight ==
    \A u \in Users :
        tableUsers[u] # "none" /\ u \notin unseen =>
            (tableUsers[u] = "banned" <=> status[u] = "banned")

(* The window comes back to its event loop from every command, unless messages *)
(* are delivered into its session for ever: each one restarts the 3 s.         *)
GuiReturns ==
    []<><<\E c \in Conns : deliver(c)>>_vars \/ (gui # "idle" ~> gui = "idle")
=============================================================================
