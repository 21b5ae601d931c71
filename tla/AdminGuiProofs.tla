--------------------------- MODULE AdminGuiProofs ---------------------------
(* Theorems about AdminGui, for every finite set of logins and any number of   *)
(* connections and of frames in flight.                                        *)
EXTENDS AdminGui, FiniteSetTheorems, TLAPS

(* What the operations on sequences do to their elements. *)
LEMMA TailElements ==
    ASSUME NEW S, NEW s \in Seq(S), s # <<>>
    PROVE  /\ Tail(s) \in Seq(S) /\ Head(s) \in S /\ Len(Tail(s)) = Len(s) - 1
           /\ Len(s) \in Nat
           /\ Head(s) \in Range(s) /\ Range(Tail(s)) \subseteq Range(s)
  <1>1. /\ Tail(s) \in Seq(S) /\ Head(s) \in S /\ Len(Tail(s)) = Len(s) - 1
        /\ Len(s) \in Nat \ {0} /\ Head(s) = s[1]
        /\ \A i \in 1..Len(Tail(s)) : i + 1 \in 1..Len(s) /\ Tail(s)[i] = s[i + 1]
    OBVIOUS
  <1>2. DOMAIN s = 1..Len(s) /\ DOMAIN Tail(s) = 1..Len(Tail(s))
    BY <1>1
  <1> QED
    BY <1>1, <1>2 DEF Range

LEMMA AppendElements ==
    ASSUME NEW S, NEW s \in Seq(S), NEW e \in S
    PROVE  /\ Append(s, e) \in Seq(S) /\ Len(Append(s, e)) = Len(s) + 1 /\ Len(s) \in Nat
           /\ Range(Append(s, e)) = Range(s) \cup {e}
  <1>1. /\ Append(s, e) \in Seq(S) /\ Len(Append(s, e)) = Len(s) + 1 /\ Len(s) \in Nat
        /\ Append(s, e)[Len(s) + 1] = e
        /\ \A i \in 1..Len(s) : Append(s, e)[i] = s[i]
    OBVIOUS
  <1>2. DOMAIN s = 1..Len(s) /\ DOMAIN Append(s, e) = 1..(Len(s) + 1)
    BY <1>1
  <1> QED
    BY <1>1, <1>2 DEF Range

LEMMA ConcatElements ==
    ASSUME NEW S, NEW s \in Seq(S), NEW t \in Seq(S)
    PROVE  s \o t \in Seq(S) /\ Range(s \o t) \subseteq Range(s) \cup Range(t)
  <1>1. /\ s \o t \in Seq(S) /\ Len(s \o t) = Len(s) + Len(t)
        /\ Len(s) \in Nat /\ Len(t) \in Nat
        /\ \A i \in 1..Len(s) : (s \o t)[i] = s[i]
        /\ \A i \in (Len(s) + 1)..(Len(s) + Len(t)) :
              i - Len(s) \in 1..Len(t) /\ (s \o t)[i] = t[i - Len(s)]
    OBVIOUS
  <1>2. /\ DOMAIN s = 1..Len(s) /\ DOMAIN t = 1..Len(t)
        /\ DOMAIN (s \o t) = 1..(Len(s) + Len(t))
    BY <1>1
  <1>3. \A i \in 1..(Len(s) + Len(t)) :
           i \in 1..Len(s) \/ i \in (Len(s) + 1)..(Len(s) + Len(t))
    BY <1>1
  <1> QED
    BY <1>1, <1>2, <1>3 DEF Range

LEMMA OneElement ==
    ASSUME NEW S, NEW e \in S
    PROVE  <<e>> \in Seq(S) /\ Range(<<e>>) = {e} /\ Len(<<e>>) = 1 /\ <<e>> # <<>>
  BY DEF Range

LEMMA NoElement ==
    ASSUME NEW S
    PROVE  <<>> \in Seq(S) /\ Range(<<>>) = {} /\ Len(<<>>) = 0
  BY DEF Range

LEMMA LargerSet ==
    ASSUME NEW S, NEW T, S \subseteq T, NEW s \in Seq(S)
    PROVE  s \in Seq(T)
  <1>1. Len(s) \in Nat /\ s \in [1..Len(s) -> S]
    OBVIOUS
  <1>2. s \in [1..Len(s) -> T]
    BY <1>1
  <1> QED
    BY <1>1, <1>2

LEMMA PrefixType ==
    ASSUME NEW S, NEW s \in Seq(S), NEW p \in Prefixes(s)
    PROVE  p \in Seq(S)
  <1>1. PICK n \in 0..Len(s) : p = SubSeq(s, 1, n)
    BY DEF Prefixes
  <1> QED
    BY <1>1

(* The lines of LIST are those of the rows, in some order. *)
LEMMA ListedLines ==
    ASSUME status \in [Users -> Statuses],
           NEW L, L = {UserLine(u, status[u]) : u \in Users}
    PROVE  /\ SetToSeq(L) \in Seq(L)
           /\ Range(SetToSeq(L)) \subseteq L
  <1>1. IsFiniteSet(L)
    <2> DEFINE f == [u \in Users |-> UserLine(u, status[u])]
    <2>1. f \in Surjection(Users, L)
      BY DEF Surjection
    <2> QED
      BY <2>1, FS_Surjection, GuiAssumption
  <1>2. PICK n \in Nat : ExistsBijection(1..n, L)
    BY <1>1, FS_NatBijection
  <1>3. Cardinality(L) = n
    BY <1>2, FS_CountingElements
  <1>4. PICK g \in [1..n -> L] : IsInjective(g)
    BY <1>2 DEF ExistsBijection, Bijection, Injection
  <1>5. SetToSeq(L) \in [1..n -> L]
    BY <1>3, <1>4 DEF SetToSeq
  <1>6. ASSUME NEW f \in [1..n -> L] PROVE f \in Seq(L) /\ Range(f) \subseteq L
    <2>1. f \in Seq(L)
      OBVIOUS
    <2>2. DOMAIN f = 1..n
      OBVIOUS
    <2> QED
      BY <2>1, <2>2 DEF Range
  <1> QED
    BY <1>5, <1>6

-----------------------------------------------------------------------------
(* Nothing is on its way on a connection that the GUI has left, and only the    *)
(* KICKED that closes a connection can exceed what the kernel buffers.          *)
LinksOK ==
    \A c \in Conns :
        /\ c # conn => reply[c] = <<>> /\ toGui[c] = <<>>
        /\ c \in open => Len(toGui[c]) <= MaxInFlight

LEMMA LinesTyped ==
    /\ \A t \in {"OK", "ERROR_", "LOGIN_OK", "LOGIN_ERROR", "LOGOUT_OK", "MESSAGE",
                 "KICKED", "USERS_BEGIN", "USERS_END", "ALL_MESSAGES_END"} :
          Line(t) \in Lines
    /\ \A t : Line(t).text = t
    /\ \A u \in Users, s \in Statuses :
          /\ UserLine(u, s) \in Lines /\ UserLine(u, s).text = "USER"
          /\ UserLine(u, s).login = u /\ UserLine(u, s).status = s
    /\ \A line \in Lines : line.text = "USER" => line.login \in Users /\ line.status \in Statuses
  BY DEF Line, UserLine, Lines

LEMMA FramesTyped ==
    /\ Commands \subseteq Frames /\ NoCommand \notin Commands
    /\ Frame("LOGIN", admin) \in Frames /\ Frame("LOGOUT", admin) \in Frames
    /\ Frame("LOGIN", admin).name = "LOGIN" /\ Frame("LOGOUT", admin).name = "LOGOUT"
    /\ NoCommand.name = "none"
    /\ \A f \in Frames : f.login \in Users
    /\ \A f \in Commands : f.name \in {"BAN", "UNBAN", "KICK", "LIST", "ALL_MESSAGES"}
  BY GuiAssumption DEF Frames, Commands, BanCommands, Frame, NoCommand

(* A handler reads the next frame of its own connection. *)
LEMMA ReadsType ==
    ASSUME TypeOK, NEW c \in Conns, NEW name, reads(c, name)
    PROVE  /\ c \in alive /\ c \in open /\ c \notin checked
           /\ reply[c] = <<>>
           /\ toServer[c] # <<>> /\ Head(toServer[c]) \in Frames
           /\ Head(toServer[c]).name = name
           /\ toServer' \in [Conns -> Seq(Frames)]
           /\ toServer'[c] = Tail(toServer[c])
           /\ \A d \in Conns : d # c => toServer'[d] = toServer[d]
  <1>1. toServer[c] \in Seq(Frames) /\ toServer[c] # <<>>
    BY DEF TypeOK, reads
  <1>2. Tail(toServer[c]) \in Seq(Frames) /\ Head(toServer[c]) \in Frames
    BY <1>1, TailElements
  <1> QED
    BY <1>1, <1>2 DEF TypeOK, reads

(* Its answer is on its way if the GUI is still there. *)
LEMMA AnswersType ==
    ASSUME TypeOK, NEW c \in Conns, NEW lines \in Seq(Lines), answers(c, lines)
    PROVE  /\ reply' \in [Conns -> Seq(Lines)]
           /\ reply'[c] = IF c = conn THEN lines ELSE <<>>
           /\ \A d \in Conns : d # c => reply'[d] = reply[d]
  <1>1. <<>> \in Seq(Lines)
    BY NoElement
  <1> QED
    BY <1>1 DEF TypeOK, answers

(* disconnectUser closes the sessions of the GUI's account, if it is named. *)
LEMMA DisconnectType ==
    ASSUME TypeOK, LinksOK, NEW u, disconnectUser(u)
    PROVE  /\ open' \subseteq open
           /\ toGui' \in [Conns -> Seq(Lines)]
           /\ \A d \in Conns :
                 /\ Len(toGui'[d]) <= MaxInFlight + 1
                 /\ \/ toGui'[d] = toGui[d]
                    \/ d = conn /\ d \notin open' /\ toGui'[d] = Append(toGui[d], Line("KICKED"))
  <1>1. CASE u = admin
    <2>1. \A d \in Conns : /\ Append(toGui[d], Line("KICKED")) \in Seq(Lines)
                           /\ Len(Append(toGui[d], Line("KICKED"))) = Len(toGui[d]) + 1
                           /\ Len(toGui[d]) \in Nat
      BY LinesTyped, AppendElements DEF TypeOK
    <2>2. toGui' \in [Conns -> Seq(Lines)]
      BY <1>1, <2>1 DEF disconnectUser, TypeOK
    <2>3. ASSUME NEW d \in Conns
          PROVE  /\ Len(toGui'[d]) <= MaxInFlight + 1
                 /\ \/ toGui'[d] = toGui[d]
                    \/ d = conn /\ d \notin open' /\ toGui'[d] = Append(toGui[d], Line("KICKED"))
      <3>1. CASE d \in authed /\ reaches(d)
        <4>1. d = conn /\ d \in open /\ d \notin open' /\ toGui'[d] = Append(toGui[d], Line("KICKED"))
          BY <1>1, <3>1 DEF disconnectUser, reaches
        <4> QED
          BY <2>1, <4>1, GuiAssumption DEF LinksOK
      <3>2. CASE ~ (d \in authed /\ reaches(d))
        BY <1>1, <3>2 DEF disconnectUser, TypeOK
      <3> QED
        BY <3>1, <3>2
    <2> QED
      BY <1>1, <2>2, <2>3 DEF disconnectUser
  <1>2. CASE u # admin
    BY <1>2 DEF disconnectUser, TypeOK
  <1> QED
    BY <1>1, <1>2

(* What changes a ban concerns the auxiliary variables only. *)
LEMMA ChangedType ==
    ASSUME TypeOK, NEW c, NEW u \in Users, changed(c, u)
    PROVE  unseen' \subseteq Users /\ later' \subseteq Users
  BY DEF TypeOK, changed

(* Whatever sendCommandToServer returns, the slot ends well-typed. *)
LEMMA ConcludeType ==
    ASSUME TypeOK, LinksOK, NEW sent \in BOOLEAN, gui # "idle", conclude(sent)
    PROVE  TypeOK' /\ LinksOK'
  <1>1. cmd \in Commands /\ cmd.login \in Users
    BY FramesTyped DEF TypeOK
  <1>2. tableUsers' \in [Users -> Statuses \cup {"none"}]
    BY <1>1 DEF conclude, newTable, TypeOK, Statuses
  <1>3. unseen' \subseteq Users /\ later' = {}
    BY DEF conclude, TypeOK
  <1>4. /\ toServer' \in [Conns -> Seq(Frames)]
        /\ reply' \in [Conns -> Seq(Lines)]
        /\ toGui' \in [Conns -> Seq(Lines)]
        /\ \A c \in Conns : reply'[c] = <<>> /\ toGui'[c] = <<>>
    <2>1. CASE conn = NoConn
      <3>1. UNCHANGED linkVars
        BY <2>1 DEF conclude
      <3> QED
        BY <2>1, <3>1, GuiAssumption DEF TypeOK, LinksOK, linkVars
    <2>2. CASE conn # NoConn
      <3>1. conn \in Conns
        BY <2>2 DEF TypeOK
      <3> DEFINE rest == IF sent THEN <<Frame("LOGOUT", admin)>> ELSE <<>>
      <3>2. rest \in Seq(Frames)
        BY FramesTyped, OneElement, NoElement
      <3>3. toServer[conn] \o rest \in Seq(Frames)
        BY <3>1, <3>2 DEF TypeOK
      <3>4. PICK kept \in Prefixes(toServer[conn] \o rest) :
               toServer' = [toServer EXCEPT ![conn] = kept]
        BY <2>2 DEF conclude
      <3>5. kept \in Seq(Frames)
        BY <3>3, <3>4, PrefixType
      <3>6. <<>> \in Seq(Lines)
        BY NoElement
      <3>7. /\ toGui' = [toGui EXCEPT ![conn] = <<>>]
            /\ reply' = [reply EXCEPT ![conn] = <<>>]
        BY <2>2 DEF conclude
      <3> HIDE DEF rest
      <3> QED
        BY <3>1, <3>4, <3>5, <3>6, <3>7 DEF TypeOK, LinksOK
    <2> QED
      BY <2>1, <2>2
  <1>5. \A c \in Conns : Len(toGui'[c]) <= MaxInFlight
    BY <1>4, NoElement, GuiAssumption
  <1>6. rows' \in [Users -> Statuses \cup {"none"}] /\ NoCommand \notin Commands
    BY FramesTyped DEF conclude, NoRows
  <1> QED
    BY <1>2, <1>3, <1>4, <1>5, <1>6, GuiAssumption
       DEF conclude, TypeOK, LinksOK, handlerVars

(* The other steps of the GUI thread. *)
LEMMA GuiStepType ==
    ASSUME TypeOK, LinksOK, guiStep
    PROVE  TypeOK' /\ LinksOK'
  <1>1. ASSUME NEW c \in Conns, connectToHost(c) PROVE TypeOK' /\ LinksOK'
    <2>1. conn = NoConn /\ c # NoConn /\ c \notin alive
      BY <1>1, GuiAssumption DEF connectToHost, TypeOK
    <2>2. /\ toServer' \in [Conns -> Seq(Frames)]
          /\ toGui' \in [Conns -> Seq(Lines)]
          /\ alive \subseteq alive' /\ alive' \subseteq Conns /\ open' \subseteq open \cup {c}
          /\ \A d \in Conns : d # c => toGui'[d] = toGui[d]
          /\ Len(toGui'[c]) <= 1
      <3>1. /\ <<>> \in Seq(Lines) /\ <<>> \in Seq(Frames)
            /\ <<Line("ERROR_")>> \in Seq(Lines) /\ <<Frame("LOGIN", admin)>> \in Seq(Frames)
            /\ Len(<<Line("ERROR_")>>) = 1 /\ Len(<<>>) = 0
        BY NoElement, OneElement, LinesTyped, FramesTyped
      <3>2. CASE /\ alive' = alive \cup {c}
                 /\ open' = open \cup {c}
                 /\ toServer' = [toServer EXCEPT ![c] = <<Frame("LOGIN", admin)>>]
                 /\ toGui' = [toGui EXCEPT ![c] = <<>>]
        BY <3>1, <3>2 DEF TypeOK
      <3>3. CASE /\ open' = open \ {c}
                 /\ toServer' = [toServer EXCEPT ![c] = <<>>]
                 /\ toGui' = [toGui EXCEPT ![c] = <<Line("ERROR_")>>]
                 /\ UNCHANGED alive
        BY <3>1, <3>3 DEF TypeOK
      <3> QED
        BY <1>1, <3>2, <3>3 DEF connectToHost
    <2>3. Len(toGui'[c]) <= MaxInFlight
      <3>1. Len(toGui'[c]) \in Nat
        BY <2>2
      <3> QED
        BY <2>2, <3>1, GuiAssumption
    <2>4. /\ gui' = "login" /\ conn' = c /\ gui = "connecting"
          /\ UNCHANGED <<cmd, first, rows, tableUsers, reply, checked, authed, status, auxVars>>
      BY <1>1 DEF connectToHost
    <2>5. LinksOK'
      <3>1. \A d \in Conns : d # conn
        BY <2>1, GuiAssumption
      <3>2. \A d \in Conns : d # c /\ d \in open' => d \in open
        BY <2>2
      <3> QED
        BY <2>2, <2>3, <2>4, <3>1, <3>2 DEF LinksOK
    <2>6. \A d \in Conns : Len(toGui'[d]) <= MaxInFlight + 1
      <3>1. \A d \in Conns : Len(toGui'[d]) \in Nat
        BY <2>2
      <3>2. \A d \in Conns : Len(toGui[d]) <= MaxInFlight + 1
        BY DEF TypeOK
      <3>3. Len(toGui'[c]) <= MaxInFlight + 1
        BY <2>3, <3>1, GuiAssumption
      <3>4. \A d \in Conns : d # c => Len(toGui'[d]) <= MaxInFlight + 1
        BY <2>2, <3>2
      <3> QED
        BY <3>3, <3>4
    <2> QED
      BY <2>1, <2>2, <2>4, <2>5, <2>6 DEF TypeOK, auxVars
  <1>2. CASE loginAnswered
    <2>1. conn \in Conns /\ toGui[conn] \in Seq(Lines) /\ cmd \in Frames
      BY <1>2, FramesTyped DEF loginAnswered, TypeOK
    <2>2. /\ Append(toServer[conn], cmd) \in Seq(Frames)
          /\ Tail(toGui[conn]) \in Seq(Lines) /\ Len(toGui[conn]) \in Nat
          /\ Len(Tail(toGui[conn])) = Len(toGui[conn]) - 1
      BY <1>2, <2>1, AppendElements, TailElements DEF loginAnswered, TypeOK
    <2>3. /\ toServer' \in [Conns -> Seq(Frames)] /\ toGui' \in [Conns -> Seq(Lines)]
          /\ toGui'[conn] = Tail(toGui[conn])
          /\ \A d \in Conns : d # conn => toGui'[d] = toGui[d]
      BY <1>2, <2>1, <2>2 DEF loginAnswered, TypeOK
    <2>4. LinksOK'
      BY <1>2, <2>1, <2>2, <2>3, GuiAssumption DEF loginAnswered, LinksOK, handlerVars
    <2>5. \A d \in Conns : Len(toGui'[d]) <= MaxInFlight + 1
      <3>1. \A d \in Conns : Len(toGui[d]) <= MaxInFlight + 1
        BY DEF TypeOK
      <3>2. Len(toGui'[conn]) <= MaxInFlight + 1
        BY <2>1, <2>2, <2>3, <3>1, GuiAssumption
      <3>3. \A d \in Conns : d # conn => Len(toGui'[d]) <= MaxInFlight + 1
        BY <2>3, <3>1
      <3> QED
        BY <3>2, <3>3
    <2> QED
      BY <1>2, <2>1, <2>3, <2>4, <2>5 DEF loginAnswered, TypeOK, handlerVars, auxVars
  <1>3. CASE readLine
    <2>1. conn \in Conns /\ toGui[conn] \in Seq(Lines) /\ toGui[conn] # <<>>
      BY <1>3 DEF readLine, TypeOK
    <2>2. /\ Tail(toGui[conn]) \in Seq(Lines) /\ Len(toGui[conn]) \in Nat
          /\ Len(Tail(toGui[conn])) = Len(toGui[conn]) - 1
          /\ Head(toGui[conn]) \in Lines
      BY <2>1, TailElements
    <2>3. /\ toGui' \in [Conns -> Seq(Lines)]
          /\ toGui'[conn] = Tail(toGui[conn])
          /\ \A d \in Conns : d # conn => toGui'[d] = toGui[d]
      BY <1>3, <2>1, <2>2 DEF readLine, TypeOK
    <2>4. LinksOK'
      BY <1>3, <2>1, <2>2, <2>3, GuiAssumption DEF readLine, LinksOK, handlerVars
    <2>5. \A d \in Conns : Len(toGui'[d]) <= MaxInFlight + 1
      <3>1. \A d \in Conns : Len(toGui[d]) <= MaxInFlight + 1
        BY DEF TypeOK
      <3>2. Len(toGui'[conn]) <= MaxInFlight + 1
        BY <2>1, <2>2, <2>3, <3>1, GuiAssumption
      <3>3. \A d \in Conns : d # conn => Len(toGui'[d]) <= MaxInFlight + 1
        BY <2>3, <3>1
      <3> QED
        BY <3>2, <3>3
    <2>6. rows' \in [Users -> Statuses \cup {"none"}]
      BY <1>3, <2>2, LinesTyped DEF readLine, TypeOK
    <2>7. gui' \in {"reading", "finished"} /\ first' \in {"none", "OK", "other"}
      BY <1>3 DEF readLine, TypeOK
    <2> QED
      BY <1>3, <2>1, <2>3, <2>4, <2>5, <2>6, <2>7 DEF readLine, TypeOK, handlerVars, auxVars
  <1> QED
    BY <1>1, <1>2, <1>3, ConcludeType
       DEF guiStep, connectFails, loginFails, sendFails, commandEnds, readTimesOut

(* A command read and answered in one go.  What the action does to the rest is  *)
(* well-typed, and the sockets it closes are closed.                            *)
LEMMA AnsweredType ==
    ASSUME TypeOK, LinksOK, NEW c \in Conns, NEW name, reads(c, name),
           NEW lines \in Seq(Lines), answers(c, lines),
           UNCHANGED <<windowVars, alive>>,
           \/ UNCHANGED <<open, toGui>> \/ \E u : disconnectUser(u),
           checked' = checked, authed' \subseteq authed,
           status' \in [Users -> Statuses], unseen' \subseteq Users, later' \subseteq Users
    PROVE  TypeOK' /\ LinksOK'
  <1>1. toServer' \in [Conns -> Seq(Frames)]
    BY ReadsType
  <1>2. /\ reply' \in [Conns -> Seq(Lines)]
        /\ reply'[c] = IF c = conn THEN lines ELSE <<>>
        /\ \A d \in Conns : d # c => reply'[d] = reply[d]
    BY AnswersType
  <1>3. /\ open' \subseteq open
        /\ toGui' \in [Conns -> Seq(Lines)]
        /\ \A d \in Conns :
              /\ Len(toGui'[d]) <= MaxInFlight + 1
              /\ toGui'[d] = toGui[d] \/ (d = conn /\ d \notin open')
    <2>1. CASE UNCHANGED <<open, toGui>>
      BY <2>1 DEF TypeOK
    <2>2. CASE \E u : disconnectUser(u)
      BY <2>2, DisconnectType
    <2> QED
      BY <2>1, <2>2
  <1>4. LinksOK'
    BY <1>2, <1>3 DEF LinksOK, windowVars
  <1> QED
    BY <1>1, <1>2, <1>3, <1>4 DEF TypeOK, windowVars

LEMMA ServerStepType ==
    ASSUME TypeOK, LinksOK, NEW c \in Conns, serverStep(c)
    PROVE  TypeOK' /\ LinksOK'
  <1> DEFINE L(t) == <<Line(t)>>
  <1>1. \A t \in {"OK", "ERROR_", "LOGIN_OK", "LOGIN_ERROR", "LOGOUT_OK", "ALL_MESSAGES_END"} :
          L(t) \in Seq(Lines)
    BY LinesTyped, OneElement
  <1> HIDE DEF L
  <1>2. CASE handleLogin(c)
    <2>1. reads(c, "LOGIN") /\ UNCHANGED <<windowVars, toGui, alive, open, authed, status, auxVars>>
      BY <1>2 DEF handleLogin
    <2>2. c \in alive /\ toServer' \in [Conns -> Seq(Frames)]
      BY <2>1, ReadsType
    <2>3. /\ reply' \in [Conns -> Seq(Lines)]
          /\ \A d \in Conns : d # conn => reply'[d] = <<>>
          /\ checked' \subseteq alive
      <3>1. CASE answers(c, L("LOGIN_ERROR")) /\ checked' = checked
        BY <1>1, <3>1, AnswersType DEF TypeOK, LinksOK
      <3>2. CASE checked' = checked \cup {c} /\ reply' = reply
        BY <2>2, <3>2 DEF TypeOK, LinksOK
      <3> QED
        BY <1>2, <3>1, <3>2 DEF handleLogin, L
    <2> QED
      BY <2>1, <2>2, <2>3 DEF TypeOK, LinksOK, windowVars, auxVars
  <1>3. CASE loginCommits(c)
    <2>1. c \in alive /\ c \in checked
      BY <1>3 DEF loginCommits, TypeOK
    <2>2. /\ reply' \in [Conns -> Seq(Lines)]
          /\ \A d \in Conns : d # conn => reply'[d] = <<>>
      <3>1. answers(c, L("LOGIN_OK"))
        BY <1>3 DEF loginCommits, L
      <3> QED
        BY <1>1, <3>1, AnswersType DEF LinksOK
    <2>3. status' \in [Users -> Statuses]
      BY <1>3 DEF loginCommits, TypeOK, Statuses
    <2>4. unseen' \subseteq Users /\ later' \subseteq Users
      <3>1. CASE changed(c, admin)
        BY <3>1, ChangedType, GuiAssumption
      <3>2. CASE UNCHANGED auxVars
        BY <3>2 DEF TypeOK, auxVars
      <3> QED
        BY <1>3, <3>1, <3>2 DEF loginCommits
    <2> QED
      BY <1>3, <2>1, <2>2, <2>3, <2>4 DEF loginCommits, TypeOK, LinksOK, windowVars
  <1>4. CASE handleLogout(c)
    <2>1. reads(c, "LOGOUT") /\ answers(c, L("LOGOUT_OK")) /\ authed' \subseteq authed
      BY <1>4 DEF handleLogout, L
    <2>2. /\ UNCHANGED <<windowVars, alive, open, toGui, checked>>
          /\ status' \in [Users -> Statuses] /\ unseen' \subseteq Users /\ later' \subseteq Users
      BY <1>4 DEF handleLogout, TypeOK, auxVars
    <2> QED
      BY <1>1, <2>1, <2>2, AnsweredType
  <1>5. CASE handleList(c)
    <2>1. PICK listed \in {SetToSeq({UserLine(u, status[u]) : u \in Users}), <<>>} :
             answers(c, <<Line("USERS_BEGIN")>> \o listed \o <<Line("USERS_END")>>)
      BY <1>5 DEF handleList
    <2>2. {UserLine(u, status[u]) : u \in Users} \subseteq Lines
      BY LinesTyped DEF TypeOK
    <2>3. listed \in Seq(Lines)
      <3>1. <<>> \in Seq(Lines)
        BY NoElement
      <3>2. SetToSeq({UserLine(u, status[u]) : u \in Users}) \in
               Seq({UserLine(u, status[u]) : u \in Users})
        BY ListedLines DEF TypeOK
      <3> QED
        BY <2>2, <3>1, <3>2, LargerSet
    <2>4. <<Line("USERS_BEGIN")>> \in Seq(Lines) /\ <<Line("USERS_END")>> \in Seq(Lines)
      BY LinesTyped, OneElement
    <2>5. <<Line("USERS_BEGIN")>> \o listed \o <<Line("USERS_END")>> \in Seq(Lines)
      BY <2>3, <2>4
    <2>6. /\ reads(c, "LIST") /\ UNCHANGED <<windowVars, alive, open, toGui, checked, authed>>
          /\ status' \in [Users -> Statuses] /\ unseen' \subseteq Users /\ later' \subseteq Users
      BY <1>5 DEF handleList, TypeOK, auxVars, handlerVars
    <2> QED
      BY <2>1, <2>5, <2>6, AnsweredType
  <1>6. CASE handleAllMessages(c) \/ refuse(c)
    <2>1. PICK name : reads(c, name)
      BY <1>6 DEF handleAllMessages, refuse
    <2>2. answers(c, L("ALL_MESSAGES_END")) \/ answers(c, L("ERROR_"))
      BY <1>6 DEF handleAllMessages, refuse, L
    <2>3. /\ UNCHANGED <<windowVars, alive, open, toGui, checked, authed>>
          /\ status' \in [Users -> Statuses] /\ unseen' \subseteq Users /\ later' \subseteq Users
      BY <1>6 DEF handleAllMessages, refuse, TypeOK, auxVars, handlerVars
    <2> QED
      BY <1>1, <2>1, <2>2, <2>3, AnsweredType
  <1>7. CASE handleBan(c) \/ handleUnban(c) \/ handleKick(c)
    <2>1. PICK name : reads(c, name)
      BY <1>7 DEF handleBan, handleUnban, handleKick
    <2>2. Head(toServer[c]).login \in Users
      BY <2>1, ReadsType, FramesTyped
    <2>3. answers(c, L("OK")) \/ answers(c, L("ERROR_"))
      BY <1>7 DEF handleBan, handleUnban, handleKick, L
    <2>4. UNCHANGED <<open, toGui>> \/ \E u : disconnectUser(u)
      BY <1>7 DEF handleBan, handleUnban, handleKick, handlerVars
    <2>5. UNCHANGED <<windowVars, alive, checked, authed>> /\ status' \in [Users -> Statuses]
      BY <1>7 DEF handleBan, handleUnban, handleKick, handlerVars, TypeOK, Statuses
    <2>6. unseen' \subseteq Users /\ later' \subseteq Users
      <3>1. CASE changed(c, Head(toServer[c]).login)
        BY <2>2, <3>1, ChangedType
      <3>2. CASE UNCHANGED auxVars
        BY <3>2 DEF TypeOK, auxVars
      <3> QED
        BY <1>7, <3>1, <3>2 DEF handleBan, handleUnban, handleKick
    <2> QED
      BY <1>1, <2>1, <2>3, <2>4, <2>5, <2>6, AnsweredType
  <1>8. CASE sendLine(c)
    <2>1. /\ reply[c] \in Seq(Lines) /\ reply[c] # <<>> /\ toGui[c] \in Seq(Lines)
          /\ c = conn
      BY <1>8 DEF sendLine, TypeOK, LinksOK
    <2>2. Tail(reply[c]) \in Seq(Lines) /\ Head(reply[c]) \in Lines
      BY <2>1, TailElements
    <2>3. /\ Append(toGui[c], Head(reply[c])) \in Seq(Lines) /\ Len(toGui[c]) \in Nat
          /\ Len(Append(toGui[c], Head(reply[c]))) = Len(toGui[c]) + 1
      BY <2>1, <2>2, AppendElements
    <2>4. /\ toGui' \in [Conns -> Seq(Lines)] /\ reply' \in [Conns -> Seq(Lines)]
          /\ \A d \in Conns : d # c => toGui'[d] = toGui[d] /\ reply'[d] = reply[d]
      BY <1>8, <2>2, <2>3 DEF sendLine, TypeOK
    <2>5. Len(toGui'[c]) <= MaxInFlight
      BY <1>8, <2>3, GuiAssumption DEF sendLine, TypeOK
    <2>6. Len(toGui'[c]) <= MaxInFlight + 1
      BY <2>4, <2>5, GuiAssumption
    <2>7. UNCHANGED <<windowVars, toServer, handlerVars, status, auxVars>>
      BY <1>8 DEF sendLine
    <2>8. LinksOK'
      BY <2>1, <2>4, <2>5, <2>7 DEF LinksOK, windowVars, handlerVars
    <2> QED
      BY <2>4, <2>6, <2>7, <2>8 DEF TypeOK, windowVars, handlerVars, auxVars
  <1>9. CASE deliver(c)
    <2>1. toGui[c] \in Seq(Lines) /\ c = conn
      BY <1>9 DEF deliver, reaches, TypeOK
    <2>2. /\ Append(toGui[c], Line("MESSAGE")) \in Seq(Lines) /\ Len(toGui[c]) \in Nat
          /\ Len(Append(toGui[c], Line("MESSAGE"))) = Len(toGui[c]) + 1
      BY <2>1, LinesTyped, AppendElements
    <2>3. /\ toGui' \in [Conns -> Seq(Lines)]
          /\ \A d \in Conns : d # c => toGui'[d] = toGui[d]
      BY <1>9, <2>2 DEF deliver, TypeOK
    <2>4. Len(toGui'[c]) <= MaxInFlight
      BY <1>9, <2>2, GuiAssumption DEF deliver, TypeOK
    <2>5. Len(toGui'[c]) <= MaxInFlight + 1
      BY <2>3, <2>4, GuiAssumption
    <2>6. UNCHANGED <<windowVars, toServer, reply, handlerVars, status, auxVars>>
      BY <1>9 DEF deliver
    <2>7. LinksOK'
      BY <2>1, <2>3, <2>4, <2>6 DEF LinksOK, windowVars, handlerVars
    <2> QED
      BY <2>3, <2>5, <2>6, <2>7 DEF TypeOK, windowVars, handlerVars, auxVars
  <1>10. CASE leaveRun(c)
    <2>1. toServer' \in [Conns -> Seq(Frames)]
      BY <1>10, NoElement DEF leaveRun, TypeOK
    <2> QED
      BY <1>10, <2>1 DEF leaveRun, TypeOK, LinksOK, windowVars, auxVars
  <1> QED
    BY <1>2, <1>3, <1>4, <1>5, <1>6, <1>7, <1>8, <1>9, <1>10 DEF serverStep

LEMMA NextType == TypeOK /\ LinksOK /\ [Next]_vars => TypeOK' /\ LinksOK'
  <1> SUFFICES ASSUME TypeOK, LinksOK, [Next]_vars PROVE TypeOK' /\ LinksOK'
    OBVIOUS
  <1>1. ASSUME NEW k \in Commands, click(k) PROVE TypeOK' /\ LinksOK'
    BY <1>1, FramesTyped
       DEF click, TypeOK, LinksOK, linkVars, handlerVars, auxVars
  <1>2. CASE UNCHANGED vars
    BY <1>2 DEF vars, windowVars, linkVars, handlerVars, auxVars, TypeOK, LinksOK
  <1> QED
    BY <1>1, <1>2, GuiStepType, ServerStepType DEF Next

LEMMA InitType == Init => TypeOK /\ LinksOK
  <1> SUFFICES ASSUME Init PROVE TypeOK /\ LinksOK
    OBVIOUS
  <1>1. /\ toServer \in [Conns -> Seq(Frames)]
        /\ reply \in [Conns -> Seq(Lines)] /\ toGui \in [Conns -> Seq(Lines)]
        /\ \A c \in Conns : Len(toGui[c]) = 0 /\ reply[c] = <<>> /\ toGui[c] = <<>>
    BY NoElement DEF Init
  <1>2. \A c \in Conns : Len(toGui[c]) <= MaxInFlight /\ Len(toGui[c]) <= MaxInFlight + 1
    BY <1>1, GuiAssumption
  <1> QED
    BY <1>1, <1>2 DEF Init, TypeOK, LinksOK, NoRows, Statuses

LEMMA Typed == Spec => [](TypeOK /\ LinksOK)
  BY InitType, NextType, PTL DEF Spec

(* The window, the connections it has left behind and the server behind them    *)
(* keep their types; a registered session always belongs to a handler that      *)
(* still exists.                                                                *)
THEOREM TypeCorrect == Spec => []TypeOK
  BY Typed, PTL

-----------------------------------------------------------------------------
(* The strengthening that BanColumnRight needs: what the lines on their way to  *)
(* the GUI, and those it has read, say of the rows in the database.             *)

(* The lines on their way on the connection of the command in progress. *)
Pending == Range(reply[conn]) \cup Range(toGui[conn])

BeforeCommand ==
    gui \in {"idle", "connecting", "login"} => first = "none" /\ rows = NoRows /\ later = {}

(* Up to LOGIN_OK the server has been asked for nothing but the login. *)
LoginOK ==
    gui = "login" =>
        /\ toServer[conn] \in {<<>>, <<Frame("LOGIN", admin)>>}
        /\ conn \in checked => toServer[conn] = <<>>
        /\ \A line \in Pending :
              /\ line.text = "LOGIN_OK" => toServer[conn] = <<>> /\ conn \notin checked
              /\ line.text \notin {"OK", "USER"}

NotExecuted ==
    /\ toServer[conn] = <<cmd>>
    /\ first # "OK" /\ rows = NoRows
    /\ \A line \in Pending : line.text \notin {"OK", "USER"}

(* What an OK says, unless a late handler has changed the row since. *)
OkAgrees ==
    \/ cmd.name = "BAN" /\ (cmd.login \in later \/ status[cmd.login] = "banned")
    \/ cmd.name \in {"UNBAN", "KICK"} /\ (cmd.login \in later \/ status[cmd.login] = "active")

Executed ==
    /\ toServer[conn] = <<>>
    /\ \A u \in Users : rows[u] \in {"none", status[u]} \/ u \in later
    /\ first = "OK" => OkAgrees
    /\ \A line \in Pending :
          /\ line.text = "OK" => OkAgrees
          /\ line.text = "USER" => line.status = status[line.login] \/ line.login \in later

CommandOK ==
    gui \in {"reading", "finished"} => conn \notin checked /\ (NotExecuted \/ Executed)

ConversationOK == BeforeCommand /\ LoginOK /\ CommandOK

(* The connection in use has at most one frame that its handler has not read. *)
LEMMA OneFrame ==
    ASSUME TypeOK, ConversationOK, conn \in Conns, toServer[conn] # <<>>
    PROVE  /\ Tail(toServer[conn]) = <<>>
           /\ \/ gui = "login" /\ Head(toServer[conn]).name = "LOGIN"
              \/ /\ gui \in {"reading", "finished"} /\ NotExecuted
                 /\ Head(toServer[conn]) = cmd /\ cmd \in Commands
                 /\ cmd.name # "LOGIN"
  <1>1. CASE gui = "login"
    <2>1. toServer[conn] = <<Frame("LOGIN", admin)>>
      BY <1>1 DEF ConversationOK, LoginOK
    <2> QED
      BY <1>1, <2>1, FramesTyped
  <1>2. CASE gui \in {"reading", "finished"}
    <2>1. NotExecuted /\ toServer[conn] = <<cmd>>
      BY <1>2 DEF ConversationOK, CommandOK, NotExecuted, Executed
    <2>2. cmd \in Commands
      BY <1>2 DEF TypeOK
    <2> QED
      BY <1>2, <2>1, <2>2, FramesTyped
  <1> QED
    BY <1>1, <1>2, GuiAssumption DEF TypeOK

(* A step of the server that brings the GUI no news of a login or a ban, and    *)
(* whose own changes are accounted for in later, changes nothing of this.       *)
LEMMA QuietStep ==
    ASSUME TypeOK, ConversationOK, UNCHANGED windowVars,
           later \subseteq later',
           gui \notin {"reading", "finished"} => later' = later,
           conn \in Conns =>
              /\ toServer'[conn] \in {<<>>, toServer[conn]}
              /\ conn \in checked' => conn \in checked
              /\ \A line \in Pending' :
                    line \in Pending \/ line.text \notin {"OK", "USER", "LOGIN_OK"},
           gui \in {"reading", "finished"} /\ toServer[conn] = <<>> =>
              \A u \in Users : status'[u] = status[u] \/ u \in later'
    PROVE  ConversationOK'
  <1> USE DEF windowVars
  <1>1. BeforeCommand'
    BY DEF ConversationOK, BeforeCommand
  <1>2. LoginOK'
    <2> SUFFICES ASSUME gui = "login" PROVE LoginOK'
      BY DEF LoginOK
    <2>1. conn \in Conns /\ LoginOK
      BY DEF TypeOK, ConversationOK
    <2> QED
      BY <2>1 DEF LoginOK
  <1>3. CommandOK'
    <2> SUFFICES ASSUME gui \in {"reading", "finished"}
                 PROVE  conn \notin checked' /\ (NotExecuted \/ Executed)'
      BY DEF CommandOK
    <2>1. conn \in Conns /\ conn \notin checked /\ cmd \in Commands
      BY DEF TypeOK, ConversationOK, CommandOK
    <2>2. CASE NotExecuted
      <3>1. \A line \in Pending' : line.text \notin {"OK", "USER"}
        BY <2>1, <2>2 DEF NotExecuted
      <3>2. CASE toServer'[conn] = toServer[conn]
        BY <2>1, <2>2, <3>1, <3>2 DEF NotExecuted
      <3>3. CASE toServer'[conn] = <<>>
        BY <2>1, <2>2, <3>1, <3>3 DEF NotExecuted, Executed, NoRows
      <3> QED
        BY <2>1, <3>2, <3>3
    <2>3. CASE Executed
      <3>1. toServer'[conn] = <<>> /\ \A u \in Users : status'[u] = status[u] \/ u \in later'
        BY <2>1, <2>3 DEF Executed
      <3>2. cmd.login \in Users
        BY <2>1, FramesTyped
      <3>3. OkAgrees => OkAgrees'
        BY <3>1, <3>2 DEF OkAgrees
      <3>4. ASSUME NEW line \in Pending'
            PROVE  /\ line.text = "OK" => OkAgrees'
                   /\ line.text = "USER" => line.status = status'[line.login] \/ line.login \in later'
        <4>1. CASE line \in Pending
          <5>1. line \in Lines
            <6>1. reply[conn] \in Seq(Lines) /\ toGui[conn] \in Seq(Lines)
              BY <2>1 DEF TypeOK
            <6>2. Range(reply[conn]) \subseteq Lines /\ Range(toGui[conn]) \subseteq Lines
              BY <6>1 DEF Range
            <6> QED
              BY <4>1, <6>2 DEF Pending
          <5>2. line.text = "USER" => line.login \in Users
            BY <5>1, LinesTyped
          <5> QED
            BY <2>3, <3>1, <3>3, <4>1, <5>2 DEF Executed
        <4>2. CASE line \notin Pending
          BY <2>1, <4>2
        <4> QED
          BY <4>1, <4>2
      <3>5. \A u \in Users : rows[u] \in {"none", status'[u]} \/ u \in later'
        BY <2>3, <3>1 DEF Executed
      <3> QED
        BY <2>1, <2>3, <3>1, <3>3, <3>4, <3>5 DEF Executed
    <2> QED
      BY <2>1, <2>2, <2>3 DEF ConversationOK, CommandOK
  <1> QED
    BY <1>1, <1>2, <1>3 DEF ConversationOK

(* What changed does for the rows that the GUI may be reading of. *)
LEMMA ChangedIsLater ==
    ASSUME TypeOK, NEW c \in Conns, NEW u \in Users, changed(c, u), c # conn,
           \A v \in Users : v # u => status'[v] = status[v]
    PROVE  /\ later \subseteq later'
           /\ gui \notin {"reading", "finished"} => later' = later
           /\ gui \in {"reading", "finished"} /\ toServer[conn] = <<>> =>
                 \A v \in Users : status'[v] = status[v] \/ v \in later'
  BY DEF changed

(* disconnectUser sends nothing but KICKED. *)
LEMMA DisconnectPending ==
    ASSUME TypeOK, LinksOK, NEW u, disconnectUser(u), conn \in Conns
    PROVE  \A line \in Range(toGui'[conn]) : line \in Range(toGui[conn]) \/ line.text = "KICKED"
  <1>1. toGui'[conn] = toGui[conn] \/ toGui'[conn] = Append(toGui[conn], Line("KICKED"))
    BY DisconnectType
  <1>2. Range(Append(toGui[conn], Line("KICKED"))) = Range(toGui[conn]) \cup {Line("KICKED")}
    BY AppendElements, LinesTyped DEF TypeOK
  <1>3. Line("KICKED").text = "KICKED"
    BY LinesTyped
  <1>4. CASE toGui'[conn] = toGui[conn]
    BY <1>4
  <1>5. CASE toGui'[conn] = Append(toGui[conn], Line("KICKED"))
    BY <1>2, <1>3, <1>5
  <1> QED
    BY <1>1, <1>4, <1>5

(* Steps of the handlers of connections that the GUI has left. *)
LEMMA LateHandlers ==
    ASSUME TypeOK, LinksOK, ConversationOK, NEW c \in Conns, c # conn, serverStep(c)
    PROVE  ConversationOK'
  <1>1. UNCHANGED windowVars
    BY DEF serverStep, handleLogin, loginCommits, handleLogout, handleList,
           handleAllMessages, handleBan, handleUnban, handleKick, refuse, sendLine, deliver,
           leaveRun
  <1>2. conn \in Conns => toServer'[conn] = toServer[conn] /\ reply'[conn] = reply[conn]
    <2>1. ASSUME NEW name, reads(c, name), conn \in Conns
          PROVE  toServer'[conn] = toServer[conn]
      BY <2>1, ReadsType
    <2>2. ASSUME NEW lines, answers(c, lines), conn \in Conns
          PROVE  reply'[conn] = reply[conn]
      BY <2>2 DEF answers, TypeOK
    <2>3. CASE handleLogin(c)
      BY <2>1, <2>2, <2>3 DEF handleLogin
    <2>4. CASE loginCommits(c)
      BY <2>2, <2>4 DEF loginCommits
    <2>5. CASE handleLogout(c) \/ handleAllMessages(c) \/ refuse(c)
      BY <2>1, <2>2, <2>5 DEF handleLogout, handleAllMessages, refuse
    <2>6. CASE handleList(c)
      BY <2>1, <2>2, <2>6 DEF handleList
    <2>7. CASE handleBan(c) \/ handleUnban(c) \/ handleKick(c)
      BY <2>1, <2>2, <2>7 DEF handleBan, handleUnban, handleKick
    <2>8. CASE sendLine(c)
      BY <2>8 DEF sendLine, TypeOK
    <2>9. CASE deliver(c)
      BY <2>9 DEF deliver
    <2>10. CASE leaveRun(c)
      BY <2>10 DEF leaveRun, TypeOK
    <2> QED
      BY <2>3, <2>4, <2>5, <2>6, <2>7, <2>8, <2>9, <2>10 DEF serverStep
  <1>3. conn \in checked' => conn \in checked
    BY DEF serverStep, handleLogin, loginCommits, handleLogout, handleList,
           handleAllMessages, handleBan, handleUnban, handleKick, refuse, sendLine, deliver,
           leaveRun, handlerVars
  <1>4. conn \in Conns =>
          \A line \in Range(toGui'[conn]) : line \in Range(toGui[conn]) \/ line.text = "KICKED"
    <2>1. CASE \E u : disconnectUser(u)
      BY <2>1, DisconnectPending
    <2>2. CASE UNCHANGED toGui
      BY <2>2
    <2>3. CASE sendLine(c) \/ deliver(c)
      BY <2>3 DEF sendLine, deliver, reaches, LinksOK
    <2> QED
      BY <2>1, <2>2, <2>3
         DEF serverStep, handleLogin, loginCommits, handleLogout, handleList,
             handleAllMessages, handleBan, handleUnban, handleKick, refuse, leaveRun
  <1>5. /\ later \subseteq later'
        /\ gui \notin {"reading", "finished"} => later' = later
        /\ gui \in {"reading", "finished"} /\ toServer[conn] = <<>> =>
              \A v \in Users : status'[v] = status[v] \/ v \in later'
    <2>1. CASE UNCHANGED <<status, auxVars>>
      BY <2>1 DEF auxVars
    <2>2. CASE loginCommits(c)
      <3>1. CASE status[admin] = "banned" /\ changed(c, admin)
        BY <2>2, <3>1, ChangedIsLater, GuiAssumption DEF loginCommits, TypeOK
      <3>2. CASE status[admin] # "banned" /\ UNCHANGED auxVars
        <4>1. \A v \in Users : status'[v] = status[v]
          BY <2>2, <3>2 DEF loginCommits, TypeOK, Statuses
        <4> QED
          BY <3>2, <4>1 DEF auxVars
      <3> QED
        BY <2>2, <3>1, <3>2 DEF loginCommits
    <2>3. CASE handleBan(c) \/ handleUnban(c)
      <3>1. PICK name : reads(c, name)
        BY <2>3 DEF handleBan, handleUnban
      <3>2. Head(toServer[c]).login \in Users
        BY <3>1, ReadsType, FramesTyped
      <3>3. /\ changed(c, Head(toServer[c]).login)
            /\ \A v \in Users : v # Head(toServer[c]).login => status'[v] = status[v]
        BY <2>3, <3>2 DEF handleBan, handleUnban, TypeOK
      <3> QED
        BY <3>2, <3>3, ChangedIsLater
    <2> QED
      BY <2>1, <2>2, <2>3
         DEF serverStep, handleLogin, handleLogout, handleList, handleAllMessages,
             handleKick, refuse, sendLine, deliver, leaveRun
  <1>6. conn \in Conns =>
          \A line \in Pending' :
             line \in Pending \/ line.text \notin {"OK", "USER", "LOGIN_OK"}
    BY <1>1, <1>2, <1>4 DEF Pending, windowVars
  <1> QED
    BY <1>1, <1>2, <1>3, <1>5, <1>6, QuietStep

(* The handler of the connection in use reads its one frame. *)
LEMMA OwnRead ==
    ASSUME TypeOK, ConversationOK, conn \in Conns, NEW name, reads(conn, name)
    PROVE  /\ toServer'[conn] = <<>> /\ toServer[conn] # <<>>
           /\ conn \notin checked /\ Range(reply[conn]) = {}
           /\ \/ gui = "login" /\ name = "LOGIN"
              \/ /\ gui \in {"reading", "finished"} /\ NotExecuted
                 /\ Head(toServer[conn]) = cmd /\ cmd \in Commands
                 /\ cmd.name = name /\ name # "LOGIN"
  BY ReadsType, OneFrame, NoElement

(* Its answer is one line ... *)
LEMMA OwnAnswer ==
    ASSUME TypeOK, conn \in Conns, NEW text, Line(text) \in Lines,
           answers(conn, <<Line(text)>>)
    PROVE  Range(reply'[conn]) = {Line(text)} /\ Line(text).text = text
  <1>1. <<Line(text)>> \in Seq(Lines) /\ Range(<<Line(text)>>) = {Line(text)}
    BY OneElement
  <1>2. reply'[conn] = <<Line(text)>>
    BY <1>1, AnswersType
  <1> QED
    BY <1>1, <1>2, LinesTyped

(* ... or, once the command is executed, lines that agree with the rows. *)
LEMMA Executes ==
    ASSUME TypeOK, ConversationOK, conn \in Conns, UNCHANGED windowVars,
           gui \in {"reading", "finished"}, NotExecuted,
           toServer'[conn] = <<>>, conn \notin checked',
           \A line \in Pending' :
              \/ line \in Pending \/ line.text \notin {"OK", "USER"}
              \/ line.text = "OK" /\ OkAgrees'
              \/ line.text = "USER" /\ line.status = status'[line.login]
    PROVE  ConversationOK'
  <1> USE DEF windowVars
  <1>1. BeforeCommand' /\ LoginOK'
    BY DEF BeforeCommand, LoginOK
  <1>2. \A line \in Pending : line.text \notin {"OK", "USER"}
    BY DEF NotExecuted
  <1>3. ASSUME NEW line \in Pending'
        PROVE  /\ line.text = "OK" => OkAgrees'
               /\ line.text = "USER" => line.status = status'[line.login]
    BY <1>2, <1>3
  <1>4. first # "OK" /\ \A u \in Users : rows[u] = "none"
    BY DEF NotExecuted, NoRows
  <1>5. Executed'
    BY <1>3, <1>4 DEF Executed
  <1> QED
    BY <1>1, <1>5 DEF ConversationOK, CommandOK

(* Steps of the handler that serves the command in progress. *)
LEMMA OwnHandler ==
    ASSUME TypeOK, LinksOK, ConversationOK, conn \in Conns, serverStep(conn)
    PROVE  ConversationOK'
  <1>1. CASE handleLogin(conn)
    <2>1. /\ gui = "login" /\ toServer[conn] # <<>> /\ toServer'[conn] = <<>>
          /\ conn \notin checked
      <3>1. reads(conn, "LOGIN")
        BY <1>1 DEF handleLogin
      <3> QED
        BY <3>1, OwnRead
    <2>2. /\ UNCHANGED <<windowVars, toGui, auxVars, status>>
      BY <1>1 DEF handleLogin
    <2>3. CASE checked' = checked \cup {conn} /\ UNCHANGED reply
      <3>1. Pending' = Pending
        BY <2>2, <2>3 DEF Pending, windowVars
      <3>2. BeforeCommand'
        BY <2>2 DEF ConversationOK, BeforeCommand, windowVars, auxVars
      <3>3. LoginOK'
        <4>1. LoginOK
          BY DEF ConversationOK
        <4>2. \A line \in Pending' : line.text \notin {"OK", "USER", "LOGIN_OK"}
          BY <2>1, <3>1, <4>1 DEF LoginOK
        <4> QED
          BY <2>1, <2>2, <4>2 DEF LoginOK, windowVars
      <3>4. CommandOK'
        BY <2>1, <2>2 DEF CommandOK, windowVars
      <3> QED
        BY <3>2, <3>3, <3>4 DEF ConversationOK
    <2>4. CASE answers(conn, <<Line("LOGIN_ERROR")>>) /\ UNCHANGED checked
      <3>1. Range(reply'[conn]) = {Line("LOGIN_ERROR")} /\ Line("LOGIN_ERROR").text = "LOGIN_ERROR"
        BY <2>4, OwnAnswer, LinesTyped
      <3>2. \A line \in Pending' :
               line \in Pending \/ line.text \notin {"OK", "USER", "LOGIN_OK"}
        BY <2>2, <3>1 DEF Pending, windowVars
      <3> QED
        BY <2>1, <2>2, <2>4, <3>2, QuietStep DEF auxVars
    <2> QED
      BY <1>1, <2>3, <2>4 DEF handleLogin
  <1>2. CASE loginCommits(conn)
    <2>1. conn \in checked
      BY <1>2 DEF loginCommits
    <2>2. gui = "login" /\ toServer[conn] = <<>>
      <3>1. gui \notin {"idle", "connecting"}
        BY GuiAssumption DEF TypeOK
      <3>2. gui \notin {"reading", "finished"}
        BY <2>1 DEF ConversationOK, CommandOK
      <3> QED
        BY <2>1, <3>1, <3>2 DEF TypeOK, ConversationOK, LoginOK
    <2>3. UNCHANGED <<windowVars, toServer, toGui>> /\ conn \notin checked'
      BY <1>2 DEF loginCommits
    <2>4. later' = later
      BY <1>2, <2>2 DEF loginCommits, changed, auxVars
    <2>5. Range(reply'[conn]) = {Line("LOGIN_OK")} /\ Line("LOGIN_OK").text = "LOGIN_OK"
      BY <1>2, OwnAnswer, LinesTyped DEF loginCommits
    <2>6. BeforeCommand'
      BY <2>3, <2>4 DEF ConversationOK, BeforeCommand, windowVars
    <2>7. LoginOK'
      <3>1. \A line \in Pending' : line.text \notin {"OK", "USER"}
        BY <2>2, <2>3, <2>5 DEF Pending, ConversationOK, LoginOK, windowVars
      <3> QED
        BY <2>2, <2>3, <3>1 DEF LoginOK, windowVars
    <2>8. CommandOK'
      BY <2>2, <2>3 DEF CommandOK, windowVars
    <2> QED
      BY <2>6, <2>7, <2>8 DEF ConversationOK
  <1>3. CASE handleLogout(conn) \/ handleAllMessages(conn) \/ refuse(conn)
    <2>1. /\ UNCHANGED <<windowVars, toGui, checked, status, auxVars>>
          /\ \E name : reads(conn, name)
      BY <1>3 DEF handleLogout, handleAllMessages, refuse, handlerVars
    <2>2. toServer'[conn] = <<>>
      BY <2>1, OwnRead
    <2>3. PICK text \in {"LOGOUT_OK", "ALL_MESSAGES_END", "ERROR_"} :
             answers(conn, <<Line(text)>>)
      BY <1>3 DEF handleLogout, handleAllMessages, refuse
    <2>4. Range(reply'[conn]) = {Line(text)} /\ Line(text).text = text
      BY <2>3, OwnAnswer, LinesTyped
    <2>5. \A line \in Pending' :
             line \in Pending \/ line.text \notin {"OK", "USER", "LOGIN_OK"}
      BY <2>1, <2>3, <2>4 DEF Pending, windowVars
    <2> QED
      BY <2>1, <2>2, <2>5, QuietStep DEF auxVars
  <1>4. CASE handleList(conn)
    <2>1. /\ toServer'[conn] = <<>> /\ conn \notin checked
          /\ gui \in {"reading", "finished"} /\ NotExecuted
      <3>1. reads(conn, "LIST")
        BY <1>4 DEF handleList
      <3> QED
        BY <3>1, OwnRead
    <2>2. UNCHANGED <<windowVars, toGui, checked, status>>
      BY <1>4 DEF handleList, handlerVars
    <2> DEFINE users == {UserLine(u, status[u]) : u \in Users}
    <2>3. PICK listed \in {SetToSeq(users), <<>>} :
             answers(conn, <<Line("USERS_BEGIN")>> \o listed \o <<Line("USERS_END")>>)
      BY <1>4 DEF handleList
    <2>4. listed \in Seq(Lines) /\ Range(listed) \subseteq users
      <3>1. status \in [Users -> Statuses] /\ users \subseteq Lines
        BY LinesTyped DEF TypeOK
      <3>2. SetToSeq(users) \in Seq(users) /\ Range(SetToSeq(users)) \subseteq users
        BY <3>1, ListedLines
      <3> HIDE DEF users
      <3> QED
        BY <3>1, <3>2, LargerSet, NoElement
    <2>5. \A line \in users : line.text = "USER" /\ line.status = status'[line.login]
      BY <2>2, LinesTyped DEF TypeOK
    <2> HIDE DEF users
    <2> DEFINE head == <<Line("USERS_BEGIN")>>
               last == <<Line("USERS_END")>>
    <2>6. /\ head \in Seq(Lines) /\ Range(head) = {Line("USERS_BEGIN")}
          /\ last \in Seq(Lines) /\ Range(last) = {Line("USERS_END")}
      BY OneElement, LinesTyped
    <2>7. answers(conn, head \o listed \o last)
      BY <2>3
    <2> HIDE DEF head, last
    <2>8. /\ head \o listed \in Seq(Lines)
          /\ Range(head \o listed) \subseteq Range(head) \cup Range(listed)
      BY <2>4, <2>6, ConcatElements
    <2>9. /\ head \o listed \o last \in Seq(Lines)
          /\ Range(head \o listed \o last) \subseteq Range(head \o listed) \cup Range(last)
      BY <2>6, <2>8, ConcatElements
    <2>10. reply'[conn] = head \o listed \o last
      BY <2>7, <2>9, AnswersType
    <2>11. ASSUME NEW line \in Pending'
           PROVE  \/ line \in Pending \/ line.text \notin {"OK", "USER"}
                  \/ line.text = "USER" /\ line.status = status'[line.login]
      <3>1. line \in Range(reply'[conn]) \cup Range(toGui[conn])
        BY <2>2, <2>11 DEF Pending, windowVars
      <3>2. CASE line \in Range(toGui[conn])
        BY <3>2 DEF Pending
      <3>3. CASE line \in users
        BY <2>5, <3>3
      <3>4. CASE line \in {Line("USERS_BEGIN"), Line("USERS_END")}
        BY <3>4, LinesTyped
      <3> QED
        BY <2>4, <2>6, <2>8, <2>9, <2>10, <3>1, <3>2, <3>3, <3>4
    <2> QED
      BY <2>1, <2>2, <2>11, Executes
  <1>5. CASE handleBan(conn) \/ handleUnban(conn) \/ handleKick(conn)
    <2>1. /\ toServer'[conn] = <<>> /\ conn \notin checked
          /\ gui \in {"reading", "finished"} /\ NotExecuted
          /\ Head(toServer[conn]) = cmd /\ cmd \in Commands
          /\ \/ cmd.name = "BAN" /\ handleBan(conn)
             \/ cmd.name = "UNBAN" /\ handleUnban(conn)
             \/ cmd.name = "KICK" /\ handleKick(conn)
      <3>1. PICK name \in {"BAN", "UNBAN", "KICK"} :
               /\ reads(conn, name)
               /\ \/ name = "BAN" /\ handleBan(conn)
                  \/ name = "UNBAN" /\ handleUnban(conn)
                  \/ name = "KICK" /\ handleKick(conn)
        BY <1>5 DEF handleBan, handleUnban, handleKick
      <3> QED
        BY <3>1, OwnRead
    <2>2. UNCHANGED <<windowVars, checked>>
      BY <2>1 DEF handleBan, handleUnban, handleKick, handlerVars
    <2>3. OkAgrees'
      <3>1. cmd.login \in Users /\ status \in [Users -> Statuses]
        BY <2>1, FramesTyped DEF TypeOK
      <3>2. cmd' = cmd
        BY <2>2 DEF windowVars
      <3>3. CASE cmd.name = "BAN" /\ handleBan(conn)
        BY <2>1, <3>1, <3>2, <3>3 DEF OkAgrees, handleBan
      <3>4. CASE cmd.name = "UNBAN" /\ handleUnban(conn)
        BY <2>1, <3>1, <3>2, <3>4 DEF OkAgrees, handleUnban
      <3>5. CASE cmd.name = "KICK" /\ handleKick(conn)
        BY <2>1, <3>1, <3>2, <3>5 DEF OkAgrees, handleKick, Statuses
      <3> QED
        BY <2>1, <3>3, <3>4, <3>5
    <2>4. PICK text \in {"OK", "ERROR_"} : answers(conn, <<Line(text)>>)
      BY <2>1 DEF handleBan, handleUnban, handleKick
    <2>5. Range(reply'[conn]) = {Line(text)} /\ Line(text).text = text
      BY <2>4, OwnAnswer, LinesTyped
    <2>6. \A line \in Range(toGui'[conn]) :
             line \in Range(toGui[conn]) \/ line.text = "KICKED"
      <3>1. CASE \E u : disconnectUser(u)
        BY <3>1, DisconnectPending
      <3>2. CASE UNCHANGED toGui
        BY <3>2
      <3> QED
        BY <2>1, <3>1, <3>2 DEF handleBan, handleUnban, handleKick
    <2>7. ASSUME NEW line \in Pending'
          PROVE  \/ line \in Pending \/ line.text \notin {"OK", "USER"}
                 \/ line.text = "OK" /\ OkAgrees'
      <3>1. line = Line(text) \/ line \in Range(toGui'[conn])
        BY <2>2, <2>5, <2>7 DEF Pending, windowVars
      <3>2. CASE line = Line(text)
        BY <2>3, <2>4, <2>5, <3>2
      <3>3. CASE line \in Range(toGui'[conn])
        BY <2>6, <3>3 DEF Pending
      <3> QED
        BY <3>1, <3>2, <3>3
    <2> QED
      BY <2>1, <2>2, <2>7, Executes
  <1>6. CASE sendLine(conn)
    <2>1. /\ UNCHANGED <<windowVars, toServer, checked, status, auxVars>>
          /\ reply[conn] \in Seq(Lines) /\ reply[conn] # <<>> /\ toGui[conn] \in Seq(Lines)
      BY <1>6 DEF sendLine, handlerVars, TypeOK
    <2>2. /\ Head(reply[conn]) \in Range(reply[conn]) /\ Head(reply[conn]) \in Lines
          /\ Range(Tail(reply[conn])) \subseteq Range(reply[conn])
      BY <2>1, TailElements
    <2>3. Range(Append(toGui[conn], Head(reply[conn]))) = Range(toGui[conn]) \cup {Head(reply[conn])}
      BY <2>1, <2>2, AppendElements
    <2>4. /\ reply'[conn] = Tail(reply[conn])
          /\ toGui'[conn] \in {toGui[conn], Append(toGui[conn], Head(reply[conn]))}
      BY <1>6 DEF sendLine, TypeOK
    <2>5. Pending' \subseteq Pending
      BY <2>1, <2>2, <2>3, <2>4 DEF Pending, windowVars
    <2> QED
      BY <2>1, <2>5, QuietStep DEF auxVars
  <1>7. CASE deliver(conn)
    <2>1. UNCHANGED <<windowVars, toServer, reply, checked, status, auxVars>>
      BY <1>7 DEF deliver, handlerVars
    <2>2. toGui'[conn] = Append(toGui[conn], Line("MESSAGE"))
      BY <1>7 DEF deliver, TypeOK
    <2>3. Range(Append(toGui[conn], Line("MESSAGE"))) = Range(toGui[conn]) \cup {Line("MESSAGE")}
      BY AppendElements, LinesTyped DEF TypeOK
    <2>4. Line("MESSAGE").text = "MESSAGE"
      BY LinesTyped
    <2>5. \A line \in Pending' :
             line \in Pending \/ line.text \notin {"OK", "USER", "LOGIN_OK"}
      BY <2>1, <2>2, <2>3, <2>4 DEF Pending, windowVars
    <2> QED
      BY <2>1, <2>5, QuietStep DEF auxVars
  <1>8. CASE leaveRun(conn)
    <2>1. /\ UNCHANGED <<windowVars, reply, toGui, checked, status, auxVars>>
          /\ toServer'[conn] = <<>>
      BY <1>8 DEF leaveRun, TypeOK
    <2>2. Pending' = Pending
      BY <2>1 DEF Pending, windowVars
    <2> QED
      BY <2>1, <2>2, QuietStep DEF auxVars
  <1> QED
    BY <1>1, <1>2, <1>3, <1>4, <1>5, <1>6, <1>7, <1>8 DEF serverStep

(* sendCommandToServer returns: nothing of its connection is read any more. *)
LEMMA ConcludeConversation ==
    ASSUME NEW sent, conclude(sent)
    PROVE  ConversationOK'
  BY DEF conclude, ConversationOK, BeforeCommand, LoginOK, CommandOK

(* Steps of the GUI thread. *)
LEMMA GuiConversation ==
    ASSUME TypeOK, LinksOK, ConversationOK, guiStep
    PROVE  ConversationOK'
  <1>1. ASSUME NEW c \in Conns, connectToHost(c) PROVE ConversationOK'
    <2>1. /\ gui = "connecting" /\ gui' = "login" /\ conn' = c /\ c # conn
          /\ UNCHANGED <<first, rows, reply, checked, auxVars>>
      BY <1>1, GuiAssumption DEF connectToHost, TypeOK
    <2>2. c \notin checked /\ reply[c] = <<>>
      BY <1>1, <2>1 DEF connectToHost, TypeOK, LinksOK
    <2>3. /\ toServer'[c] \in {<<>>, <<Frame("LOGIN", admin)>>}
          /\ toGui'[c] \in {<<>>, <<Line("ERROR_")>>}
      BY <1>1 DEF connectToHost, TypeOK
    <2>4. \A line \in Pending' : line = Line("ERROR_")
      <3>1. Range(reply'[c]) = {} /\ Range(toGui'[c]) \subseteq {Line("ERROR_")}
        BY <2>1, <2>2, <2>3, NoElement, OneElement, LinesTyped
      <3> QED
        BY <2>1, <3>1 DEF Pending
    <2>5. Line("ERROR_").text = "ERROR_"
      BY LinesTyped
    <2>6. BeforeCommand' /\ CommandOK'
      BY <2>1 DEF ConversationOK, BeforeCommand, CommandOK, auxVars
    <2>7. LoginOK'
      BY <2>1, <2>2, <2>3, <2>4, <2>5 DEF LoginOK
    <2> QED
      BY <2>6, <2>7 DEF ConversationOK
  <1>2. CASE loginAnswered
    <2>1. /\ gui = "login" /\ gui' = "reading" /\ conn \in Conns /\ toGui[conn] # <<>>
          /\ toGui[conn] \in Seq(Lines) /\ cmd \in Frames
          /\ UNCHANGED <<conn, cmd, first, rows, reply, checked>>
      BY <1>2, FramesTyped DEF loginAnswered, TypeOK, handlerVars
    <2>2. /\ Head(toGui[conn]) \in Pending /\ Head(toGui[conn]).text = "LOGIN_OK"
          /\ Range(Tail(toGui[conn])) \subseteq Range(toGui[conn])
      BY <1>2, <2>1, TailElements, LinesTyped DEF loginAnswered, Pending
    <2>3. /\ toServer[conn] = <<>> /\ conn \notin checked
          /\ \A line \in Pending : line.text \notin {"OK", "USER"}
      BY <2>1, <2>2 DEF ConversationOK, LoginOK
    <2>4. toServer'[conn] = Append(<<>>, cmd) /\ toGui'[conn] = Tail(toGui[conn])
      BY <1>2, <2>1, <2>3 DEF loginAnswered, TypeOK
    <2>5. Pending' \subseteq Pending
      BY <2>1, <2>2, <2>4 DEF Pending
    <2>6. first # "OK" /\ rows = NoRows
      BY <2>1 DEF ConversationOK, BeforeCommand
    <2>7. Append(<<>>, cmd) = <<cmd>>
      OBVIOUS
    <2>8. NotExecuted'
      BY <2>1, <2>3, <2>4, <2>5, <2>6, <2>7 DEF NotExecuted
    <2> QED
      BY <2>1, <2>3, <2>8 DEF ConversationOK, BeforeCommand, LoginOK, CommandOK
  <1>3. CASE readLine
    <2> DEFINE line == Head(toGui[conn])
    <2>1. /\ gui = "reading" /\ gui' \in {"reading", "finished"}
          /\ conn \in Conns /\ toGui[conn] # <<>> /\ toGui[conn] \in Seq(Lines)
          /\ UNCHANGED <<conn, cmd, toServer, reply, checked, status, later>>
      BY <1>3 DEF readLine, TypeOK, handlerVars, auxVars
    <2>2. /\ line \in Pending /\ line \in Lines
          /\ Range(Tail(toGui[conn])) \subseteq Range(toGui[conn])
      BY <2>1, TailElements DEF Pending
    <2>3. toGui'[conn] = Tail(toGui[conn])
      BY <1>3, <2>1 DEF readLine, TypeOK
    <2>4. Pending' \subseteq Pending
      BY <2>1, <2>2, <2>3 DEF Pending
    <2>5. /\ first' = "OK" => first = "OK" \/ line.text = "OK"
          /\ rows' = IF line.text = "USER" THEN [rows EXCEPT ![line.login] = line.status] ELSE rows
      BY <1>3 DEF readLine
    <2>6. line.text = "USER" => line.login \in Users
      BY <2>2, LinesTyped
    <2>7. rows \in [Users -> Statuses \cup {"none"}]
      BY DEF TypeOK
    <2> HIDE DEF line
    <2>8. conn \notin checked /\ (NotExecuted \/ Executed)
      BY <2>1 DEF ConversationOK, CommandOK
    <2>9. CASE NotExecuted
      <3>1. line.text \notin {"OK", "USER"}
        BY <2>2, <2>9 DEF NotExecuted
      <3> QED
        BY <2>1, <2>4, <2>5, <2>8, <2>9, <3>1
           DEF NotExecuted, ConversationOK, BeforeCommand, LoginOK, CommandOK
    <2>10. CASE Executed
      <3>1. OkAgrees' <=> OkAgrees
        BY <2>1 DEF OkAgrees
      <3>2. \A u \in Users : rows'[u] \in {"none", status[u]} \/ u \in later
        BY <2>2, <2>5, <2>6, <2>7, <2>10 DEF Executed
      <3>3. first' = "OK" => OkAgrees
        BY <2>2, <2>5, <2>10 DEF Executed
      <3>4. Executed'
        BY <2>1, <2>4, <2>10, <3>1, <3>2, <3>3 DEF Executed
      <3> QED
        BY <2>1, <2>8, <3>4 DEF ConversationOK, BeforeCommand, LoginOK, CommandOK
    <2> QED
      BY <2>8, <2>9, <2>10
  <1> QED
    BY <1>1, <1>2, <1>3, ConcludeConversation
       DEF guiStep, connectFails, loginFails, sendFails, commandEnds, readTimesOut

LEMMA NextConversation ==
    TypeOK /\ LinksOK /\ ConversationOK /\ [Next]_vars => ConversationOK'
  <1> SUFFICES ASSUME TypeOK, LinksOK, ConversationOK, [Next]_vars PROVE ConversationOK'
    OBVIOUS
  <1>1. ASSUME NEW k \in Commands, click(k) PROVE ConversationOK'
    BY <1>1 DEF click, ConversationOK, BeforeCommand, LoginOK, CommandOK, auxVars
  <1>2. ASSUME NEW c \in Conns, serverStep(c) PROVE ConversationOK'
    BY <1>2, OwnHandler, LateHandlers
  <1>3. CASE UNCHANGED vars
    <2>1. Pending' = Pending
      BY <1>3 DEF vars, windowVars, linkVars, Pending
    <2>2. NotExecuted' <=> NotExecuted
      BY <1>3, <2>1 DEF vars, windowVars, linkVars, NotExecuted
    <2>3. Executed' <=> Executed
      BY <1>3, <2>1 DEF vars, windowVars, linkVars, auxVars, Executed, OkAgrees
    <2> QED
      BY <1>3, <2>1, <2>2, <2>3
         DEF vars, windowVars, linkVars, handlerVars, auxVars,
             ConversationOK, BeforeCommand, LoginOK, CommandOK
  <1> QED
    BY <1>1, <1>2, <1>3, GuiConversation DEF Next

-----------------------------------------------------------------------------
(* A row changes only with a note of it, and the table only at the end of a     *)
(* command.                                                                     *)
LEMMA ServerBanColumn ==
    ASSUME TypeOK, BanColumnRight, NEW c \in Conns, serverStep(c)
    PROVE  BanColumnRight'
  <1>1. UNCHANGED tableUsers
    BY DEF serverStep, handleLogin, loginCommits, handleLogout, handleList,
           handleAllMessages, handleBan, handleUnban, handleKick, refuse, sendLine, deliver,
           leaveRun, windowVars
  <1>2. unseen \subseteq unseen' /\ \A u \in Users : status'[u] = status[u] \/ u \in unseen'
    <2>1. CASE UNCHANGED <<status, auxVars>>
      BY <2>1 DEF auxVars
    <2>2. CASE loginCommits(c)
      BY <2>2, GuiAssumption DEF loginCommits, changed, auxVars, TypeOK, Statuses
    <2>3. CASE handleBan(c) \/ handleUnban(c)
      BY <2>3 DEF handleBan, handleUnban, changed, TypeOK
    <2> QED
      BY <2>1, <2>2, <2>3
         DEF serverStep, handleLogin, handleLogout, handleList, handleAllMessages,
             handleKick, refuse, sendLine, deliver, leaveRun
  <1> QED
    BY <1>1, <1>2 DEF BanColumnRight

LEMMA ConcludeBanColumn ==
    ASSUME TypeOK, ConversationOK, BanColumnRight, NEW sent \in BOOLEAN, conclude(sent),
           sent => gui \in {"reading", "finished"}
    PROVE  BanColumnRight'
  <1>1. UNCHANGED status
    BY DEF conclude
  <1>2. CASE cmd.name = "LIST" /\ sent
    <2>1. first # "OK"
      BY <1>2 DEF ConversationOK, CommandOK, NotExecuted, Executed, OkAgrees
    <2>2. tableUsers' = rows /\ unseen' = later
      BY <1>2, <2>1 DEF conclude, newTable, AnsweredOk
    <2>3. \A u \in Users : rows[u] \in {"none", status[u]} \/ u \in later
      BY <1>2 DEF ConversationOK, CommandOK, NotExecuted, Executed, NoRows
    <2> QED
      BY <1>1, <2>2, <2>3 DEF BanColumnRight, TypeOK, Statuses
  <1>3. CASE AnsweredOk(sent) /\ cmd.name # "LIST"
    <2>1. OkAgrees
      BY <1>3 DEF AnsweredOk, ConversationOK, CommandOK, NotExecuted, Executed
    <2>2. unseen' = (unseen \ {cmd.login}) \cup later
      BY <1>3 DEF conclude
    <2>3. tableUsers' = [tableUsers EXCEPT ![cmd.login] =
                            IF cmd.name = "BAN" THEN "banned" ELSE "active"]
      BY <1>3, <2>1 DEF conclude, newTable, OkAgrees
    <2>4. tableUsers \in [Users -> Statuses \cup {"none"}]
      BY DEF TypeOK
    <2> QED
      BY <1>1, <2>1, <2>2, <2>3, <2>4 DEF BanColumnRight, OkAgrees
  <1>4. CASE ~ (cmd.name = "LIST" /\ sent) /\ ~ AnsweredOk(sent)
    <2>1. tableUsers' = tableUsers /\ unseen' = unseen
      BY <1>4 DEF conclude, newTable
    <2> QED
      BY <1>1, <2>1 DEF BanColumnRight
  <1> QED
    BY <1>2, <1>3, <1>4 DEF AnsweredOk

LEMMA NextBanColumn ==
    TypeOK /\ ConversationOK /\ BanColumnRight /\ [Next]_vars => BanColumnRight'
  <1> SUFFICES ASSUME TypeOK, ConversationOK, BanColumnRight, [Next]_vars
               PROVE  BanColumnRight'
    OBVIOUS
  <1>1. CASE UNCHANGED <<tableUsers, status, unseen>>
    BY <1>1 DEF BanColumnRight
  <1>2. CASE guiStep
    BY <1>1, <1>2, ConcludeBanColumn
       DEF guiStep, connectFails, connectToHost, loginAnswered, loginFails, sendFails,
           readLine, commandEnds, readTimesOut, auxVars
  <1> QED
    BY <1>1, <1>2, ServerBanColumn
       DEF Next, click, auxVars, vars, windowVars

(* The ban that the window shows of a user is the one in the database, whatever *)
(* late handlers, overtaking messages, lost lines and timeouts do, unless the   *)
(* ban was changed by a command whose OK the window has not seen, or by a login *)
(* that overwrote it.                                                           *)
THEOREM BanColumnStaysRight == Spec => []BanColumnRight
  <1>1. Init => ConversationOK /\ BanColumnRight
    BY DEF Init, ConversationOK, BeforeCommand, LoginOK, CommandOK, BanColumnRight, NoRows
  <1> QED
    BY <1>1, Typed, NextConversation, NextBanColumn, PTL DEF Spec
=============================================================================
