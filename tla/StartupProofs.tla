--------------------------- MODULE StartupProofs ---------------------------
(* Theorems about Startup: for every environment, every file, every argument,  *)
(* all widths of the integer types and every limit of the database.            *)
EXTENDS Startup, TLAPS

(* The port main takes from the command line, over what was loaded. *)
overridden == IF argv = Unset THEN loaded ELSE [loaded EXCEPT !["port"] = argv.n]

Stages ==
    {"load", "argv", "pool", "configure", "ping", "initSocket", "serving", "exited"}

TypeOK ==
    /\ env \in [Settings -> Texts]
    /\ file \in [Settings -> Texts]
    /\ dbConn \in BOOLEAN
    /\ argv \in Texts
    /\ stage \in Stages
    /\ connections \in 0..ConnLimit
    /\ listening = -1 \/ listening \in 1..(PortMod - 1)

(* What has been done when main has come as far as stage. *)
StageOK ==
    /\ stage \notin {"load", "exited"} => ~loadThrows /\ Valid(loaded)
    /\ stage = "argv" => config = loaded
    /\ stage \notin {"load", "argv", "exited"} => ~stoiThrows(argv) /\ config = overridden
    /\ stage \in {"configure", "ping", "initSocket", "serving"} =>
          connections = config["dbPoolSize"]
    /\ stage \in {"initSocket", "serving"} => pinged
    /\ stage # "serving" => listening = -1
    /\ stage = "serving" =>
          config["port"] % PortMod = 0 \/ listening = config["port"] % PortMod

IndInv == TypeOK /\ StageOK

(* What is read from the environment and the file stays what it is. *)
LEMMA SameInputs ==
    ASSUME UNCHANGED inputVars
    PROVE  /\ loadThrows' <=> loadThrows
           /\ loaded' = loaded
           /\ overridden' = overridden
           /\ stoiThrows(argv)' <=> stoiThrows(argv)
  BY DEF inputVars, loadThrows, loaded, overridden, parseInt, parseSize, setting,
         stoiThrows, stoulThrows

(* x % PortMod is a port, or 0. *)
LEMMA PortRange == ASSUME NEW x \in Int PROVE x % PortMod \in 0..(PortMod - 1)
  BY StartupAssumption

LEMMA TextNumber ==
    ASSUME NEW t \in Texts
    PROVE  t.n \in Int
  <1>1. CASE t \in [kind : {"number", "prefixed"}, n : Numbers]
    BY <1>1, StartupAssumption
  <1>2. CASE t = Unset \/ t = Garbage
    <2>1. Unset.n = 0 /\ Garbage.n = 0
      BY DEF Unset, Garbage
    <2> QED
      BY <1>2, <2>1
  <1> QED
    BY <1>1, <1>2 DEF Texts

LEMMA SettingType ==
    ASSUME TypeOK, NEW s \in Settings
    PROVE  setting(s) \in Texts
  BY DEF TypeOK, setting

LEMMA LoadedType == TypeOK => loaded \in [Settings -> Int]
  <1> SUFFICES ASSUME TypeOK, NEW s \in Settings PROVE parseInt(s) \in Int /\ parseSize(s) \in Int
    BY DEF loaded
  <1>1. setting(s).n \in Int
    BY SettingType, TextNumber
  <1>2. setting(s).n % SizeMod \in Int
    BY <1>1, StartupAssumption
  <1>3. Defaults[s] \in Int
    BY StartupAssumption
  <1> QED
    BY <1>1, <1>2, <1>3 DEF parseInt, parseSize

LEMMA NextIndInv == IndInv /\ [Next]_vars => IndInv'
  <1> SUFFICES ASSUME IndInv, [Next]_vars PROVE IndInv'
    OBVIOUS
  <1>1. UNCHANGED inputVars
    BY DEF Next, loadServerConfig, loadFails, portOverride, portOverrideFails,
           openConnection, openConnectionFails, poolComplete, configureLogger, ping,
           pingFails, initSocket, initSocketFails, exit, vars
  <1>2. /\ loadThrows' <=> loadThrows
        /\ loaded' = loaded
        /\ overridden' = overridden
        /\ stoiThrows(argv)' <=> stoiThrows(argv)
        /\ Valid(loaded)' <=> Valid(loaded)
    BY <1>1, SameInputs DEF Valid
  <1> USE <1>1, <1>2, StartupAssumption DEF IndInv, TypeOK, StageOK, Stages, inputVars
  <1>3. CASE loadServerConfig
    BY <1>3 DEF loadServerConfig
  <1>4. CASE exit
    BY <1>4 DEF exit
  <1>5. CASE portOverride
    BY <1>5 DEF portOverride, overridden
  <1>6. CASE openConnection
    BY <1>6 DEF openConnection
  <1>7. CASE poolComplete
    BY <1>7 DEF poolComplete
  <1>8. CASE configureLogger
    BY <1>8 DEF configureLogger
  <1>9. CASE ping
    BY <1>9 DEF ping
  <1>10. CASE initSocket
    <2>1. config["port"] \in Int
      <3>1. config = overridden
        BY <1>10 DEF initSocket
      <3>2. loaded["port"] \in Int /\ argv.n \in Int
        BY LoadedType, TextNumber DEF Settings, IntSettings
      <3>3. overridden["port"] = IF argv = Unset THEN loaded["port"] ELSE argv.n
        BY DEF overridden, loaded, Settings, IntSettings
      <3> QED
        BY <3>1, <3>2, <3>3
    <2>2. config["port"] % PortMod \in 0..(PortMod - 1)
      BY <2>1, PortRange
    <2>3. /\ listening' \in 1..(PortMod - 1)
          /\ config["port"] % PortMod = 0 \/ listening' = config["port"] % PortMod
      BY <1>10, <2>2 DEF initSocket
    <2> QED
      BY <1>10, <2>3 DEF initSocket
  <1>11. CASE UNCHANGED vars
    BY <1>11 DEF vars
  <1> QED
    BY <1>3, <1>4, <1>5, <1>6, <1>7, <1>8, <1>9, <1>10, <1>11
       DEF Next, loadFails, portOverrideFails, openConnectionFails, pingFails,
           initSocketFails

(* What each stage of main and of Server's constructor can rely on. *)
THEOREM Inductive == AnySpec => []IndInv
  <1>1. AnyInit => IndInv
    BY StartupAssumption DEF AnyInit, IndInv, TypeOK, StageOK, Stages
  <1> QED
    BY <1>1, NextIndInv, PTL DEF AnySpec

(* The specification that TLC checks is a case of it: one setting written. *)
LEMMA BoundedInputs == Spec => AnySpec
  BY DEF Spec, AnySpec, Init

(* Nobody can connect before the database has answered on a full pool, whatever *)
(* the operator wrote.                                                          *)
THEOREM ReadyBeforeListening == AnySpec => []ReadyWhenListening
  <1>1. IndInv => ReadyWhenListening
    BY DEF IndInv, StageOK, ReadyWhenListening
  <1> QED
    BY <1>1, Inductive, PTL

-----------------------------------------------------------------------------
(* The precedence of the three places, spelled out. *)
LEMMA WrittenIs ==
    ASSUME NEW s \in Settings
    PROVE  Written(s) =
              IF s = "port" /\ argv # Unset THEN argv.n
              ELSE IF setting(s) = Unset THEN Defaults[s] ELSE setting(s).n
  <1> DEFINE texts == <<IF s = "port" THEN argv ELSE Unset, env[s], file[s]>>
             given == {i \in DOMAIN texts : texts[i] # Unset}
             first == CHOOSE i \in given : \A j \in given : i <= j
  <1>1. given \subseteq 1..3
    OBVIOUS
  <1>2. given # {} => first \in given /\ \A j \in given : first <= j
    <2> SUFFICES ASSUME given # {}
                 PROVE  \E i \in given : \A j \in given : i <= j
      OBVIOUS
    <2> QED
      BY <1>1
  <1>3. Written(s) = IF given = {} THEN Defaults[s] ELSE texts[first].n
    BY DEF Written
  <1> HIDE DEF first
  <1> QED
    BY <1>1, <1>2, <1>3 DEF setting

(* What a size_t makes of a number that stoul takes. *)
LEMMA SizeWraps ==
    ASSUME NEW n \in (1 - SizeMod)..(SizeMod - 1)
    PROVE  /\ n >= 0 => n % SizeMod = n
           /\ n < 0 => n % SizeMod = n + SizeMod
  BY StartupAssumption

(* For every environment, file and argument, a server that serves has the pool, *)
(* the limits and the port that the numbers at the front of the texts ask for,  *)
(* whether or not anything follows them, with the exceptions that               *)
(* ServesAsWritten names.                                                       *)
THEOREM ServedAsWritten == AnySpec => []ServesAsWritten
  <1>1. IndInv => ServesAsWritten
    <2> SUFFICES ASSUME IndInv, stage = "serving"
                 PROVE  /\ dbConn
                        /\ Written("dbPoolSize") > -(SizeMod \div 2) =>
                              connections = Written("dbPoolSize")
                        /\ \A s \in {"maxClients", "readTimeoutSeconds"} :
                              config[s] = Written(s) /\ Written(s) > 0
                        /\ Written("maxFrameSize") >= 0 =>
                              config["maxFrameSize"] = Written("maxFrameSize")
                        /\ Written("port") \in 1..(PortMod - 1) => listening = Written("port")
                        /\ Written("port") \notin 1..(PortMod - 1) => argv # Unset
      BY DEF ServesAsWritten
    <2> USE DEF Settings, IntSettings, SizeSettings
    <2>1. TypeOK /\ ~loadThrows /\ Valid(loaded) /\ config = overridden
      BY DEF IndInv, StageOK
    <2>2. \A s \in Settings \ {"port"} : config[s] = loaded[s]
      BY <2>1 DEF overridden, loaded
    <2>3. config["port"] = IF argv = Unset THEN loaded["port"] ELSE argv.n
      BY <2>1 DEF overridden, loaded
    <2>4. dbConn
      BY <2>1 DEF loadThrows
    <2>5. \A s \in IntSettings : loaded[s] = parseInt(s)
      BY DEF loaded
    <2>6. \A s \in SizeSettings : loaded[s] = parseSize(s)
      BY DEF loaded
    <2>7. ASSUME NEW s \in {"maxClients", "readTimeoutSeconds"}
          PROVE  config[s] = Written(s) /\ Written(s) > 0
      <3>1. config[s] = Written(s)
        BY <2>2, <2>5, WrittenIs DEF parseInt
      <3> QED
        BY <2>1, <2>2, <3>1 DEF Valid
    <2>8. ASSUME NEW s \in SizeSettings
          PROVE  /\ Written(s) \in Int
                 /\ Written(s) >= 0 => config[s] = Written(s)
                 /\ Written(s) < 0 => config[s] = Written(s) + SizeMod
      <3>1. Written(s) = IF setting(s) = Unset THEN Defaults[s] ELSE setting(s).n
        BY WrittenIs
      <3>2. CASE setting(s) = Unset
        BY <2>2, <2>6, <3>1, <3>2, StartupAssumption DEF parseSize
      <3>3. CASE setting(s) # Unset
        <4>1. setting(s).n \in (1 - SizeMod)..(SizeMod - 1)
          BY <2>1 DEF loadThrows, stoulThrows
        <4>2. config[s] = setting(s).n % SizeMod
          BY <2>2, <2>6, <3>3 DEF parseSize
        <4> QED
          BY <3>1, <3>3, <4>1, <4>2, SizeWraps
      <3> QED
        BY <3>2, <3>3
    <2>9. Written("dbPoolSize") > -(SizeMod \div 2) => connections = Written("dbPoolSize")
      <3>1. connections = config["dbPoolSize"] /\ connections \in 0..ConnLimit
        BY DEF IndInv, TypeOK, StageOK
      <3>2. SizeMod \div 2 \in Nat /\ 2 * (SizeMod \div 2) <= SizeMod
        BY StartupAssumption
      <3> QED
        BY <2>8, <3>1, <3>2, StartupAssumption
    <2>10. Written("maxFrameSize") >= 0 => config["maxFrameSize"] = Written("maxFrameSize")
      BY <2>8
    <2>11. config["port"] = Written("port")
      BY <2>3, <2>5, WrittenIs DEF parseInt
    <2>12. Written("port") \in 1..(PortMod - 1) => listening = Written("port")
      <3> SUFFICES ASSUME Written("port") \in 1..(PortMod - 1)
                   PROVE  listening = Written("port")
        OBVIOUS
      <3>1. Written("port") % PortMod = Written("port")
        BY StartupAssumption
      <3> QED
        BY <2>11, <3>1 DEF IndInv, StageOK
    <2>13. Written("port") \notin 1..(PortMod - 1) => argv # Unset
      BY <2>1, <2>3, <2>11 DEF Valid
    <2> QED
      BY <2>4, <2>7, <2>9, <2>10, <2>12, <2>13
  <1> QED
    BY <1>1, Inductive, PTL
=============================================================================
