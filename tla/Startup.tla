------------------------------ MODULE Startup ------------------------------
(***************************************************************************)
(* From main to the accept loop: loadServerConfig reads the environment    *)
(* and the configuration file, main takes a port from the command line,    *)
(* and Server's constructor opens the pool, configures the log, pings the  *)
(* database and opens the listening socket.  Any step can throw, and then  *)
(* the process ends.  The texts of the settings are numbers, some of them  *)
(* negative or too large, numbers with something after them ("64k", "1e3"), *)
(* or no numbers at all; the integer types keep their widths, scaled down.  *)
(***************************************************************************)
EXTENDS Integers, Sequences

CONSTANTS
    Numbers,        \* bound: the numbers an operator writes
    Defaults,       \* the values of ServerConfig's initializers
    IntMax,         \* largest int
    SizeMod,        \* 2^64, one more than the largest unsigned long and size_t
    PortMod,        \* 2^16
    MinFrameSize,   \* 1024
    ConnLimit       \* PostgreSQL's max_connections

IntSettings == {"port", "maxClients", "readTimeoutSeconds"}
SizeSettings == {"dbPoolSize", "maxFrameSize"}
Settings == IntSettings \cup SizeSettings

(* What stands in a variable, a line of the file or an argument: n is the number *)
(* at the front of it, which is all of a "number" and a part of a "prefixed".    *)
Unset == [kind |-> "unset", n |-> 0]
Garbage == [kind |-> "garbage", n |-> 0]
Texts == {Unset, Garbage} \cup [kind : {"number", "prefixed"}, n : Numbers]

ASSUME StartupAssumption ==
    /\ Numbers \subseteq Int
    /\ IntMax \in Nat /\ PortMod \in 1..IntMax /\ SizeMod \in Nat /\ SizeMod > IntMax
    /\ ConnLimit \in Nat /\ ConnLimit < SizeMod \div 2 /\ MinFrameSize \in 1..IntMax
    /\ Defaults \in [Settings -> 1..IntMax]

VARIABLES
    env,        \* the environment: the text of each setting
    file,       \* config/server.conf: likewise
    dbConn,     \* whether either of them gives db_conn
    argv,       \* the argument of the command line
    stage,      \* what the process does next, or how it ended
    config,     \* config_
    connections,\* connections in the pool
    pinged,     \* ping has returned true
    stderrFallback, \* the log file could not be opened
    listening   \* the port that is bound and listened on, -1 before

inputVars == <<env, file, dbConn, argv>>
vars == <<inputVars, stage, config, connections, pinged, stderrFallback, listening>>

AllUnset == [s \in Settings |-> Unset]

(* The process starts, in whatever environment and with whatever file. *)
AnyInit ==
    /\ env \in [Settings -> Texts]
    /\ file \in [Settings -> Texts]
    /\ dbConn \in BOOLEAN
    /\ argv \in Texts
    /\ stage = "load"
    /\ config = Defaults
    /\ connections = 0
    /\ pinged = FALSE
    /\ stderrFallback = TRUE
    /\ listening = -1

(* Bound: an operator writes one setting, in one place or in both. *)
Init ==
    /\ \E s \in Settings, inEnv, inFile \in Texts :
        /\ env = [AllUnset EXCEPT ![s] = inEnv]
        /\ file = [AllUnset EXCEPT ![s] = inFile]
    /\ AnyInit

-----------------------------------------------------------------------------
(* Mutated form: the file goes first. *)
settingFileFirst(s) == IF file[s] # Unset THEN file[s] ELSE env[s]

(* An empty variable counts as unset; an empty line of the file gives the default. *)
setting(s) == IF env[s] # Unset THEN env[s] ELSE file[s]

(* stoi and stoul read the number at the front and ignore the rest: the callers *)
(* do not ask how many characters were used.                                    *)
stoiThrows(text) == text.kind = "garbage" \/ text.n \notin (-IntMax - 1)..IntMax

(* stoul takes a sign: "-1" is the largest unsigned long. *)
stoulThrows(text) == text.kind = "garbage" \/ text.n \notin (1 - SizeMod)..(SizeMod - 1)

parseInt(s) == IF setting(s) = Unset THEN Defaults[s] ELSE setting(s).n

parseSize(s) == IF setting(s) = Unset THEN Defaults[s] ELSE setting(s).n % SizeMod

loadThrows ==
    \/ \E s \in IntSettings : stoiThrows(setting(s))
    \/ \E s \in SizeSettings : stoulThrows(setting(s))
    \/ ~dbConn

loaded == [s \in Settings |-> IF s \in IntSettings THEN parseInt(s) ELSE parseSize(s)]

Valid(c) ==
    /\ c["dbPoolSize"] # 0
    /\ c["port"] \in 1..(PortMod - 1)
    /\ c["maxClients"] > 0
    /\ c["readTimeoutSeconds"] > 0
    /\ c["maxFrameSize"] >= MinFrameSize

exit ==
    /\ stage' = "exited"
    /\ connections' = 0
    /\ listening' = -1
    /\ UNCHANGED <<inputVars, config, pinged, stderrFallback>>

(* loadServerConfig. *)
loadServerConfig ==
    /\ stage = "load"
    /\ ~loadThrows /\ Valid(loaded)
    /\ config' = loaded
    /\ stage' = "argv"
    /\ UNCHANGED <<inputVars, connections, pinged, stderrFallback, listening>>

loadFails == stage = "load" /\ (loadThrows \/ ~Valid(loaded)) /\ exit

(* main: the argument replaces the port after the validation. *)
portOverride ==
    /\ stage = "argv"
    /\ ~stoiThrows(argv)
    /\ config' = IF argv = Unset THEN config ELSE [config EXCEPT !["port"] = argv.n]
    /\ stage' = "pool"
    /\ UNCHANGED <<inputVars, connections, pinged, stderrFallback, listening>>

portOverrideFails == stage = "argv" /\ stoiThrows(argv) /\ exit

(* DatabasePool's constructor, one connection. *)
openConnection ==
    /\ stage = "pool"
    /\ connections < config["dbPoolSize"]
    /\ connections < ConnLimit
    /\ connections' = connections + 1
    /\ UNCHANGED <<inputVars, stage, config, pinged, stderrFallback, listening>>

(* Mutated form: a connection that cannot be opened is tried again. *)
openConnectionRetries == FALSE

(* The database refuses: it is down, or has no connection left. *)
openConnectionFails ==
    /\ stage = "pool"
    /\ connections < config["dbPoolSize"]
    /\ exit

poolComplete ==
    /\ stage = "pool"
    /\ connections = config["dbPoolSize"]
    /\ stage' = "configure"
    /\ UNCHANGED <<inputVars, config, connections, pinged, stderrFallback, listening>>

(* Logger::configure never throws: without a file, stderr. *)
configureLogger ==
    /\ stage = "configure"
    /\ stderrFallback' \in BOOLEAN
    /\ stage' = "ping"
    /\ UNCHANGED <<inputVars, config, connections, pinged, listening>>

(* Mutated form: the result of ping is not looked at. *)
pingIgnored ==
    /\ stage = "ping"
    /\ pinged' \in BOOLEAN
    /\ stage' = "initSocket"
    /\ UNCHANGED <<inputVars, config, connections, stderrFallback, listening>>

ping ==
    /\ stage = "ping"
    /\ pinged' = TRUE
    /\ stage' = "initSocket"
    /\ UNCHANGED <<inputVars, config, connections, stderrFallback, listening>>

pingFails == stage = "ping" /\ exit

(* initSocket: the port is cut down to 16 bits; for 0 the system picks one. *)
initSocket ==
    /\ stage = "initSocket"
    /\ listening' \in IF config["port"] % PortMod = 0 THEN 1..(PortMod - 1)
                      ELSE {config["port"] % PortMod}
    /\ stage' = "serving"
    /\ UNCHANGED <<inputVars, config, connections, pinged, stderrFallback>>

(* socket, bind or listen fails. *)
initSocketFails == stage = "initSocket" /\ exit

Next ==
    \/ loadServerConfig \/ loadFails \/ portOverride \/ portOverrideFails
    \/ openConnection \/ openConnectionFails \/ poolComplete
    \/ configureLogger \/ ping \/ pingFails \/ initSocket \/ initSocketFails

Spec == Init /\ [][Next]_vars

(* The same without the bound on what the operator writes. *)
AnySpec == AnyInit /\ [][Next]_vars

(* The one thread there is runs. *)
FairSpec == Spec /\ WF_vars(Next)

-----------------------------------------------------------------------------
(* The number at the front of the text that counts (README: "Environment       *)
(* variables take precedence over config/server.conf", "Optional CLI port       *)
(* override").                                                                 *)
Written(s) ==
    LET texts == <<IF s = "port" THEN argv ELSE Unset, env[s], file[s]>>
        given == {i \in DOMAIN texts : texts[i] # Unset}
    IN  IF given = {} THEN Defaults[s]
        ELSE texts[CHOOSE i \in given : \A j \in given : i <= j].n

(* A server that serves has a database, a pool of the size, the port and the   *)
(* limits that the number at the front of the operator's text asks for: that   *)
(* number is not wrapped, cut or replaced on the way, except a negative frame  *)
(* size and a port of the command line out of range.  (A negative pool size    *)
(* wraps as well, but the database runs out of connections before such a pool  *)
(* is complete, unless the number is so far below zero that it wraps to a      *)
(* small one: 1 - 2^64 asks for one connection.)  It is only the number at the *)
(* front: what follows it is dropped silently, so that "64k" asks for 64 and   *)
(* "1e3" for 1, although Config.cpp calls such a text an error ("must be an    *)
(* integer").                                                                  *)
ServesAsWritten ==
    stage = "serving" =>
        /\ dbConn
        /\ Written("dbPoolSize") > -(SizeMod \div 2) => connections = Written("dbPoolSize")
        /\ \A s \in {"maxClients", "readTimeoutSeconds"} : config[s] = Written(s) /\ Written(s) > 0
        /\ Written("maxFrameSize") >= 0 => config["maxFrameSize"] = Written("maxFrameSize")
        /\ Written("port") \in 1..(PortMod - 1) => listening = Written("port")
        /\ Written("port") \notin 1..(PortMod - 1) => argv # Unset

(* Nobody can connect before the database has answered on a full pool. *)
ReadyWhenListening ==
    listening # -1 => pinged /\ connections = config["dbPoolSize"]

(* The process does not hang on the way: it serves, or it has ended. *)
StartupEnds == <>(stage \in {"serving", "exited"})
=============================================================================
