--------------------------- MODULE DaemonEndpoint ---------------------------
(***************************************************************************)
(* How one installation's daemon is found: the daemon process that binds a  *)
(* port and a socket and publishes both (internal/daemon, cmd/kivgraph/     *)
(* daemon.go), the platform's supervisor that keeps it up                   *)
(* (internal/supervisor), and the `serve` processes clients spawn, which    *)
(* relay to it, install it, or serve by themselves (cmd/kivgraph/endpoint.  *)
(* go).  They share a directory, and nothing else.                          *)
(***************************************************************************)
EXTENDS Naturals, FiniteSets

CONSTANTS
  Daemons,         \* the processes that may run `kivgraph daemon`
  UnitDaemon,      \* the one the supervisor starts
  Serves,          \* `serve` processes
  Ports,           \* loopback ports
  DefaultPort,     \* http.go:43
  Nobody,          \* no process, no file
  Stranger,        \* a process of another program
  Stale,           \* a socket file nobody listens on
  StartLimit,      \* StartLimitBurst
  DaemonSettings   \* the circumstances one run covers

NoPort == 0

(***************************************************************************)
(* Whether the platform has a supervisor, which daemons may be started by   *)
(* hand, which clients come, how many deaths and how many stops, restarts   *)
(* and removals by the user, and whether another program may take a port.   *)
(***************************************************************************)
DaemonSetting ==
  [supervised: BOOLEAN, byHand: SUBSET (Daemons \ {UnitDaemon}), serves: SUBSET Serves,
   deaths: Nat, stops: Nat, strangers: BOOLEAN]

ASSUME PortsAssumption == DefaultPort \in Ports /\ NoPort \notin Ports
ASSUME UnitAssumption  == UnitDaemon \in Daemons /\ StartLimit \in Nat
ASSUME NobodyAssumption ==
  /\ {Nobody, Stale, Stranger} \cap (Daemons \cup Serves) = {}
  /\ Cardinality({Nobody, Stale, Stranger}) = 3
ASSUME DaemonSettingsAssumption == DaemonSettings \subseteq DaemonSetting

VARIABLES
  daemonSetting,  \* constant in a behaviour
  daemon,         \* the daemon processes
  listening,      \* who listens on each port
  socket,         \* daemon.sock: who bound it, Stale or Nobody
  savedPort,      \* daemon.port
  endpoint,       \* daemon.json: the port it names, or NoPort
  unit,           \* the supervisor's unit: installed, a start due, starts left
  provisioning,   \* the holder of daemon-provision.lock
  serve,          \* how far each `serve` is
  url,            \* history: the port of the last endpoint published
  turnedAway,     \* history: that port was found taken since
  troubles        \* bound: deaths and stops still to come

filesVars    == <<savedPort, endpoint, socket>>
processVars  == <<daemon, listening>>
clientVars   == <<provisioning, serve>>
historyVars  == <<url, turnedAway>>
endpointVars == <<daemonSetting, processVars, filesVars, unit, clientVars, historyVars,
                  troubles>>

NotRunning == [phase |-> "down", port |-> NoPort, stopping |-> FALSE, open |-> {}]

DaemonAt(d, phase)   == daemon[d].phase = phase
DaemonGoes(d, phase) == daemon' = [daemon EXCEPT ![d].phase = phase]
FreedOf(d) == [p \in Ports |-> IF listening[p] = d THEN Nobody ELSE listening[p]]
Trouble(kind) ==
  /\ troubles[kind] > 0
  /\ troubles' = [troubles EXCEPT ![kind] = @ - 1]

-----------------------------------------------------------------------------
(* The daemon comes up: HTTP first, then the socket (runDaemon). *)

Preferred == IF savedPort = NoPort THEN DefaultPort ELSE savedPort

(* Mutant: the default port every time. *)
BindHTTPByDefault(d) ==
  /\ DaemonAt(d, "starting")
  /\ \E p \in Ports :
       /\ listening[p] = Nobody
       /\ listening[DefaultPort] = Nobody => p = DefaultPort
       /\ daemon' = [daemon EXCEPT ![d].phase = "bound", ![d].port = p]
       /\ listening' = [listening EXCEPT ![p] = d]
  /\ turnedAway' = (turnedAway \/ (url # NoPort /\ listening[url] # Nobody))
  /\ UNCHANGED <<daemonSetting, filesVars, unit, clientVars, url, troubles>>

(* The preferred port, or whatever the system gives if that one is in use. *)
BindHTTP(d) ==
  /\ DaemonAt(d, "starting")
  /\ \E p \in Ports :
       /\ listening[p] = Nobody
       /\ listening[Preferred] = Nobody => p = Preferred
       /\ daemon' = [daemon EXCEPT ![d].phase = "bound", ![d].port = p]
       /\ listening' = [listening EXCEPT ![p] = d]
  /\ turnedAway' = (turnedAway \/ (url # NoPort /\ listening[url] # Nobody))
  /\ UNCHANGED <<daemonSetting, filesVars, unit, clientVars, url, troubles>>

PersistPort(d) ==
  /\ DaemonAt(d, "bound")
  /\ savedPort' = daemon[d].port
  /\ DaemonGoes(d, "persisted")
  /\ UNCHANGED <<daemonSetting, listening, endpoint, socket, unit, clientVars,
                 historyVars, troubles>>

(* writeEndpoint: over whatever another daemon has published. *)
PublishEndpoint(d) ==
  /\ DaemonAt(d, "persisted")
  /\ endpoint' = daemon[d].port
  /\ url' = daemon[d].port /\ turnedAway' = FALSE
  /\ DaemonGoes(d, "published")
  /\ UNCHANGED <<daemonSetting, listening, savedPort, socket, unit, clientVars, troubles>>

(* Listen looks whether there is a socket file, and dials it. *)
CheckSocket(d) ==
  /\ DaemonAt(d, "published")
  /\ DaemonGoes(d, CASE socket = Nobody -> "binding"
                     [] socket = Stale  -> "removing"
                     [] OTHER           -> "refused")
  /\ UNCHANGED <<daemonSetting, listening, filesVars, unit, clientVars, historyVars,
                 troubles>>

(* Mutant: what is left of a killed daemon stays. *)
KeepSocket(d) ==
  /\ DaemonAt(d, "removing")
  /\ DaemonGoes(d, "binding")
  /\ UNCHANGED <<daemonSetting, listening, filesVars, unit, clientVars, historyVars,
                 troubles>>

(* The file is removed: the stale one, or the one bound since. *)
RemoveSocket(d) ==
  /\ DaemonAt(d, "removing")
  /\ DaemonGoes(d, IF socket = Nobody THEN "refused" ELSE "binding")
  /\ socket' = Nobody
  /\ UNCHANGED <<daemonSetting, listening, savedPort, endpoint, unit, clientVars,
                 historyVars, troubles>>

BindSocket(d) ==
  /\ DaemonAt(d, "binding")
  /\ IF socket = Nobody
     THEN /\ socket' = d
          /\ daemon' = [daemon EXCEPT ![d].phase = "serving",
                                      ![d].open = {"socket", "http", "endpoint"}]
     ELSE DaemonGoes(d, "refused") /\ UNCHANGED socket
  /\ UNCHANGED <<daemonSetting, listening, savedPort, endpoint, unit, clientVars,
                 historyVars, troubles>>

-----------------------------------------------------------------------------
(* The daemon goes down. *)

(* The supervisor starts again what failed, while its limit lasts. *)
UnitAfterFailure(d) ==
  IF d = UnitDaemon /\ unit.installed /\ unit.left > 0
  THEN [unit EXCEPT !.due = TRUE, !.left = @ - 1] ELSE unit

(* HTTPServer.Close: no socket, so the endpoint is withdrawn, whoever's it is *)
(* by now, and the command fails.                                             *)
WithdrawAndFail(d) ==
  /\ DaemonAt(d, "refused")
  /\ endpoint' = NoPort
  /\ listening' = FreedOf(d)
  /\ daemon' = [daemon EXCEPT ![d] = NotRunning]
  /\ unit' = UnitAfterFailure(d)
  /\ UNCHANGED <<daemonSetting, savedPort, socket, clientVars, historyVars, troubles>>

(* A death, or a failure before anything is published: the files stay. *)
DaemonDies(d) ==
  /\ daemon[d].phase # "down" /\ Trouble("deaths")
  /\ listening' = FreedOf(d)
  /\ socket' = IF socket = d THEN Stale ELSE socket
  /\ daemon' = [daemon EXCEPT ![d] = NotRunning]
  /\ unit' = UnitAfterFailure(d)
  /\ UNCHANGED <<daemonSetting, savedPort, endpoint, clientVars, historyVars>>

(* SIGTERM: a daemon that is still coming up first comes up. *)
StopDaemon(d) ==
  /\ daemon[d].phase # "down" /\ ~daemon[d].stopping /\ Trouble("stops")
  /\ daemon' = [daemon EXCEPT ![d].stopping = TRUE]
  /\ UNCHANGED <<daemonSetting, listening, filesVars, unit, clientVars, historyVars>>

Closes(d, half) ==
  /\ DaemonAt(d, "serving") /\ daemon[d].stopping /\ half \in daemon[d].open
  /\ daemon' = [daemon EXCEPT ![d].open = @ \ {half}]

(* Closing the listener unlinks its path. *)
CloseSocket(d) ==
  /\ Closes(d, "socket")
  /\ socket' = Nobody
  /\ UNCHANGED <<daemonSetting, listening, savedPort, endpoint, unit, clientVars,
                 historyVars, troubles>>

CloseHTTP(d) ==
  /\ Closes(d, "http")
  /\ listening' = FreedOf(d)
  /\ UNCHANGED <<daemonSetting, filesVars, unit, clientVars, historyVars, troubles>>

(* Serve removes the endpoint on its way out. *)
RemoveEndpoint(d) ==
  /\ "http" \notin daemon[d].open /\ Closes(d, "endpoint")
  /\ endpoint' = NoPort
  /\ UNCHANGED <<daemonSetting, listening, savedPort, socket, unit, clientVars,
                 historyVars, troubles>>

(* A clean exit is not started again. *)
DaemonExits(d) ==
  /\ DaemonAt(d, "serving") /\ daemon[d].open = {}
  /\ daemon' = [daemon EXCEPT ![d] = NotRunning]
  /\ UNCHANGED <<daemonSetting, listening, filesVars, unit, clientVars, historyVars,
                 troubles>>

-----------------------------------------------------------------------------
(* Who starts it. *)

Starts(d) == daemon' = [daemon EXCEPT ![d] = [NotRunning EXCEPT !.phase = "starting"]]

StartByHand(d) ==
  /\ d \in daemonSetting.byHand /\ DaemonAt(d, "down")
  /\ Starts(d)
  /\ UNCHANGED <<daemonSetting, listening, filesVars, unit, clientVars, historyVars,
                 troubles>>

SupervisorStarts ==
  /\ unit.installed /\ unit.due /\ DaemonAt(UnitDaemon, "down")
  /\ Starts(UnitDaemon)
  /\ unit' = [unit EXCEPT !.due = FALSE]
  /\ UNCHANGED <<daemonSetting, listening, filesVars, clientVars, historyVars, troubles>>

(* enable --now: a unit that runs is left alone. *)
Enabled == [installed |-> TRUE, due |-> DaemonAt(UnitDaemon, "down"), left |-> StartLimit]

(* Restart, after an update: the supervisor stops the daemon and starts it. *)
RestartUnit ==
  /\ unit.installed /\ Trouble("stops")
  /\ unit' = [unit EXCEPT !.due = TRUE]
  /\ daemon' = IF DaemonAt(UnitDaemon, "down") THEN daemon
               ELSE [daemon EXCEPT ![UnitDaemon].stopping = TRUE]
  /\ UNCHANGED <<daemonSetting, listening, filesVars, clientVars, historyVars>>

(* `kivgraph daemon remove` *)
RemoveUnit ==
  /\ unit.installed /\ Trouble("stops")
  /\ unit' = [unit EXCEPT !.installed = FALSE, !.due = FALSE]
  /\ daemon' = IF DaemonAt(UnitDaemon, "down") THEN daemon
               ELSE [daemon EXCEPT ![UnitDaemon].stopping = TRUE]
  /\ UNCHANGED <<daemonSetting, listening, filesVars, clientVars, historyVars>>

(* Another program takes a port nobody listens on, or leaves it. *)
StrangerMoves ==
  /\ daemonSetting.strangers
  /\ \/ \E p \in Ports : /\ listening[p] = Nobody
                         /\ \A q \in Ports : listening[q] # Stranger
                         /\ listening' = [listening EXCEPT ![p] = Stranger]
     \/ \E p \in Ports : /\ listening[p] = Stranger
                         /\ listening' = [listening EXCEPT ![p] = Nobody]
  /\ UNCHANGED <<daemonSetting, daemon, filesVars, unit, clientVars, historyVars, troubles>>

-----------------------------------------------------------------------------
(* `serve` (relayToTheDaemon, provisionDaemon). *)

ServeAt(s, phase) == s \in daemonSetting.serves /\ serve[s] = phase
ServeGoes(s, phase) == serve' = [serve EXCEPT ![s] = phase]

(* reachableDaemon: the file names a port and something answers there. *)
ReachableDaemon == endpoint # NoPort /\ listening[endpoint] # Nobody

ServeStarts(s) ==
  /\ ServeAt(s, "off")
  /\ ServeGoes(s, "probing")
  /\ UNCHANGED <<daemonSetting, processVars, filesVars, unit, provisioning, historyVars,
                 troubles>>

Probe(s) ==
  /\ ServeAt(s, "probing")
  /\ ServeGoes(s, IF ReachableDaemon THEN "relaying" ELSE "inspecting")
  /\ UNCHANGED <<daemonSetting, processVars, filesVars, unit, provisioning, historyVars,
                 troubles>>

(* Only where no unit is installed: whoever stopped the daemon meant it. *)
InspectUnit(s) ==
  /\ ServeAt(s, "inspecting")
  /\ ServeGoes(s, IF daemonSetting.supervised /\ ~unit.installed THEN "locking"
                                                                 ELSE "inProcess")
  /\ UNCHANGED <<daemonSetting, processVars, filesVars, unit, provisioning, historyVars,
                 troubles>>

(* One of a burst installs; the others wait for its daemon. *)
TakeProvisionLock(s) ==
  /\ ServeAt(s, "locking")
  /\ provisioning' = IF provisioning = Nobody THEN s ELSE provisioning
  /\ ServeGoes(s, IF provisioning = Nobody THEN "installing" ELSE "waiting")
  /\ UNCHANGED <<daemonSetting, processVars, filesVars, unit, historyVars, troubles>>

InstallUnit(s) ==
  /\ ServeAt(s, "installing")
  /\ unit' = Enabled
  /\ ServeGoes(s, "waiting")
  /\ UNCHANGED <<daemonSetting, processVars, filesVars, provisioning, historyVars, troubles>>

Released(s) == provisioning' = IF provisioning = s THEN Nobody ELSE provisioning

(* awaitDaemon: it answers, or the deadline passes. *)
AwaitDaemon(s) ==
  /\ ServeAt(s, "waiting")
  /\ ServeGoes(s, IF ReachableDaemon THEN "relaying" ELSE "inProcess")
  /\ Released(s)
  /\ UNCHANGED <<daemonSetting, processVars, filesVars, unit, historyVars, troubles>>

(* Its client leaves, its daemon does, or it is killed: the lock is freed. *)
ServeEnds(s) ==
  /\ s \in daemonSetting.serves /\ serve[s] # "off"
  /\ ServeGoes(s, "off")
  /\ Released(s)
  /\ UNCHANGED <<daemonSetting, processVars, filesVars, unit, historyVars, troubles>>

-----------------------------------------------------------------------------

(* A new installation, or one whose last daemon was killed. *)
EndpointInit ==
  /\ daemonSetting \in DaemonSettings
  /\ daemon = [d \in Daemons |-> NotRunning]
  /\ listening = [p \in Ports |-> Nobody]
  /\ \/ savedPort = NoPort /\ endpoint = NoPort /\ socket = Nobody
     \/ savedPort = DefaultPort /\ endpoint = DefaultPort /\ socket = Stale
  /\ \E installed \in {daemonSetting.supervised, FALSE} :
       unit = [installed |-> installed, due |-> installed, left |-> StartLimit]
  /\ provisioning = Nobody
  /\ serve = [s \in Serves |-> "off"]
  /\ url = endpoint /\ turnedAway = FALSE
  /\ troubles = [deaths |-> daemonSetting.deaths, stops |-> daemonSetting.stops]

DaemonStep(d) ==
  \/ BindHTTP(d)
  \/ PersistPort(d)
  \/ PublishEndpoint(d)
  \/ CheckSocket(d)
  \/ RemoveSocket(d)
  \/ BindSocket(d)
  \/ WithdrawAndFail(d)
  \/ CloseSocket(d)
  \/ CloseHTTP(d)
  \/ RemoveEndpoint(d)
  \/ DaemonExits(d)

UserStep ==
  \/ \E d \in Daemons : StartByHand(d) \/ StopDaemon(d)
  \/ RestartUnit
  \/ RemoveUnit

ServeStep(s) ==
  \/ Probe(s)
  \/ InspectUnit(s)
  \/ TakeProvisionLock(s)
  \/ InstallUnit(s)
  \/ AwaitDaemon(s)

EndpointNext ==
  \/ \E d \in Daemons : DaemonStep(d) \/ DaemonDies(d)
  \/ SupervisorStarts
  \/ UserStep
  \/ StrangerMoves
  \/ \E s \in Serves : ServeStarts(s) \/ ServeStep(s) \/ ServeEnds(s)

(* Processes that live go on, and the supervisor starts what is due. *)
EndpointFairness ==
  /\ \A d \in Daemons : WF_endpointVars(DaemonStep(d))
  /\ WF_endpointVars(SupervisorStarts)

EndpointSpec == EndpointInit /\ [][EndpointNext]_endpointVars /\ EndpointFairness

-----------------------------------------------------------------------------

EndpointTypeOK ==
  /\ daemonSetting \in DaemonSettings
  /\ daemon \in [Daemons ->
       [phase: {"down", "starting", "bound", "persisted", "published", "removing",
                "binding", "refused", "serving"},
        port: Ports \cup {NoPort}, stopping: BOOLEAN,
        open: SUBSET {"socket", "http", "endpoint"}]]
  /\ listening \in [Ports -> Daemons \cup {Nobody, Stranger}]
  /\ socket \in Daemons \cup {Nobody, Stale}
  /\ savedPort \in Ports \cup {NoPort} /\ endpoint \in Ports \cup {NoPort}
  /\ unit \in [installed: BOOLEAN, due: BOOLEAN, left: 0 .. StartLimit]
  /\ provisioning \in Serves \cup {Nobody}
  /\ serve \in [Serves -> {"off", "probing", "inspecting", "locking", "installing",
                           "waiting", "relaying", "inProcess"}]

Answers(d) ==
  /\ DaemonAt(d, "serving") /\ ~daemon[d].stopping
  /\ endpoint = daemon[d].port /\ socket = d

(***************************************************************************)
(* Killed at any moment, over the files its lives left behind, with its     *)
(* port taken by another program: the supervised daemon comes back on both  *)
(* doors, and the endpoint names it.  It takes deaths within the start      *)
(* limit, nobody who stops it, and no second daemon.                        *)
(***************************************************************************)
DaemonRecovers ==
  LET alone == daemonSetting.byHand = {} /\ daemonSetting.stops = 0
                 /\ daemonSetting.deaths <= StartLimit
  IN  <>[](alone /\ unit.installed => Answers(UnitDaemon))

(***************************************************************************)
(* A configured client holds the url: through restarts, deaths between any  *)
(* two writes and updates it moves only if another program was met on the   *)
(* port since it was published (http.go:325, "so the URL remains stable for *)
(* every later supervisor restart"), as long as there is one daemon.        *)
(***************************************************************************)
UrlMovesOnlyIfTaken ==
  [][\A d \in Daemons :
       daemonSetting.byHand = {} /\ DaemonAt(d, "persisted") /\ daemon'[d].phase = "published"
         => \/ url \in {NoPort, daemon[d].port}
            \/ turnedAway]_endpointVars

(***************************************************************************)
(* "Publishing HTTP first makes the socket the later signal, so reaching it *)
(* implies the endpoint is there" (cmd/kivgraph/daemon.go:74): of a daemon  *)
(* that nobody stops.                                                       *)
(***************************************************************************)
SocketImpliesEndpoint ==
  \A d \in Daemons : DaemonAt(d, "serving") /\ ~daemon[d].stopping /\ socket = d
                       => endpoint # NoPort

=============================================================================
