------------------------------ MODULE Platform ------------------------------
(* The life of the API process (main.py) and its clients of the five services it
   uses.  Each client is connected once, while the process starts; a failure is
   logged and the process serves without it ("degraded mode").  Nothing connects a
   client again before the process is started anew. *)
EXTENDS Integers, Sequences, FiniteSets

CONSTANTS
    AtFirst,      \* the sets of services that may be up when the first process starts
    AtRisk,       \* the services that may go down later
    MaxOutages,   \* bound on the outages that follow
    MaxRestarts   \* bound on the processes that follow

Opening == <<"postgres", "neo4j", "rabbitmq", "minio", "redis">>
Closing == <<"neo4j", "rabbitmq", "redis", "postgres">>
Services == {Opening[i] : i \in 1..5}

ASSUME PlatformAssumption ==
    /\ AtFirst \subseteq SUBSET Services /\ AtRisk \subseteq Services
    /\ MaxOutages \in Nat /\ MaxRestarts \in Nat

VARIABLES
    phase,      \* "starting", "serving", "closing" or "stopped"
    at,         \* the client whose turn it is to start or to close
    made,       \* the clients whose driver, engine or client object was made
    connected,  \* the clients that say they are connected
    up,         \* the services that answer
    health,     \* what GET /health last told of this process: the healthy services
    asked,      \* whether it was asked
    reached,    \* history: the services this process reached while it started
    outages, restarts

process == <<phase, at, made, connected, health, asked, reached>>
platform == <<process, up, outages, restarts>>

PlatformInit ==
    /\ phase = "starting" /\ at = 1
    /\ made = {} /\ connected = {}
    /\ up \in AtFirst
    /\ health = {} /\ asked = FALSE /\ reached = {}
    /\ outages = 0 /\ restarts = 0
-----------------------------------------------------------------------------
(* PostgresClient.connect makes an engine and contacts nothing; init_db is what may
   fail.  aio_pika makes no connection object when it fails. *)
Makes(s) == s # "rabbitmq" \/ s \in up

(* Mutant of Connects: neo4j says it is connected before it is verified *)
ConnectsEarly(s) == s \in {"postgres", "neo4j"} \/ s \in up

Connects(s) == s = "postgres" \/ s \in up

StartClient ==
    /\ phase = "starting"
    /\ LET s == Opening[at] IN
        /\ made' = IF Makes(s) THEN made \cup {s} ELSE made
        /\ connected' = IF Connects(s) THEN connected \cup {s} ELSE connected
        /\ reached' = reached \cup ({s} \cap up)
    /\ at' = IF at = Len(Opening) THEN 1 ELSE at + 1
    /\ phase' = IF at = Len(Opening) THEN "serving" ELSE "starting"
    /\ UNCHANGED <<up, health, asked, outages, restarts>>

(* Only PostgreSQL is asked; MinIO is healthy when its client object exists, and
   Redis is not in the answer *)
Healthy ==
    (connected \cap {"neo4j", "rabbitmq"}) \cup (made \cap {"minio"})
    \cup (connected \cap made \cap up \cap {"postgres"})

HealthCheck ==
    /\ phase = "serving"
    /\ health' = Healthy
    /\ asked' = TRUE
    /\ UNCHANGED <<phase, at, made, connected, reached, up, outages, restarts>>

(* The server has waited for its requests and their background tasks *)
BeginClosing ==
    /\ phase = "serving"
    /\ phase' = "closing" /\ at' = 1
    /\ UNCHANGED <<made, connected, health, asked, reached, up, outages, restarts>>

(* A close that raises leaves the client as it was, and the next one is closed *)
CloseClient ==
    /\ phase = "closing"
    /\ LET s == Closing[at] IN
        \/ s \in made /\ connected' = connected \ {s}
        \/ (s \in made => s \notin up) /\ UNCHANGED connected
    /\ at' = IF at = Len(Closing) THEN 1 ELSE at + 1
    /\ phase' = IF at = Len(Closing) THEN "stopped" ELSE "closing"
    /\ UNCHANGED <<made, health, asked, reached, up, outages, restarts>>

(* The process is killed; what it held in memory is gone *)
Kill ==
    /\ phase # "stopped"
    /\ restarts < MaxRestarts
    /\ phase' = "stopped" /\ at' = 1
    /\ UNCHANGED <<made, connected, health, asked, reached, up, outages, restarts>>

StartAnew ==
    /\ phase = "stopped"
    /\ restarts < MaxRestarts
    /\ restarts' = restarts + 1
    /\ phase' = "starting" /\ at' = 1
    /\ made' = {} /\ connected' = {} /\ reached' = {}
    /\ health' = {} /\ asked' = FALSE
    /\ UNCHANGED <<up, outages>>

GoesDown(s) ==
    /\ s \in up \cap AtRisk
    /\ outages < MaxOutages
    /\ outages' = outages + 1
    /\ up' = up \ {s}

Outage ==
    /\ \E s \in Services : GoesDown(s)
    /\ UNCHANGED <<process, restarts>>

Recovery ==
    /\ \E s \in Services \ up : up' = up \cup {s}
    /\ UNCHANGED <<process, outages, restarts>>
-----------------------------------------------------------------------------
PlatformTypeOK ==
    /\ phase \in {"starting", "serving", "closing", "stopped"}
    /\ at \in 1..5
    /\ {made, connected, up, health, reached} \subseteq SUBSET Services
    /\ asked \in BOOLEAN
    /\ outages \in 0..MaxOutages
    /\ restarts \in 0..MaxRestarts
=============================================================================
