------------------------------ MODULE Serving ------------------------------
(***************************************************************************)
(* The two listeners of a service (guardrail_sdk/serving.py, tls.py): a    *)
(* public one, which runs the application's startup and shutdown, and an   *)
(* optional internal one for service-to-service calls, which shares the    *)
(* application.  A server itself (uvicorn) is external: it starts, takes   *)
(* requests, and ends when it is told to or by itself.                     *)
(***************************************************************************)
EXTENDS Naturals, FiniteSets

(* What the environment says (TLS_CERT_FILE and TLS_KEY_FILE are set       *)
(* together or the service does not start).                                *)
Settings == [internalPort : {"none", "same", "own"}, cert : BOOLEAN, key : BOOLEAN,
             clientCa : BOOLEAN, tlsPublic : BOOLEAN]
Servers == {"public", "internal"}
\* "/internal", a route under it, one that only begins alike, any other.
Routes == {"internal", "under", "alike", "other"}

VARIABLES
  settings,
  main,      \* serve(): "config", "starting", "waiting", "stopping", "returned", "refused"
  server,    \* each listener: "off", "starting", "started", "ended"
  told,      \* should_exit
  app,       \* the application: "down", "up", "closed"
  last       \* the request served last: [port, route, status, cert, app]

vars == <<settings, main, server, told, app, last>>

NoRequest == [port |-> "none", route |-> "other", status |-> 0, cert |-> FALSE, app |-> "up"]

Init ==
  /\ settings \in Settings
  /\ main = "config"
  /\ server = [s \in Servers |-> "off"]
  /\ told = [s \in Servers |-> FALSE]
  /\ app = "down"
  /\ last = NoRequest

-----------------------------------------------------------------------------

Separate == settings.internalPort = "own"
Mutual == settings.clientCa

\* ServerTLS.from_env() and Listeners.from_env().
Valid(c) ==
  /\ c.internalPort # "same"
  /\ c.cert = c.key
  /\ c.clientCa => c.cert
  /\ c.tlsPublic => c.cert
  /\ c.clientCa => c.internalPort = "own"

Configure ==
  /\ main = "config"
  /\ IF Valid(settings)
     THEN main' = "starting" /\ server' = [server EXCEPT !["public"] = "starting"]
     ELSE main' = "refused" /\ UNCHANGED server
  /\ UNCHANGED <<settings, told, app, last>>

Ready == server["public"] = "started"

\* The loop before the second listener; with one listener there is nothing to wait for.
StartInternal ==
  /\ main = "starting" /\ Separate /\ Ready
  /\ server' = [server EXCEPT !["internal"] = "starting"]
  /\ main' = "waiting"
  /\ UNCHANGED <<settings, told, app, last>>

StartupFailed ==   \* tasks[0].done(): its error is raised
  /\ main = "starting" /\ Separate /\ server["public"] = "ended"
  /\ main' = "returned"
  /\ UNCHANGED <<settings, server, told, app, last>>

WaitForOne ==
  /\ main = "starting" /\ ~Separate
  /\ main' = "waiting"
  /\ UNCHANGED <<settings, server, told, app, last>>

\* Mutant of ToldBy: only the listener that stopped is told.
ToldByItself == [s \in Servers |-> told[s] \/ server[s] = "ended"]
ToldBy == [s \in Servers |-> told[s] \/ server[s] # "off"]

\* A listener ended or `stop' was set: all are told to exit.
StopAll ==
  /\ main = "waiting"
  /\ told' = ToldBy
  /\ main' = "stopping"
  /\ UNCHANGED <<settings, server, app, last>>

OneEnded ==
  /\ \E s \in Servers : server[s] = "ended"
  /\ StopAll

StopRequested == StopAll

Return ==
  /\ main = "stopping"
  /\ \A s \in Servers : server[s] \in {"off", "ended"}
  /\ main' = "returned"
  /\ UNCHANGED <<settings, server, told, app, last>>

-----------------------------------------------------------------------------
(* uvicorn: only the public server runs the application's lifespan.        *)

Started(s) ==
  /\ server[s] = "starting"
  /\ server' = [server EXCEPT ![s] = "started"]
  /\ app' = IF s = "public" THEN "up" ELSE app
  /\ UNCHANGED <<settings, main, told, last>>

\* A port in use, a startup that raises, or a server that was told at once.
StartFails(s) ==
  /\ server[s] = "starting"
  /\ server' = [server EXCEPT ![s] = "ended"]
  /\ UNCHANGED <<settings, main, told, app, last>>

Ends(s) ==
  /\ server[s] = "started"
  /\ server' = [server EXCEPT ![s] = "ended"]
  /\ app' = IF s = "public" THEN "closed" ELSE app
  /\ UNCHANGED <<settings, main, told, last>>

Exits(s) == told[s] /\ (Ends(s) \/ StartFails(s))

Internal(route) == route \in {"internal", "under"}

\* InternalRouteGuard: by the port of the socket the request came in on.
GuardStops(s, route) == Separate /\ Internal(route) /\ s # "internal"

\* A TLS handshake with required client certificates keeps others out.
Handshake(s, cert) == s = "internal" /\ settings.cert /\ Mutual => cert

Request(s) ==
  /\ server[s] = "started"
  /\ \E route \in Routes, cert \in BOOLEAN :
       /\ Handshake(s, cert)
       /\ last' = [port |-> s, route |-> route, status |-> IF GuardStops(s, route) THEN 404 ELSE 200,
                   cert |-> cert, app |-> app]
  /\ UNCHANGED <<settings, main, server, told, app>>

Main == Configure \/ StartInternal \/ StartupFailed \/ WaitForOne \/ OneEnded \/ Return
Library(s) == Started(s) \/ StartFails(s) \/ Ends(s) \/ Request(s)
Next == Main \/ StopRequested \/ \E s \in Servers : Library(s)

\* serve() goes on when it can, a listener that is starting starts or fails, and one that
\* was told to exit does.
Spec == Init /\ [][Next]_vars

-----------------------------------------------------------------------------

TypeOK ==
  /\ settings \in Settings
  /\ main \in {"config", "starting", "waiting", "stopping", "returned", "refused"}
  /\ server \in [Servers -> {"off", "starting", "started", "ended"}]
  /\ app \in {"down", "up", "closed"}

(* With a port of its own an internal route answers only there, with a     *)
(* client CA only to callers that showed a certificate, and a client CA is *)
(* never set in vain; a route that only begins alike stays public          *)
(* (serving.py:31-63, 83-89).                                              *)
InternalIsVerified ==
  /\ last.status = 200 /\ Internal(last.route) =>
       /\ Separate => last.port = "internal"
       /\ Mutual => last.cert
  /\ last.status = 404 => Internal(last.route)

(* The internal listener takes no request before the application's startup *)
(* has finished (serving.py:139-145).                                      *)
ServedAfterStartup == last.status = 200 => last.app # "down"

(* When one listener has ended, all end and serve() returns: no service is *)
(* left half reachable (serving.py:149-161).                               *)
OneGone == main \in {"waiting", "stopping"} /\ \E s \in Servers : server[s] = "ended"
AllGone == main = "returned"
=============================================================================
