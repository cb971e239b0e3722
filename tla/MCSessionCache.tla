--------------------------- MODULE MCSessionCache ---------------------------
(* Instances of SessionCache for TLC. *)
EXTENDS SessionCache, TLC

CONSTANTS server, worker, replica

\* Two processes that each serve HTTP and run a dispatcher (startBoth); the loop
\* of each subscription holds its cursor in one of them.
OneEach == "grants" :> {replica} @@ "overlay" :> {server}

\* apps/server and apps/worker as they are started: the worker has the handlers
\* of the modules, and no process runs those of apps/server.
Split == "grants" :> {worker} @@ "overlay" :> {}

CONSTANTS grantChanges, overlayChanges
Changes == "grants" :> grantChanges @@ "overlay" :> overlayChanges
=============================================================================
