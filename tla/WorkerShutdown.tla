--------------------------- MODULE WorkerShutdown ---------------------------
(***************************************************************************)
(* What an object that owns worker threads promises: it starts each worker *)
(* at most once and only while it is up, no worker leaves before it was    *)
(* asked to, and the object's state is released only when no worker runs.  *)
(* AppLifecycle implements this for ExampleApp and its two threads.        *)
(***************************************************************************)
CONSTANT Workers

VARIABLES
  phase,   \* "new", "up", "stopping", "released"
  worker,  \* for each worker: "absent", "live" or "left"
  asked    \* the workers have been told to leave

abstractVars == <<phase, worker, asked>>

TypeOK ==
  /\ phase \in {"new", "up", "stopping", "released"}
  /\ worker \in [Workers -> {"absent", "live", "left"}]
  /\ asked \in BOOLEAN

Init ==
  /\ phase = "new"
  /\ worker = [w \in Workers |-> "absent"]
  /\ asked = FALSE

Open ==
  /\ phase = "new"
  /\ phase' = "up"
  /\ UNCHANGED <<worker, asked>>

\* Construction failed: nothing was ever started.
Abandon ==
  /\ phase = "new"
  /\ phase' = "released"
  /\ UNCHANGED <<worker, asked>>

Start(w) ==
  /\ phase = "up"
  /\ worker[w] = "absent"
  /\ worker' = [worker EXCEPT ![w] = "live"]
  /\ UNCHANGED <<phase, asked>>

Ask ==
  /\ phase \in {"up", "stopping"}
  /\ asked' = TRUE
  /\ UNCHANGED <<phase, worker>>

Leave(w) ==
  /\ asked
  /\ worker[w] = "live"
  /\ worker' = [worker EXCEPT ![w] = "left"]
  /\ UNCHANGED <<phase, asked>>

Stop ==
  /\ phase = "up"
  /\ phase' = "stopping"
  /\ UNCHANGED <<worker, asked>>

Release ==
  /\ phase = "stopping"
  /\ asked
  /\ \A w \in Workers : worker[w] # "live"
  /\ phase' = "released"
  /\ UNCHANGED <<worker, asked>>

Next ==
  \/ Open \/ Abandon \/ Ask \/ Stop \/ Release
  \/ \E w \in Workers : Start(w) \/ Leave(w)

Spec == Init /\ [][Next]_abstractVars
=============================================================================
