------------------------------ MODULE MCClients ------------------------------
(* Small instances of the clients of the backend: the JavaScript SDK, the  *)
(* instrumentation of both SDKs, the monitoring agent, the dashboard's     *)
(* session and its live view, and signing in with Google.  They share no   *)
(* state: a behaviour runs the program in `focus` and leaves the others    *)
(* where they started.                                                     *)
EXTENDS JsSdk, AgentPipeline, DashboardSession, DashboardLive,
        Instrumentation, GoogleSignIn, TLC, FiniteSets

CONSTANT Programs   \* the programs of a run

VARIABLE focus

On(program) == focus = program

Init ==
    /\ focus \in Programs
    /\ JsInit /\ PipelineInit /\ DashboardInit /\ LiveInit /\ InstrInit /\ GoogleInit
    /\ ~On("js") => policy = "block" /\ file
    /\ ~On("dashboard") => remember
    /\ ~On("instrumentation") =>
          lib = OpenAIPython /\ serves = [i \in Instances |-> CHOOSE p \in Providers : TRUE]
    /\ IF On("google") THEN Cardinality({d \in Devices : session[d] = Unknown}) = 1
       ELSE sameOrigin /\ session = [d \in Devices |-> Unknown] /\ person = [u \in Holders |-> NoPerson]

(* Bound: with a log, the process is replaced under one of the policies.   *)
DropsWithFile == file /\ policy = "drop_oldest"

Next ==
    /\ UNCHANGED focus
    /\ IF On("js")        THEN JsNext /\ (DropsWithFile => UNCHANGED replaced) ELSE UNCHANGED jsVars
    /\ IF On("agent")     THEN PipelineNext  ELSE UNCHANGED pipelineVars
    /\ IF On("dashboard") THEN DashboardNext ELSE UNCHANGED sessionVars
    /\ IF On("live")      THEN LiveNext      ELSE UNCHANGED liveVars
    /\ IF On("instrumentation") THEN InstrNext ELSE UNCHANGED instrVars
    /\ IF On("google")    THEN GoogleNext    ELSE UNCHANGED googleVars

vars == <<focus, jsVars, pipelineVars, sessionVars, liveVars, instrVars, googleVars>>

Spec == Init /\ [][Next]_vars

FairSpec ==
    /\ Spec
    /\ \/ On("js")    /\ JsFairness
       \/ On("agent") /\ PipelineFairness
       \/ On("live")  /\ LiveFairness

(* The state of the program in focus keeps its types and bounds.           *)
ClientsTypeOK ==
    \/ On("js") /\ JsTypeOK
    \/ On("agent") /\ PipelineTypeOK
    \/ On("dashboard") /\ DashboardTypeOK
    \/ On("live") /\ LiveTypeOK
    \/ On("instrumentation") /\ InstrTypeOK
    \/ On("google") /\ GoogleTypeOK

(* Events, request ids, browser tabs and exchanges, browsers, people and   *)
(* callbacks are interchangeable.  Each is a pair: all are swapped at once *)
Swapped(S, swap) == CHOOSE f \in Permutations(S) : swap <=> \A x \in S : f[x] # x
Symmetric ==
    {Swapped(JsEvents, s) @@ Swapped(RequestIds, s) @@ Swapped(Tabs, s) @@ Swapped(Exchanges, s)
        @@ Swapped(Devices, s) @@ Swapped(Holders, s) @@ Swapped(Callbacks, s) : s \in BOOLEAN}
=============================================================================
