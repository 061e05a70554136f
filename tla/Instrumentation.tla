--------------------------- MODULE Instrumentation ----------------------------
(***************************************************************************)
(* Auto-instrumentation of both SDKs (sdk/python/costorah/instrumentation, *)
(* sdk/javascript/src/instrumentation): instrumentor instances put         *)
(* wrappers around a provider library's methods, or hooks into a           *)
(* framework, and take them off again, while the application calls the     *)
(* library.  A wrapper reports its call to COSTORAH by track().            *)
(*                                                                         *)
(* A behaviour is about one library, one patched method and one call:      *)
(* calls share nothing but the patches.  Tokens, prices, metadata and the  *)
(* reported status are abstracted, and what track() does with the event is *)
(* SdkWorker or JsSdk.  The libraries are installed.                       *)
(***************************************************************************)
EXTENDS Naturals, Sequences, FiniteSets, SequencesExt

CONSTANTS
    Instances,    \* instrumentor objects
    Providers,    \* provider slugs of the OpenAI family
    Family,       \* the wrapper that members of the family share
    MaxSwitches   \* bound: calls of instrument() and uninstrument()

ASSUME InstrumentationAssumption == Family \notin Instances /\ MaxSwitches \in Nat

VARIABLES
    lib,        \* how the library is intercepted
    serves,     \* the provider slug of every instance
    on,         \* the instances that are instrumented
    method,     \* the wrappers a call goes through, outermost first
    saved,      \* what an instance, or the family, puts back
    building,   \* building[i]: what its instrument() calls in progress have read
    client,     \* the wrappers of a client or model object made earlier
    covers,     \* the instances that were on when it was made, and still are
    call,       \* the call, and who reported it
    untidy,     \* TRUE if instances got in each other's way
    switches    \* how often instrument() or uninstrument() was called

patchVars == <<lib, serves, on, method, saved, building, client, covers, untidy, switches>>
instrVars == <<patchVars, call>>

Unpatched == <<Family, Family>>   \* no original is kept

(* A library: where it is intercepted, whether threads interleave in       *)
(* instrument(), and whether its wrapper reports a stream that fails to    *)
(* open, one the caller stops reading, and failures at all                 *)
Library(install, threads, unopened, abandoned, failures) ==
    [install |-> install, threads |-> threads, unopened |-> unopened,
     abandoned |-> abandoned, failures |-> failures]

OpenAIPython    == Library("shared",  TRUE,  TRUE,  FALSE, TRUE)
OpenAIJs        == Library("shared",  FALSE, TRUE,  TRUE,  TRUE)
AnthropicPython == Library("stacked", TRUE,  TRUE,  FALSE, TRUE)
CoherePython    == Library("stacked", TRUE,  FALSE, FALSE, TRUE)
GooglePython    == Library("stacked", TRUE,  FALSE, FALSE, TRUE)
MistralPython   == Library("stacked", TRUE,  FALSE, FALSE, TRUE)
BedrockPython   == Library("clients", TRUE,  TRUE,  TRUE,  TRUE)
AnthropicJs     == Library("stacked", FALSE, TRUE,  TRUE,  TRUE)
BedrockJs       == Library("stacked", FALSE, TRUE,  TRUE,  TRUE)
GeminiJs        == Library("stacked", FALSE, TRUE,  TRUE,  TRUE)
CohereJs        == Library("stacked", FALSE, FALSE, TRUE,  TRUE)
MistralJs       == Library("stacked", FALSE, FALSE, TRUE,  TRUE)
LangChainPython == Library("context", TRUE,  FALSE, FALSE, FALSE)
LangChainJs     == Library("adapter", FALSE, FALSE, FALSE, FALSE)
CrewAI          == Library("events",  TRUE,  FALSE, FALSE, FALSE)
CrewAIWithoutOff == Library("deaf",   TRUE,  FALSE, FALSE, FALSE)
VercelAI        == Library("model",   FALSE, FALSE, FALSE, FALSE)

Libraries ==
    {OpenAIPython, OpenAIJs, AnthropicPython, CoherePython, GooglePython, MistralPython,
     BedrockPython, AnthropicJs, BedrockJs, GeminiJs, CohereJs, MistralJs, LangChainPython,
     LangChainJs, CrewAI, CrewAIWithoutOff, VercelAI}

Made == {"clients", "model"}   \* intercepted where an object is made
Frameworks == {"context", "adapter", "events", "deaf", "model"}

(* Calls that nothing reports: cancelled ones (no Exception in Python),    *)
(* streams nobody read from, framework calls without a known provider      *)
Silent ==
    {"cancelled", "unread", "unrecognised"}
    \cup (IF lib.unopened  THEN {} ELSE {"unopened"})
    \cup (IF lib.abandoned THEN {} ELSE {"abandoned"})
    \cup (IF lib.failures  THEN {} ELSE {"failed", "broke"})
-----------------------------------------------------------------------------
NoCall == [at |-> "none", stream |-> FALSE, provider |-> "none", via |-> <<>>,
           throughout |-> {}, ever |-> {}, reports |-> [i \in Instances |-> 0],
           outcome |-> "none"]

InstrInit ==
    /\ lib \in Libraries
    /\ serves \in [Instances -> Providers]
    /\ lib.install # "shared" => \A i, j \in Instances : serves[i] = serves[j]
    /\ on = {} /\ covers = {}
    /\ method = <<>> /\ client = <<>>
    /\ saved = [x \in Instances \cup {Family} |-> Unpatched]
    /\ building = [i \in Instances |-> <<>>]
    /\ call = NoCall
    /\ untidy = FALSE /\ switches = 0
-----------------------------------------------------------------------------
Switches == switches < MaxSwitches /\ switches' = switches + 1

(* What a running call notices of a switch: who was on, for the            *)
(* properties; and the adapter of LangChain JS hands the end of a run to   *)
(* the handler that is active then, which knows only runs it saw start     *)
CallSees(onNow, dropped) ==
    IF call.at \in {"running", "open"}
    THEN call' = [call EXCEPT !.throughout = @ \cap onNow, !.ever = @ \cup onNow,
                              !.via = IF dropped THEN <<>> ELSE @]
    ELSE UNCHANGED call

SwitchedOn(i)  == on' = on \cup {i} /\ CallSees(on', lib.install = "adapter")
SwitchedOff(i) ==
    /\ on' = on \ {i} /\ covers' = covers \ {i}
    /\ CallSees(on', lib.install = "adapter" /\ method = <<i>>)

(* _ensure_openai_patched: under the lock of the family                    *)
JoinFamily(i) ==
    /\ lib.install = "shared" /\ i \notin on /\ Switches
    /\ SwitchedOn(i)
    /\ IF saved[Family] = Unpatched
       THEN /\ saved' = [saved EXCEPT ![Family] = method]
            /\ method' = <<Family>>
       ELSE UNCHANGED <<saved, method>>
    /\ UNCHANGED <<lib, serves, building, client, covers, untidy>>

(* Mutation: a member that leaves takes the patch off for all.           *)
LeaveAndRestore(i) ==
    /\ lib.install = "shared" /\ i \in on /\ Switches
    /\ SwitchedOff(i)
    /\ method' = <<>> /\ saved' = [saved EXCEPT ![Family] = Unpatched]
    /\ UNCHANGED <<lib, serves, building, client, untidy>>

LeaveFamily(i) ==
    /\ lib.install = "shared" /\ i \in on /\ Switches
    /\ SwitchedOff(i)
    /\ IF on' = {} /\ saved[Family] # Unpatched
       THEN /\ method' = saved[Family]
            /\ saved' = [saved EXCEPT ![Family] = Unpatched]
       ELSE UNCHANGED <<saved, method>>
    /\ UNCHANGED <<lib, serves, building, client, untidy>>
-----------------------------------------------------------------------------
(* instrument() of the others.  In Python the wrapper is built around what *)
(* the class holds, then _patch saves and replaces what it holds by then;  *)
(* the lock is the instance's own.  In LangChain JS it awaits the adapter, *)
(* after it has checked that it is off.                                    *)
BeginInstrument(i) ==
    /\ \/ lib.install \in {"stacked", "clients"} /\ lib.threads /\ building[i] = <<>>
       \/ lib.install = "adapter" /\ Len(building[i]) < 2
    /\ i \notin on /\ Switches
    /\ building' = [building EXCEPT ![i] = Append(@, method)]
    /\ UNCHANGED <<lib, serves, on, method, saved, client, covers, call, untidy>>

PatchMethod(i) ==
    LET read == IF lib.threads THEN building[i][1] ELSE method IN
    /\ lib.install \in {"stacked", "clients"}
    /\ IF lib.threads THEN building[i] # <<>> /\ UNCHANGED switches ELSE i \notin on /\ Switches
    /\ SwitchedOn(i)
    /\ saved' = [saved EXCEPT ![i] = method]
    /\ method' = <<i>> \o read
    /\ building' = [building EXCEPT ![i] = <<>>]
    /\ untidy' = (untidy \/ read # method)
    /\ UNCHANGED <<lib, serves, client, covers>>

(* Bedrock's uninstrument() also takes the attribute off a client it       *)
(* wrapped, whoever wrapped it last.                                       *)
RestoreMethod(i) ==
    /\ lib.install \in {"stacked", "clients"} /\ i \in on /\ Switches
    /\ SwitchedOff(i)
    /\ method' = saved[i]
    /\ client' = IF Contains(client, i) THEN <<>> ELSE client
    /\ untidy' = (untidy \/ method = <<>> \/ Head(method) # i \/ covers \ {i} # {})
    /\ UNCHANGED <<lib, serves, saved, building>>

(* One slot holds the handler: a context variable, or the adapter's box    *)
TakeSlot(i) ==
    /\ IF lib.install = "adapter"
       THEN /\ building[i] # <<>> /\ building' = [building EXCEPT ![i] = Tail(@)]
            /\ UNCHANGED switches
       ELSE lib.install = "context" /\ i \notin on /\ Switches /\ UNCHANGED building
    /\ SwitchedOn(i)
    /\ method' = <<i>>
    /\ untidy' = (untidy \/ on # {})
    /\ UNCHANGED <<lib, serves, saved, client, covers>>

ClearSlot(i) ==
    /\ lib.install \in {"context", "adapter"} /\ i \in on /\ Switches
    /\ SwitchedOff(i)
    /\ method' = IF lib.install = "adapter" /\ method # <<i>> THEN method ELSE <<>>
    /\ untidy' = (untidy \/ on # {i})
    /\ UNCHANGED <<lib, serves, saved, building, client>>

(* CrewAI's event bus calls every listener; an old bus has no off()        *)
Listen(i) ==
    /\ lib.install \in {"events", "deaf"} /\ i \notin on /\ Switches
    /\ SwitchedOn(i)
    /\ method' = Append(method, i)
    /\ UNCHANGED <<lib, serves, saved, building, client, covers, untidy>>

StopListening(i) ==
    /\ lib.install \in {"events", "deaf"} /\ i \in on /\ Switches
    /\ SwitchedOff(i)
    /\ IF lib.install = "events"
       THEN \E n \in DOMAIN method : method[n] = i /\ method' = RemoveAt(method, n)
       ELSE UNCHANGED method
    /\ untidy' = (untidy \/ lib.install = "deaf")
    /\ UNCHANGED <<lib, serves, saved, building, client>>

(* Vercel's instrument() arms wrapModel; a wrapped model stays wrapped.    *)
Arm(i) ==
    /\ lib.install = "model" /\ i \notin on /\ Switches
    /\ SwitchedOn(i)
    /\ UNCHANGED <<lib, serves, method, saved, building, client, covers, untidy>>

Disarm(i) ==
    /\ lib.install = "model" /\ i \in on /\ Switches
    /\ SwitchedOff(i)
    /\ untidy' = (untidy \/ Contains(client, i))
    /\ UNCHANGED <<lib, serves, method, saved, building, client>>

WrapModel(i) ==
    /\ lib.install = "model" /\ i \in on /\ i \notin covers /\ call = NoCall
    /\ client' = <<i>> \o client /\ covers' = covers \cup {i}
    /\ UNCHANGED <<lib, serves, on, method, saved, building, call, untidy, switches>>

(* boto3's Session.client, through the wrappers it has                     *)
MakeClient ==
    /\ lib.install = "clients" /\ client # method /\ call = NoCall
    /\ client' = method /\ covers' = on
    /\ UNCHANGED <<lib, serves, on, method, saved, building, call, untidy, switches>>
-----------------------------------------------------------------------------
(* The application's call                                                  *)
StartCall ==
    /\ call = NoCall
    /\ \E stream \in BOOLEAN, p \in {serves[i] : i \in Instances} :
          call' = [call EXCEPT
                      !.at = "running", !.stream = stream, !.provider = p,
                      !.via = IF lib.install \in Made THEN client ELSE method,
                      !.throughout = IF lib.install \in Made THEN covers ELSE on, !.ever = on]
    /\ UNCHANGED patchVars

OpenStream ==
    /\ call.at = "running" /\ call.stream
    /\ call' = [call EXCEPT !.at = "open"]
    /\ UNCHANGED patchVars

Outcomes ==
    IF call.at = "open" THEN {"finished", "broke", "abandoned", "unread", "cancelled"}
    ELSE {"cancelled"} \cup IF call.stream THEN {"unopened"} ELSE {"returned", "failed"}

(* _submit_for_instrumentors asks who is on when the call ends, the bus    *)
(* who listens; a wrapper or a handler reports for itself.                 *)
Times(i, s) == Cardinality({n \in DOMAIN s : s[n] = i})
TimesReported(i) ==
    CASE lib.install = "shared" ->
            IF call.via # <<>> /\ i \in on /\ serves[i] = call.provider THEN 1 ELSE 0
      [] lib.install \in {"events", "deaf"} -> Times(i, method)
      [] OTHER -> Times(i, call.via)

EndCall ==
    /\ call.at \in {"running", "open"}
    /\ \E outcome \in Outcomes \cup (IF lib.install \in Frameworks THEN {"unrecognised"} ELSE {}) :
          call' = [call EXCEPT
                      !.at = "done", !.outcome = outcome, !.via = <<>>,
                      !.reports = [i \in Instances |->
                                      IF outcome \in Silent THEN 0 ELSE TimesReported(i)]]
    /\ UNCHANGED patchVars
-----------------------------------------------------------------------------
InstrNext ==
    \/ \E i \in Instances :
          \/ JoinFamily(i) \/ LeaveFamily(i)
          \/ BeginInstrument(i) \/ PatchMethod(i) \/ RestoreMethod(i)
          \/ TakeSlot(i) \/ ClearSlot(i)
          \/ Listen(i) \/ StopListening(i)
          \/ Arm(i) \/ Disarm(i) \/ WrapModel(i)
    \/ MakeClient
    \/ StartCall \/ OpenStream \/ EndCall

InstrSpec == InstrInit /\ [][InstrNext]_instrVars
-----------------------------------------------------------------------------
InstrTypeOK ==
    /\ lib \in Libraries /\ serves \in [Instances -> Providers]
    /\ on \subseteq Instances /\ covers \subseteq Instances
    /\ method \in Seq(Instances \cup {Family}) /\ client \in Seq(Instances)
    /\ \A i \in Instances : Len(building[i]) <= 2
    /\ call.reports \in [Instances -> Nat]
    /\ untidy \in BOOLEAN /\ switches \in 0..MaxSwitches

(* A call is reported once by every instance that serves its provider and  *)
(* is on from before the call to its end, unless its library's wrapper is  *)
(* silent about how it ended; by no instance that is off all that time;    *)
(* and by none twice.  When every instance is off again, the library is as *)
(* it was found: uninstrument() restores the original methods exactly.     *)
(* For the OpenAI family always; for the other libraries unless instances  *)
(* were patched or restored out of order.                                  *)
InstrumentsCleanly ==
    ~untidy =>
        /\ call.at = "done" =>
              \A i \in Instances :
                  /\ call.reports[i] <= 1
                  /\ i \notin call.ever \/ serves[i] # call.provider => call.reports[i] = 0
                  /\ i \in call.throughout /\ serves[i] = call.provider /\ call.outcome \notin Silent
                        => call.reports[i] = 1
        /\ on = {} /\ (\A i \in Instances : building[i] = <<>>) => method = <<>>
=============================================================================
