------------------------------ MODULE Generator -----------------------------
(***************************************************************************)
(* cmd/generator against the API of Ingest.  Run sends one request at a    *)
(* time: first the applications, then the events; the first failure ends   *)
(* it.  The API goes on with a request its client has given up, so what    *)
(* the summary counts and what the platform holds may differ.              *)
(***************************************************************************)
EXTENDS Ingest

CONSTANTS MaxApps, MaxEvents  \* bounds on --apps and --events

\* AppOf is the random choice newEvent makes.
ASSUME GeneratorAssumption ==
    /\ MaxApps \in Nat /\ MaxEvents \in Nat
    /\ Apps = 1 .. MaxApps
    /\ Requests = 1 .. MaxEvents
    /\ BadRequests = {}

VARIABLES
    args,      \* "help", "wrong", "badURL" or "ok"; --apps and --events
    created,   \* Summary.AppsCreated
    accepted,  \* Summary.EventsAccepted
    sent,      \* requests sent, applications and events together
    exit       \* none, or how run ended: help, usage, config, failed, done

generatorVars == <<args, created, accepted, sent, exit>>
allVars == <<vars, generatorVars>>

\* The arguments are such that newEvent's choices are among the applications.
GeneratorInit ==
    /\ Init
    /\ \E flags \in {"help", "wrong", "badURL", "ok"},
          a \in 0 .. MaxApps, e \in 0 .. MaxEvents :
         /\ a > 0 => \A r \in 1 .. e : AppOf[r] <= a
         /\ args = [flags |-> flags, apps |-> a, events |-> e]
    /\ created = 0
    /\ accepted = 0
    /\ sent = 0
    /\ exit = "none"

-----------------------------------------------------------------------------
(* The generator. *)

\* New refuses its configuration.
ConfigInvalid == args.flags = "badURL" \/ args.apps <= 0 \/ args.events <= 0

\* run before Run: flags, arguments and New.
Refuse ==
    /\ exit = "none"
    /\ \/ args.flags = "help" /\ exit' = "help"
       \/ args.flags = "wrong" /\ exit' = "usage"
       \/ args.flags \notin {"help", "wrong"} /\ ConfigInvalid /\ exit' = "config"
    /\ UNCHANGED <<vars, args, created, accepted, sent>>

Generating == exit = "none" /\ args.flags = "ok" /\ ~ConfigInvalid

\* A request is sent and its response not yet read.
Waiting == sent > created + accepted

\* postJSON: the next request of Run leaves.
Post ==
    /\ Generating
    /\ ~Waiting
    /\ sent < args.apps + args.events
    /\ sent' = sent + 1
    /\ UNCHANGED <<vars, args, created, accepted, exit>>

\* createApplication reads 201 and the new ID.
AppCreated ==
    /\ Generating /\ Waiting
    /\ created < args.apps
    /\ created + 1 \in apps
    /\ created' = created + 1
    /\ UNCHANGED <<vars, args, accepted, sent, exit>>

\* Mutant: any answer counts as accepted.
AnswerOfAnyKind(r) == answer[r] # 0

\* The status publishEvent asks for.
StatusAccepted(r) == answer[r] = 202

\* publishEvent reads its status.
EventAccepted ==
    /\ Generating /\ Waiting
    /\ created = args.apps
    /\ StatusAccepted(accepted + 1)
    /\ accepted' = accepted + 1
    /\ UNCHANGED <<vars, args, created, sent, exit>>

\* Mutant: Run counts a failed event and goes on.
SkipEvent ==
    /\ exit' = IF created < args.apps THEN "failed" ELSE exit
    /\ accepted' = IF created < args.apps THEN accepted ELSE accepted + 1

\* Run returns its error and the summary so far; run discards the summary.
StopAtError == exit' = "failed" /\ UNCHANGED accepted

\* postJSON fails (connection refused or lost, timeout, cancelled by a signal),
\* or the response is another status or cannot be decoded.  A cancelled or
\* expired request may not have left at all.
RequestFails ==
    /\ Generating /\ Waiting
    /\ StopAtError
    /\ UNCHANGED <<vars, args, created, sent>>

\* All is sent and answered: the summary is written, or fails to be.
WriteSummary ==
    /\ Generating
    /\ created = args.apps /\ accepted = args.events
    /\ exit' \in {"done", "failed"}
    /\ UNCHANGED <<vars, args, created, accepted, sent>>

Generate ==
    Refuse \/ Post \/ AppCreated \/ EventAccepted \/ RequestFails \/ WriteSummary

-----------------------------------------------------------------------------
(* The API sees a request only after it was sent, and may see it late. *)

\* Position of an application's and of an event's request in Run's order.
AppSent(a) == a <= sent
EventSent(r) == args.apps + r <= sent

Api ==
    /\ \/ \E a \in Apps : AppSent(a) /\ a <= args.apps /\ CreateApp(a)
       \/ \E r \in Requests : \/ EventSent(r) /\ Arrive(r)
                              \/ Handler(r) \/ ClientGone(r) \/ BrokerReplies(r)
       \/ LoseLink \/ ListenerFails \/ Shutdown \/ Terminate \/ Crash
    /\ UNCHANGED generatorVars

GeneratorNext == Generate \/ Api

GeneratorSpec == GeneratorInit /\ [][GeneratorNext]_allVars

-----------------------------------------------------------------------------
(* Properties. *)

\* What the summary counts exists: the counted applications are registered and
\* the counted events are in the queue, whatever happened to the API since.
SummaryIsReal ==
    /\ 1 .. created \subseteq apps
    /\ 1 .. accepted \subseteq queued

\* The platform holds at most one resource the summary does not count, the one
\* whose answer Run did not get, also if the API finishes it after the
\* generator has exited; and with exit status 0 it holds exactly what was asked.
AtMostOneUncounted ==
    /\ apps \subseteq 1 .. (created + 1)
    /\ queued \subseteq 1 .. (accepted + 1)
    /\ queued # {} => created = args.apps
    /\ exit = "done" => apps = 1 .. args.apps /\ queued = 1 .. args.events
=============================================================================
