-------------------------- MODULE ApprovalSession --------------------------
(***************************************************************************)
(* core/src/workflow_runtime.rs: how a step asks the user of the terminal  *)
(* interface for an approval.  The thread of the step registers a request, *)
(* announces it on a broadcast channel and blocks; the interface queues a  *)
(* prompt for each announcement it receives; the user's answer is sent to  *)
(* the session's command task, which releases the threads that wait.       *)
(*                                                                         *)
(* Requests for capabilities share state: modules once approved stay so,   *)
(* and requests for the same modules share one prompt.  Other requests     *)
(* have a map of their own.  A step below is one critical section of the   *)
(* request's mutex, or one operation on a channel.                         *)
(***************************************************************************)
EXTENDS Naturals, Sequences, Functions

CONSTANTS
    Requester,   \* threads that ask, once each; a request is named after one
    Asks,        \* [Requester -> what it asks for]: see Kind
    Module,      \* runtime modules that need an approval
    Wanted,      \* [Requester -> the modules it asks for]
    Preapproved, \* modules approved when the session starts
    MayLag,      \* whether the interface can fall behind the broadcast channel
    MayLeave,    \* whether the user can leave the run
    NoRequest

\* Shell and agent requests ignore that nobody listens; pull request, dirty git
\* and selection requests do not.
Kind == {"capabilities", "shell", "pullRequest"}

ASSUME ApprovalAssumption ==
    /\ Asks \in [Requester -> Kind]
    /\ Wanted \in [Requester -> SUBSET Module]
    /\ \A r \in Requester : Asks[r] = "capabilities" => Wanted[r] # {}
    /\ Preapproved \subseteq Module
    /\ MayLag \in BOOLEAN
    /\ MayLeave \in BOOLEAN
    /\ NoRequest \notin Requester

VARIABLES
    loc,       \* where a requester is
    joined,    \* the request it waits for
    answer,    \* its response channel
    want,      \* the modules a request is about
    approved, listeners, inFlight, \* CapabilityApprovalState
    poisoned,  \* whether a thread has panicked with its mutex locked
    single,    \* the requests in the maps of the other kinds
    channel,   \* announcements the interface has not received yet
    tui,       \* the interface: opening, attached or left
    prompts,   \* the prompt shown and those queued behind it
    commands,  \* answers on their way to the command task
    task,      \* the command task: ready, took, told or dead
    held,      \* the answer it works on: the request, its listeners, the verdict
    accepted, rejected, \* history: the requests the user has accepted, rejected
    missed     \* history: an announcement has reached nobody

capabilityVars == <<approved, listeners, inFlight, poisoned>>
verdicts == <<accepted, rejected>>
tuiVars == <<channel, tui, prompts, verdicts, missed>>
taskVars == <<commands, task, held>>
vars == <<loc, joined, answer, want, capabilityVars, single, tuiVars, taskVars>>

Nothing == [request |-> NoRequest, listeners |-> {}, ok |-> FALSE]

-----------------------------------------------------------------------------
(* capabilities_callback.                                                  *)

\* The modules that are still to be approved; their sorted names are the key.
ModulesToApprove(r) == Wanted[r] \ approved

RequestInFlight(r) == inFlight[ModulesToApprove(r)]

AskAllowed(r) ==
    /\ loc[r] = "idle" /\ Asks[r] = "capabilities" /\ ~poisoned
    /\ ModulesToApprove(r) = {}
    /\ loc' = [loc EXCEPT ![r] = "granted"]
    /\ UNCHANGED <<joined, answer, want, capabilityVars, single, tuiVars, taskVars>>

\* Mutant: requests are not looked up by their modules.
AskNewAlways(r) ==
    /\ loc[r] = "idle" /\ Asks[r] = "capabilities" /\ ~poisoned
    /\ ModulesToApprove(r) # {}
    /\ inFlight' = [inFlight EXCEPT ![ModulesToApprove(r)] = r]
    /\ listeners' = [listeners EXCEPT ![r] = {r}]
    /\ want' = [want EXCEPT ![r] = ModulesToApprove(r)]
    /\ joined' = [joined EXCEPT ![r] = r]
    /\ loc' = [loc EXCEPT ![r] = "announce"]
    /\ UNCHANGED <<answer, approved, poisoned, single, tuiVars, taskVars>>

AskNew(r) ==
    /\ loc[r] = "idle" /\ Asks[r] = "capabilities" /\ ~poisoned
    /\ ModulesToApprove(r) # {} /\ RequestInFlight(r) = NoRequest
    /\ inFlight' = [inFlight EXCEPT ![ModulesToApprove(r)] = r]
    /\ listeners' = [listeners EXCEPT ![r] = {r}]
    /\ want' = [want EXCEPT ![r] = ModulesToApprove(r)]
    /\ joined' = [joined EXCEPT ![r] = r]
    /\ loc' = [loc EXCEPT ![r] = "announce"]
    /\ UNCHANGED <<answer, approved, poisoned, single, tuiVars, taskVars>>

AskJoin(r) ==
    /\ loc[r] = "idle" /\ Asks[r] = "capabilities" /\ ~poisoned
    /\ ModulesToApprove(r) # {}
    /\ RequestInFlight(r) # NoRequest /\ listeners[RequestInFlight(r)] # {}
    /\ listeners' = [listeners EXCEPT ![RequestInFlight(r)] = @ \cup {r}]
    /\ joined' = [joined EXCEPT ![r] = RequestInFlight(r)]
    /\ loc' = [loc EXCEPT ![r] = "waiting"]
    /\ UNCHANGED <<answer, want, approved, inFlight, poisoned, single, tuiVars, taskVars>>

\* The request in flight is not pending any more: expect() panics under the
\* lock.  From then on every lock().unwrap() of the capabilities panics.
AskPanics(r) ==
    /\ loc[r] = "idle" /\ Asks[r] = "capabilities"
    /\ \/ poisoned
       \/ /\ ModulesToApprove(r) # {} /\ RequestInFlight(r) # NoRequest
          /\ listeners[RequestInFlight(r)] = {}
    /\ loc' = [loc EXCEPT ![r] = "panicked"]
    /\ poisoned' = TRUE
    /\ UNCHANGED <<joined, answer, want, approved, listeners, inFlight, single,
                   tuiVars, taskVars>>

\* shell_callback, pull_request_callback and their like.
AskSingle(r) ==
    /\ loc[r] = "idle" /\ Asks[r] # "capabilities"
    /\ single' = single \cup {r}
    /\ joined' = [joined EXCEPT ![r] = r]
    /\ loc' = [loc EXCEPT ![r] = "announce"]
    /\ UNCHANGED <<answer, want, capabilityVars, tuiVars, taskVars>>

\* The announcement is sent to the interface, if it listens.
Announce(r) ==
    /\ loc[r] = "announce"
    /\ IF tui = "attached"
       THEN /\ channel' = Append(channel, r)
            /\ loc' = [loc EXCEPT ![r] = "waiting"]
            /\ UNCHANGED <<single, missed>>
       ELSE /\ missed' = TRUE
            /\ IF Asks[r] = "pullRequest"
               THEN /\ single' = single \ {r}
                    /\ loc' = [loc EXCEPT ![r] = "failed"]
               ELSE /\ loc' = [loc EXCEPT ![r] = "waiting"]
                    /\ UNCHANGED single
            /\ UNCHANGED channel
    /\ UNCHANGED <<joined, answer, want, capabilityVars, tui, prompts, verdicts, taskVars>>

\* rx.recv() returns.
Answered(r) ==
    /\ loc[r] = "waiting" /\ answer[r] # "none"
    /\ loc' = [loc EXCEPT ![r] = CASE answer[r] = "yes" -> "granted"
                                   [] answer[r] = "no" -> "refused"
                                   [] answer[r] = "closed" -> "failed"]
    /\ UNCHANGED <<joined, answer, want, capabilityVars, single, tuiVars, taskVars>>

-----------------------------------------------------------------------------
(* The terminal interface.                                                 *)

\* bind_session, after the session has been started.
Subscribe ==
    /\ tui = "opening"
    /\ tui' = "attached"
    /\ UNCHANGED <<loc, joined, answer, want, capabilityVars, single, channel,
                   prompts, verdicts, missed, taskVars>>

Receive ==
    /\ tui = "attached" /\ channel # <<>>
    /\ prompts' = Append(prompts, Head(channel))
    /\ channel' = Tail(channel)
    /\ UNCHANGED <<loc, joined, answer, want, capabilityVars, single, tui,
                   verdicts, missed, taskVars>>

\* Mutant: an answer clears the queue of prompts too.
AnswerClearsAll(ok) ==
    /\ tui = "attached" /\ prompts # <<>>
    /\ prompts' = <<>>
    /\ accepted' = IF ok THEN accepted \cup {Head(prompts)} ELSE accepted
    /\ rejected' = IF ok THEN rejected ELSE rejected \cup {Head(prompts)}
    /\ commands' = IF task = "dead" THEN commands
                   ELSE commands \cup {[request |-> Head(prompts), ok |-> ok]}
    /\ UNCHANGED <<loc, joined, answer, want, capabilityVars, single, channel,
                   tui, missed, task, held>>

\* The user answers the prompt shown; the next one takes its place.
AnswerPrompt(ok) ==
    /\ tui = "attached" /\ prompts # <<>>
    /\ prompts' = Tail(prompts)
    /\ accepted' = IF ok THEN accepted \cup {Head(prompts)} ELSE accepted
    /\ rejected' = IF ok THEN rejected ELSE rejected \cup {Head(prompts)}
    /\ commands' = IF task = "dead" THEN commands
                   ELSE commands \cup {[request |-> Head(prompts), ok |-> ok]}
    /\ UNCHANGED <<loc, joined, answer, want, capabilityVars, single, channel,
                   tui, missed, task, held>>

\* The channel has overwritten its oldest announcement.  The interface reads a
\* snapshot of the run instead, which holds no requests.
Lag ==
    /\ MayLag /\ tui = "attached" /\ channel # <<>>
    /\ channel' = Tail(channel)
    /\ missed' = TRUE
    /\ UNCHANGED <<loc, joined, answer, want, capabilityVars, single, tui,
                   prompts, verdicts, taskVars>>

\* Esc leaves the run when no prompt is shown: the receiver is dropped.
Leave ==
    /\ MayLeave /\ tui = "attached" /\ prompts = <<>>
    /\ tui' = "left"
    /\ channel' = <<>>
    /\ UNCHANGED <<loc, joined, answer, want, capabilityVars, single, prompts,
                   verdicts, missed, taskVars>>

-----------------------------------------------------------------------------
(* handle_command, in the command task.                                    *)

\* The answer to a request of a kind of its own.
RespondSingle(c) ==
    /\ task = "ready" /\ c \in commands /\ Asks[c.request] # "capabilities"
    /\ commands' = commands \ {c}
    /\ single' = single \ {c.request}
    /\ answer' = IF c.request \in single
                 THEN [answer EXCEPT ![c.request] = IF c.ok THEN "yes" ELSE "no"]
                 ELSE answer
    /\ UNCHANGED <<loc, joined, want, capabilityVars, tuiVars, task, held>>

\* RespondCapabilitiesApproval takes the request out under one lock ...
TakeCapabilities(c) ==
    /\ task = "ready" /\ c \in commands /\ Asks[c.request] = "capabilities"
    /\ ~poisoned
    /\ commands' = commands \ {c}
    /\ listeners' = [listeners EXCEPT ![c.request] = {}]
    /\ IF listeners[c.request] = {}
       THEN UNCHANGED <<task, held>>
       ELSE /\ held' = [request |-> c.request, listeners |-> listeners[c.request], ok |-> c.ok]
            /\ task' = "took"
    /\ UNCHANGED <<loc, joined, answer, want, approved, inFlight, poisoned,
                   single, tuiVars>>

\* Mutant: a rejected request approves its modules too.
CloseCapabilitiesApproves ==
    /\ task = "took" /\ ~poisoned
    /\ inFlight' = [inFlight EXCEPT ![want[held.request]] = NoRequest]
    /\ approved' = approved \cup want[held.request]
    /\ task' = "told"
    /\ UNCHANGED <<loc, joined, answer, want, listeners, poisoned, single,
                   tuiVars, commands, held>>

\* ... forgets its key under another ...
CloseCapabilities ==
    /\ task = "took" /\ ~poisoned
    /\ inFlight' = [inFlight EXCEPT ![want[held.request]] = NoRequest]
    /\ approved' = IF held.ok THEN approved \cup want[held.request] ELSE approved
    /\ task' = "told"
    /\ UNCHANGED <<loc, joined, answer, want, listeners, poisoned, single,
                   tuiVars, commands, held>>

\* ... and answers its listeners under none.
TellListeners ==
    /\ task = "told"
    /\ answer' = [r \in Requester |-> IF r \in held.listeners
                                      THEN IF held.ok THEN "yes" ELSE "no"
                                      ELSE answer[r]]
    /\ held' = Nothing
    /\ task' = "ready"
    /\ UNCHANGED <<loc, joined, want, capabilityVars, single, tuiVars, commands>>

\* The task panics on the poisoned mutex: the request it has taken out is
\* dropped, which closes its listeners' channels, and so are the answers that
\* have not been handled.
CommandTaskPanics ==
    /\ poisoned
    /\ \/ task = "took"
       \/ task = "ready" /\ \E c \in commands : Asks[c.request] = "capabilities"
    /\ answer' = [r \in Requester |-> IF r \in held.listeners THEN "closed" ELSE answer[r]]
    /\ held' = Nothing
    /\ commands' = {}
    /\ task' = "dead"
    /\ UNCHANGED <<loc, joined, want, capabilityVars, single, tuiVars>>

-----------------------------------------------------------------------------

Init ==
    /\ loc = [r \in Requester |-> "idle"]
    /\ joined = [r \in Requester |-> NoRequest]
    /\ answer = [r \in Requester |-> "none"]
    /\ want = [r \in Requester |-> {}]
    /\ approved = Preapproved
    /\ listeners = [r \in Requester |-> {}]
    /\ inFlight = [k \in (SUBSET Module) \ {{}} |-> NoRequest]
    /\ poisoned = FALSE
    /\ single = {}
    /\ channel = <<>>
    /\ tui = "opening"
    /\ prompts = <<>>
    /\ commands = {}
    /\ task = "ready"
    /\ held = Nothing
    /\ accepted = {} /\ rejected = {}
    /\ missed = FALSE

Ask(r) == AskAllowed(r) \/ AskNew(r) \/ AskJoin(r) \/ AskPanics(r) \/ AskSingle(r)

Command == [request : Requester, ok : BOOLEAN]

CommandTask ==
    \/ \E c \in Command : RespondSingle(c) \/ TakeCapabilities(c)
    \/ CloseCapabilities \/ TellListeners \/ CommandTaskPanics

Answer == \E ok \in BOOLEAN : AnswerPrompt(ok)

Next ==
    \/ \E r \in Requester : Ask(r) \/ Announce(r) \/ Answered(r)
    \/ Subscribe \/ Receive \/ Answer \/ Lag \/ Leave
    \/ CommandTask

Spec == Init /\ [][Next]_vars

\* Threads and the command task are scheduled, the interface polls its channel,
\* and the user answers what is shown.  Nobody has to ask, to leave or to lag.
Fairness ==
    /\ \A r \in Requester : WF_vars(Announce(r)) /\ WF_vars(Answered(r))
    /\ WF_vars(Subscribe) /\ WF_vars(Receive) /\ WF_vars(Answer)
    /\ WF_vars(CommandTask)

FairSpec == Spec /\ Fairness

-----------------------------------------------------------------------------
(* Properties. *)

CapabilityRequester == {r \in Requester : Asks[r] = "capabilities"}

\* Every variable stays within its type: in particular each map holds requests
\* of its kind only, and the command task holds a request while it works on one.
TypeOK ==
    /\ loc \in [Requester -> {"idle", "announce", "waiting", "granted", "refused",
                              "failed", "panicked"}]
    /\ joined \in [Requester -> Requester \cup {NoRequest}]
    /\ answer \in [Requester -> {"none", "yes", "no", "closed"}]
    /\ want \in [Requester -> SUBSET Module]
    /\ \A r \in Requester : want[r] \subseteq Wanted[r]
    /\ approved \subseteq Module
    /\ listeners \in [Requester -> SUBSET CapabilityRequester]
    /\ inFlight \in [(SUBSET Module) \ {{}} -> CapabilityRequester \cup {NoRequest}]
    /\ poisoned \in BOOLEAN
    /\ single \subseteq Requester \ CapabilityRequester
    /\ channel \in Seq(Requester)
    /\ tui \in {"opening", "attached", "left"}
    /\ prompts \in Seq(Requester)
    /\ commands \subseteq Command
    /\ task \in {"ready", "took", "told", "dead"}
    /\ held \in [request : CapabilityRequester \cup {NoRequest}, listeners : SUBSET Requester,
                 ok : BOOLEAN]
    /\ task \in {"took", "told"} <=> held.request # NoRequest
    /\ accepted \subseteq Requester /\ rejected \subseteq Requester
    /\ missed \in BOOLEAN

ApprovedByUser == Preapproved \cup UNION {want[r] : r \in accepted}

\* What a step is told is what the user has said: it runs with modules only if
\* each has been approved, in this prompt or in another, and it is refused only
\* if the prompt it has waited for was rejected.
VerdictIsTheUsers ==
    \A r \in Requester :
        /\ loc[r] = "granted" =>
              IF Asks[r] = "capabilities" THEN Wanted[r] \subseteq ApprovedByUser
                                          ELSE r \in accepted
        /\ loc[r] = "refused" => joined[r] \in rejected

\* The user is not asked about the same modules twice at a time, however many
\* steps want them.
OnePromptPerModules ==
    \A a, b \in Range(channel) \cup Range(prompts) :
        Asks[a] = "capabilities" /\ Asks[b] = "capabilities" /\ want[a] = want[b] => a = b

\* A step that asks is answered, as long as nobody has panicked, no announcement
\* was missed and the user stays.
EveryRequestIsAnswered ==
    \A r \in Requester :
        loc[r] \in {"announce", "waiting"} ~>
            \/ loc[r] \notin {"announce", "waiting"}
            \/ poisoned \/ missed \/ tui = "left"

\* "in-flight capability request should exist": no step finds that a request in
\* flight is gone.
InFlightRequestExists == \A r \in Requester : loc[r] # "panicked"

=============================================================================
