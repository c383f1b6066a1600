--------------------------- MODULE ApprovalProof ---------------------------
(***************************************************************************)
(* For any number of steps, modules and prompts: what a step is told is    *)
(* what the user has said, and no modules are asked for twice at a time.   *)
(*                                                                         *)
(* Neither property is inductive.  VerdictInv follows an answer back from  *)
(* the step through its response channel, the command task and the command *)
(* to the user; PromptInv follows a request from place to place, and says  *)
(* that until it is closed it is the one in flight for its modules.        *)
(***************************************************************************)
EXTENDS ApprovalSession, SequenceTheorems, TLAPS

USE DEF capabilityVars, verdicts, tuiVars, taskVars

-----------------------------------------------------------------------------
(* Queues.                                                                 *)

\* Append adds one element, and keeps a queue free of duplicates if it is new.
LEMMA Enqueue ==
    ASSUME NEW s \in Seq(Requester), NEW r \in Requester
    PROVE  /\ Append(s, r) \in Seq(Requester)
           /\ Range(Append(s, r)) = Range(s) \cup {r}
           /\ IsInjective(s) /\ r \notin Range(s) => IsInjective(Append(s, r))
<1>1. /\ Append(s, r) \in Seq(Requester)
      /\ Len(Append(s, r)) = Len(s) + 1
      /\ \A i \in 1 .. Len(s) : Append(s, r)[i] = s[i]
      /\ Append(s, r)[Len(s) + 1] = r
  BY AppendProperties
<1>2. /\ Len(s) \in Nat
      /\ DOMAIN s = 1 .. Len(s)
      /\ DOMAIN Append(s, r) = 1 .. (Len(s) + 1)
  BY <1>1, LenProperties
<1>3. DOMAIN Append(s, r) = DOMAIN s \cup {Len(s) + 1}
  BY <1>2
<1>4. Range(Append(s, r)) = Range(s) \cup {r}
  BY <1>1, <1>2, <1>3 DEF Range
<1>5. IsInjective(s) /\ r \notin Range(s) => IsInjective(Append(s, r))
  BY <1>1, <1>2, <1>3 DEF Range, IsInjective
<1> QED  BY <1>1, <1>4, <1>5

\* A queue holds its head and its tail, which share nothing if it has no duplicates.
LEMMA Dequeue ==
    ASSUME NEW s \in Seq(Requester), s # <<>>
    PROVE  /\ Head(s) \in Requester
           /\ Tail(s) \in Seq(Requester)
           /\ Range(s) = Range(Tail(s)) \cup {Head(s)}
           /\ IsInjective(s) => IsInjective(Tail(s)) /\ Head(s) \notin Range(Tail(s))
<1>1. /\ Head(s) \in Requester
      /\ Tail(s) \in Seq(Requester)
      /\ Len(Tail(s)) = Len(s) - 1
      /\ \A i \in 1 .. Len(Tail(s)) : Tail(s)[i] = s[i + 1]
  BY HeadTailProperties
<1>2. /\ Len(s) \in Nat \ {0}
      /\ DOMAIN s = 1 .. Len(s)
      /\ DOMAIN Tail(s) = 1 .. (Len(s) - 1)
  BY <1>1, LenProperties, EmptySeq
<1>3. Head(s) = s[1]
  BY <1>2
<1>4. \A x \in Range(s) : x = Head(s) \/ x \in Range(Tail(s))
  <2> SUFFICES ASSUME NEW i \in 1 .. Len(s), i # 1 PROVE s[i] \in Range(Tail(s))
    BY <1>2, <1>3 DEF Range
  <2>1. i - 1 \in DOMAIN Tail(s) /\ Tail(s)[i - 1] = s[i]
    BY <1>1, <1>2
  <2> QED  BY <2>1 DEF Range
<1>5. \A x \in Range(Tail(s)) : x \in Range(s)
  <2> SUFFICES ASSUME NEW i \in 1 .. (Len(s) - 1) PROVE Tail(s)[i] \in Range(s)
    BY <1>2 DEF Range
  <2>1. i + 1 \in DOMAIN s /\ Tail(s)[i] = s[i + 1]
    BY <1>1, <1>2
  <2> QED  BY <2>1 DEF Range
<1>6. Head(s) \in Range(s)
  BY <1>2, <1>3 DEF Range
<1>7. IsInjective(s) => IsInjective(Tail(s)) /\ Head(s) \notin Range(Tail(s))
  BY <1>1, <1>2, <1>3 DEF IsInjective, Range
<1> QED  BY <1>1, <1>4, <1>5, <1>6, <1>7

-----------------------------------------------------------------------------
(* Types.                                                                  *)

\* Initially every variable has its type.
LEMMA TypeInit ==
    ASSUME Init
    PROVE  TypeOK
<1> USE ApprovalAssumption DEF Init, CapabilityRequester
<1>1. inFlight \in [(SUBSET Module) \ {{}} -> CapabilityRequester \cup {NoRequest}]
  OBVIOUS
<1>2. held \in [request : CapabilityRequester \cup {NoRequest},
                listeners : SUBSET Requester, ok : BOOLEAN]
  BY DEF Nothing
<1>3. channel \in Seq(Requester) /\ prompts \in Seq(Requester)
  OBVIOUS
<1>4. task \in {"took", "told"} <=> held.request # NoRequest
  BY DEF Nothing
<1>5. poisoned \in BOOLEAN /\ missed \in BOOLEAN
  OBVIOUS
<1>6. /\ commands \subseteq Command /\ accepted \subseteq Requester /\ rejected \subseteq Requester
      /\ single \subseteq Requester \ CapabilityRequester
  OBVIOUS
<1>7. loc \in [Requester ->
               {"idle", "announce", "waiting", "granted", "refused", "failed", "panicked"}]
  OBVIOUS
<1>8. joined \in [Requester -> Requester \cup {NoRequest}]
  OBVIOUS
<1>9. answer \in [Requester -> {"none", "yes", "no", "closed"}]
  OBVIOUS
<1>10. want \in [Requester -> SUBSET Module] /\ \A r \in Requester : want[r] \subseteq Wanted[r]
  OBVIOUS
<1>11. listeners \in [Requester -> SUBSET CapabilityRequester]
  OBVIOUS
<1> QED  BY <1>1, <1>2, <1>3, <1>4, <1>5, <1>6, <1>7, <1>8, <1>9, <1>10, <1>11 DEF
     TypeOK

\* Every step keeps the types.
LEMMA TypeStep ==
    ASSUME TypeOK, [Next]_vars
    PROVE  TypeOK'
<1> USE ApprovalAssumption DEF TypeOK, CapabilityRequester, Command
<1>1. CASE UNCHANGED vars
  BY <1>1 DEF vars
<1>2. ASSUME NEW r \in Requester, Ask(r) PROVE TypeOK'
  <2>1. CASE AskAllowed(r)
    BY <2>1 DEF AskAllowed
  <2>2. CASE AskNew(r)
    <3>1. ModulesToApprove(r) \subseteq Wanted[r] /\ ModulesToApprove(r) \subseteq Module
      BY DEF ModulesToApprove
    <3>2. /\ want' \in [Requester -> SUBSET Module]
          /\ \A q \in Requester : want'[q] \subseteq Wanted[q]
      BY <2>2, <3>1 DEF AskNew
    <3> QED  BY <2>2, <3>2 DEF AskNew
  <2>3. CASE AskJoin(r)
    <3>1. RequestInFlight(r) \in Requester
      BY <2>3 DEF AskJoin, RequestInFlight, ModulesToApprove
    <3> QED  BY <2>3, <3>1 DEF AskJoin
  <2>4. CASE AskPanics(r)
    BY <2>4 DEF AskPanics
  <2>5. CASE AskSingle(r)
    BY <2>5 DEF AskSingle
  <2> QED  BY <1>2, <2>1, <2>2, <2>3, <2>4, <2>5 DEF Ask
<1>3. ASSUME NEW r \in Requester, Announce(r) PROVE TypeOK'
  <2>1. channel' = channel \/ channel' = Append(channel, r)
    BY <1>3 DEF Announce
  <2>2. loc' = [loc EXCEPT ![r] = "waiting"] \/ loc' = [loc EXCEPT ![r] = "failed"]
    BY <1>3 DEF Announce
  <2>3. single' = single \/ single' = single \ {r}
    BY <1>3 DEF Announce
  <2>4. (missed' = missed \/ missed' = TRUE)
    BY <1>3 DEF Announce
  <2>5. /\ UNCHANGED <<joined, answer, want, approved, listeners, inFlight>>
        /\ UNCHANGED <<poisoned, tui, prompts, accepted, rejected, commands, task, held>>
    BY <1>3 DEF Announce
  <2>6. channel' \in Seq(Requester)
    <3>1. channel \in Seq(Requester)
      OBVIOUS
    <3>2. Append(channel, r) \in Seq(Requester)
      BY <3>1, Enqueue
    <3> QED  BY <2>1, <3>1, <3>2
  <2>7. missed' \in BOOLEAN
    BY <2>4
  <2>8. loc' \in [Requester -> {"idle", "announce", "waiting", "granted", "refused", "failed",
                            "panicked"}]
    BY <2>2
  <2>9. single' \subseteq Requester \ CapabilityRequester
    BY <2>3
  <2> QED  BY <2>5, <2>6, <2>7, <2>8, <2>9
<1>4. ASSUME NEW r \in Requester, Answered(r) PROVE TypeOK'
  BY <1>4 DEF Answered
<1>5. CASE Subscribe
  BY <1>5 DEF Subscribe
<1>6. CASE Receive
  BY <1>6, Enqueue, Dequeue DEF Receive
<1>7. ASSUME NEW ok \in BOOLEAN, AnswerPrompt(ok) PROVE TypeOK'
  <2>1. Head(prompts) \in Requester /\ prompts' \in Seq(Requester)
    BY <1>7, Dequeue DEF AnswerPrompt
  <2>2. accepted' \subseteq Requester /\ rejected' \subseteq Requester
    BY <1>7, <2>1 DEF AnswerPrompt
  <2>3. commands' \subseteq Command
    BY <1>7, <2>1 DEF AnswerPrompt
  <2> QED  BY <1>7, <2>1, <2>2, <2>3 DEF AnswerPrompt
<1>8. CASE Lag
  BY <1>8, Dequeue DEF Lag
<1>9. CASE Leave
  BY <1>9 DEF Leave
<1>10. ASSUME NEW c \in Command, RespondSingle(c) PROVE TypeOK'
  BY <1>10 DEF RespondSingle
<1>11. ASSUME NEW c \in Command, TakeCapabilities(c) PROVE TypeOK'
  BY <1>11 DEF TakeCapabilities
<1>12. CASE CloseCapabilities
  BY <1>12 DEF CloseCapabilities
<1>13. CASE TellListeners
  BY <1>13 DEF TellListeners, Nothing
<1>14. CASE CommandTaskPanics
  BY <1>14 DEF CommandTaskPanics, Nothing
<1> HIDE DEF TypeOK
<1> QED
  BY <1>1, <1>2, <1>3, <1>4, <1>5, <1>6, <1>7, <1>8, <1>9, <1>10, <1>11, <1>12, <1>13,
     <1>14 DEF Next, CommandTask, Answer

\* TypeOK holds in every reachable state: the maps of pending approvals hold
\* requests of their own kind, and the command task works on one at a time.
THEOREM ApprovalTypeCorrect == Spec => []TypeOK
<1>1. Init => TypeOK
  BY TypeInit
<1>2. TypeOK /\ [Next]_vars => TypeOK'
  BY TypeStep
<1> QED  BY <1>1, <1>2, PTL DEF Spec

-----------------------------------------------------------------------------
(* Steps are told what the user has said.                                  *)

Asked == {r \in Requester : loc[r] # "idle"}

\* Only requests that have been made are announced, shown, answered or in flight;
\* one in flight is about the modules that lead to it.
KnownRequests ==
    /\ Range(channel) \subseteq Asked /\ Range(prompts) \subseteq Asked
    /\ accepted \subseteq Asked /\ rejected \subseteq Asked
    /\ \A k \in (SUBSET Module) \ {{}} :
          inFlight[k] # NoRequest => inFlight[k] \in Asked /\ want[inFlight[k]] = k

\* A requester waits for one request, which covers the modules it still needs.
JoinedRequests ==
    \A r \in Requester :
        /\ loc[r] \in {"announce", "waiting"} => joined[r] # NoRequest
        /\ joined[r] # NoRequest =>
              /\ r \in Asked /\ joined[r] \in Asked
              /\ IF Asks[r] = "capabilities"
                 THEN Wanted[r] \subseteq approved \cup want[joined[r]]
                 ELSE joined[r] = r

\* Who is registered with a request waits for it.
Registered ==
    /\ \A id \in Requester : \A r \in listeners[id] : joined[r] = id
    /\ \A r \in held.listeners : joined[r] = held.request /\ held.request \in Requester
    /\ \A r \in single : joined[r] = r

\* What the command task handles, has approved and has told, the user has said.
FromTheUser ==
    /\ \A c \in commands : c.request \in IF c.ok THEN accepted ELSE rejected
    /\ task \in {"took", "told"} => held.request \in IF held.ok THEN accepted ELSE rejected
    /\ approved \subseteq ApprovedByUser
    /\ \A r \in Requester :
          /\ answer[r] = "yes" => joined[r] \in accepted
          /\ answer[r] = "no" => joined[r] \in rejected

VerdictInv == KnownRequests /\ JoinedRequests /\ Registered /\ FromTheUser /\ VerdictIsTheUsers

\* What is needed of the types.
Domains ==
    /\ DOMAIN loc = Requester /\ DOMAIN joined = Requester /\ DOMAIN answer = Requester
    /\ \A r \in Requester : answer[r] \in {"none", "yes", "no", "closed"}
    /\ DOMAIN want = Requester /\ DOMAIN listeners = Requester
    /\ DOMAIN inFlight = (SUBSET Module) \ {{}}
    /\ \A r \in Requester : joined[r] \in Requester \cup {NoRequest} /\ want[r] \subseteq Module
    /\ \A k \in (SUBSET Module) \ {{}} : inFlight[k] \in Requester \cup {NoRequest}
    /\ \A r \in Requester : listeners[r] \subseteq CapabilityRequester
    /\ single \subseteq Requester \ CapabilityRequester
    /\ channel \in Seq(Requester) /\ prompts \in Seq(Requester)
    /\ held.listeners \subseteq Requester /\ held.request \in CapabilityRequester \cup {NoRequest}
    /\ task \in {"took", "told"} <=> held.request # NoRequest

\* The types the following proofs need.
LEMMA DomainsOK == TypeOK => Domains
<1> SUFFICES ASSUME TypeOK PROVE Domains
  OBVIOUS
<1> USE DEF TypeOK
<1>1. /\ DOMAIN loc = Requester /\ DOMAIN joined = Requester /\ DOMAIN answer = Requester
      /\ DOMAIN want = Requester /\ DOMAIN listeners = Requester
      /\ DOMAIN inFlight = (SUBSET Module) \ {{}}
  OBVIOUS
<1>2. \A r \in Requester : /\ answer[r] \in {"none", "yes", "no", "closed"}
                         /\ joined[r] \in Requester \cup {NoRequest} /\ want[r] \subseteq Module
                         /\ listeners[r] \subseteq CapabilityRequester
  OBVIOUS
<1>3. \A k \in (SUBSET Module) \ {{}} : inFlight[k] \in Requester \cup {NoRequest}
  BY DEF CapabilityRequester
<1>4. held.listeners \subseteq Requester /\ held.request \in CapabilityRequester \cup {NoRequest}
  OBVIOUS
<1> QED  BY <1>1, <1>2, <1>3, <1>4 DEF Domains

\* Nobody is told anything, and what the user has approved does not shrink.
LEMMA VerdictKept ==
    ASSUME VerdictIsTheUsers, ApprovedByUser \subseteq ApprovedByUser',
           accepted \subseteq accepted', rejected \subseteq rejected',
           \A r \in Requester : loc'[r] \in {"granted", "refused"} =>
               loc'[r] = loc[r] /\ joined'[r] = joined[r]
    PROVE  VerdictIsTheUsers'
BY DEF VerdictIsTheUsers

\* What the user has approved grows with what they accept, if requests keep their modules.
LEMMA ApprovedGrows ==
    ASSUME accepted \subseteq accepted', \A r \in accepted : want'[r] = want[r]
    PROVE  ApprovedByUser \subseteq ApprovedByUser'
BY DEF ApprovedByUser

\* A step whose modules have all been approved goes on with them, and the user has approved them.
LEMMA AskAllowedVerdict ==
    ASSUME NEW r \in Requester, TypeOK, TypeOK', VerdictInv, AskAllowed(r)
    PROVE  VerdictInv'
<1> USE ApprovalAssumption, DomainsOK
    DEF VerdictInv, CapabilityRequester, Asked, Command, Domains, AskAllowed,
         ModulesToApprove
<1>a. ApprovedByUser \subseteq ApprovedByUser'
  BY ApprovedGrows DEF KnownRequests
<1>k. Asked \subseteq Asked'
  OBVIOUS
<1>1. KnownRequests'
  BY <1>k DEF KnownRequests
<1>2. JoinedRequests'
  BY <1>k DEF JoinedRequests, KnownRequests
<1>3. Registered'
  BY DEF Registered, JoinedRequests
<1>4. FromTheUser'
  BY <1>a DEF FromTheUser, KnownRequests, JoinedRequests, Registered
<1>5. VerdictIsTheUsers'
  <2>1. Wanted[r] \subseteq ApprovedByUser'
    BY <1>a DEF FromTheUser
  <2>2. \A x \in Requester \ {r} : loc'[x] = loc[x] /\ joined'[x] = joined[x]
    OBVIOUS
  <2>3. loc'[r] = "granted" /\ Asks[r] = "capabilities" /\ UNCHANGED <<accepted, rejected>>
    OBVIOUS
  <2> HIDE DEF Domains, AskAllowed, VerdictInv
  <2>4. VerdictIsTheUsers
    BY DEF VerdictInv
  <2> QED  BY <1>a, <2>1, <2>2, <2>3, <2>4 DEF VerdictIsTheUsers
<1> QED  BY <1>1, <1>2, <1>3, <1>4, <1>5

\* A new request is nobody's, so nothing that is known of the others changes.
LEMMA AskNewVerdict ==
    ASSUME NEW r \in Requester, TypeOK, TypeOK', VerdictInv, AskNew(r)
    PROVE  VerdictInv'
<1> USE ApprovalAssumption, DomainsOK
    DEF VerdictInv, CapabilityRequester, Asked, Command, Domains, AskNew,
         ModulesToApprove, RequestInFlight
<1>a. ApprovedByUser \subseteq ApprovedByUser'
  BY ApprovedGrows DEF KnownRequests
<1>k. Asked \subseteq Asked'
  OBVIOUS
<1>1. KnownRequests'
  BY <1>k DEF KnownRequests
<1>2. JoinedRequests'
  BY <1>k DEF JoinedRequests, KnownRequests
<1>3. Registered'
  BY DEF Registered, JoinedRequests
<1>4. FromTheUser'
  BY <1>a DEF FromTheUser, KnownRequests, JoinedRequests, Registered
<1>5. VerdictIsTheUsers'
  BY <1>a, VerdictKept
<1> QED  BY <1>1, <1>2, <1>3, <1>4, <1>5

\* A step that joins the request in flight for its modules waits for a request about these.
LEMMA AskJoinVerdict ==
    ASSUME NEW r \in Requester, TypeOK, TypeOK', VerdictInv, AskJoin(r)
    PROVE  VerdictInv'
<1> USE ApprovalAssumption, DomainsOK
    DEF VerdictInv, CapabilityRequester, Asked, Command, Domains, AskJoin,
         ModulesToApprove, RequestInFlight
<1>a. ApprovedByUser \subseteq ApprovedByUser'
  BY ApprovedGrows DEF KnownRequests
<1>k. Asked \subseteq Asked'
  OBVIOUS
<1>1. KnownRequests'
  BY <1>k DEF KnownRequests
<1>2. JoinedRequests'
  <2>1. /\ RequestInFlight(r) \in Asked
        /\ want[RequestInFlight(r)] = Wanted[r] \ approved
    BY DEF KnownRequests
  <2>2. Wanted[r] \subseteq approved' \cup want'[joined'[r]]
    BY <2>1
  <2>3. joined'[r] \in Asked' /\ r \in Asked' /\ r \in CapabilityRequester
    BY <1>k, <2>1
  <2>4. \A x \in Requester \ {r} : loc'[x] = loc[x] /\ joined'[x] = joined[x]
    OBVIOUS
  <2>5. /\ approved' = approved /\ want' = want
        /\ JoinedRequests
        /\ joined'[r] # NoRequest
    OBVIOUS
  <2> HIDE DEF Domains, AskJoin, VerdictInv, CapabilityRequester, Asked
  <2>6. Asks[r] = "capabilities"
    BY <2>3 DEF CapabilityRequester
  <2>7. \A x \in Requester : joined[x] # NoRequest => x \in Asked /\ joined[x] \in Asked
    BY <2>5 DEF JoinedRequests
  <2> QED  BY <1>k, <2>2, <2>3, <2>4, <2>5, <2>6, <2>7 DEF JoinedRequests
<1>3. Registered'
  BY DEF Registered, JoinedRequests
<1>4. FromTheUser'
  BY <1>a DEF FromTheUser, KnownRequests, JoinedRequests, Registered
<1>5. VerdictIsTheUsers'
  BY <1>a, VerdictKept
<1> QED  BY <1>1, <1>2, <1>3, <1>4, <1>5

\* A thread that panics is told nothing.
LEMMA AskPanicsVerdict ==
    ASSUME NEW r \in Requester, TypeOK, TypeOK', VerdictInv, AskPanics(r)
    PROVE  VerdictInv'
<1> USE ApprovalAssumption, DomainsOK
    DEF VerdictInv, CapabilityRequester, Asked, Command, Domains, AskPanics
<1>a. ApprovedByUser \subseteq ApprovedByUser'
  BY ApprovedGrows DEF KnownRequests
<1>k. Asked \subseteq Asked'
  OBVIOUS
<1>1. KnownRequests'
  BY <1>k DEF KnownRequests
<1>2. JoinedRequests'
  BY <1>k DEF JoinedRequests, KnownRequests
<1>3. Registered'
  BY DEF Registered, JoinedRequests
<1>4. FromTheUser'
  BY <1>a DEF FromTheUser, KnownRequests, JoinedRequests, Registered
<1>5. VerdictIsTheUsers'
  BY <1>a, VerdictKept
<1> QED  BY <1>1, <1>2, <1>3, <1>4, <1>5

\* A request of its own kind is waited for by its requester alone.
LEMMA AskSingleVerdict ==
    ASSUME NEW r \in Requester, TypeOK, TypeOK', VerdictInv, AskSingle(r)
    PROVE  VerdictInv'
<1> USE ApprovalAssumption, DomainsOK
    DEF VerdictInv, CapabilityRequester, Asked, Command, Domains, AskSingle
<1>a. ApprovedByUser \subseteq ApprovedByUser'
  BY ApprovedGrows DEF KnownRequests
<1>k. Asked \subseteq Asked'
  OBVIOUS
<1>1. KnownRequests'
  BY <1>k DEF KnownRequests
<1>2. JoinedRequests'
  BY <1>k DEF JoinedRequests, KnownRequests
<1>3. Registered'
  BY DEF Registered, JoinedRequests
<1>4. FromTheUser'
  BY <1>a DEF FromTheUser, KnownRequests, JoinedRequests, Registered
<1>5. VerdictIsTheUsers'
  BY <1>a, VerdictKept
<1> QED  BY <1>1, <1>2, <1>3, <1>4, <1>5

\* An announcement is of somebody who has asked; who cannot announce is told nothing.
LEMMA AnnounceVerdict ==
    ASSUME NEW r \in Requester, TypeOK, TypeOK', VerdictInv, Announce(r)
    PROVE  VerdictInv'
<1>b. Range(channel') \subseteq Range(channel) \cup {r}
  <2>1. channel' = channel \/ channel' = Append(channel, r)
    BY DEF Announce
  <2>2. channel \in Seq(Requester)
    BY DEF TypeOK
  <2> QED  BY <2>1, <2>2, Enqueue
<1> USE ApprovalAssumption, DomainsOK
    DEF VerdictInv, CapabilityRequester, Asked, Command, Domains, Announce
<1>a. ApprovedByUser \subseteq ApprovedByUser'
  BY ApprovedGrows DEF KnownRequests
<1>k. Asked \subseteq Asked'
  OBVIOUS
<1>1. KnownRequests'
  BY <1>b, <1>k DEF KnownRequests
<1>2. JoinedRequests'
  BY <1>k DEF JoinedRequests, KnownRequests
<1>3. Registered'
  BY DEF Registered, JoinedRequests
<1>4. FromTheUser'
  BY <1>a, <1>b DEF FromTheUser, KnownRequests, JoinedRequests, Registered
<1>5. VerdictIsTheUsers'
  BY <1>a, VerdictKept
<1> QED  BY <1>1, <1>2, <1>3, <1>4, <1>5

\* What a step is told was said of the request it has waited for.
LEMMA AnsweredVerdict ==
    ASSUME NEW r \in Requester, TypeOK, TypeOK', VerdictInv, Answered(r)
    PROVE  VerdictInv'
<1> USE ApprovalAssumption, DomainsOK
    DEF VerdictInv, CapabilityRequester, Asked, Command, Domains, Answered
<1>a. ApprovedByUser \subseteq ApprovedByUser'
  BY ApprovedGrows DEF KnownRequests
<1>k. Asked \subseteq Asked'
  OBVIOUS
<1>1. KnownRequests'
  BY <1>k DEF KnownRequests
<1>2. JoinedRequests'
  BY <1>k DEF JoinedRequests, KnownRequests
<1>3. Registered'
  BY DEF Registered, JoinedRequests
<1>4. FromTheUser'
  BY <1>a DEF FromTheUser, KnownRequests, JoinedRequests, Registered
<1>5. VerdictIsTheUsers'
  <2>1. \A x \in Requester \ {r} : loc'[x] = loc[x] /\ joined'[x] = joined[x]
    OBVIOUS
  <2>2. UNCHANGED <<accepted, rejected>> /\ joined'[r] = joined[r]
    OBVIOUS
  <2>3. joined[r] # NoRequest
    BY DEF JoinedRequests
  <2>4. ASSUME loc'[r] = "granted", r \in CapabilityRequester
        PROVE  Wanted[r] \subseteq ApprovedByUser'
    <3>1. joined[r] \in accepted /\ joined[r] \in Requester
      BY <2>3, <2>4 DEF FromTheUser
    <3>2. want[joined[r]] \subseteq ApprovedByUser
      BY <3>1 DEF ApprovedByUser
    <3>3. Wanted[r] \subseteq approved \cup want[joined[r]]
      BY <2>3, <2>4 DEF JoinedRequests
    <3> QED  BY <1>a, <3>2, <3>3 DEF FromTheUser
  <2>5. ASSUME loc'[r] = "granted", r \notin CapabilityRequester PROVE r \in accepted'
    <3>1. joined[r] \in accepted
      BY <2>5 DEF FromTheUser
    <3>2. joined[r] = r
      BY <2>3, <2>5 DEF JoinedRequests
    <3> QED  BY <2>2, <3>1, <3>2
  <2>6. ASSUME loc'[r] = "refused" PROVE joined'[r] \in rejected'
    BY <2>2, <2>6 DEF FromTheUser
  <2>7. VerdictIsTheUsers /\ (r \in CapabilityRequester <=> Asks[r] = "capabilities")
    OBVIOUS
  <2> HIDE DEF Domains, Answered, VerdictInv, CapabilityRequester
  <2> QED  BY <1>a, <2>1, <2>2, <2>4, <2>5, <2>6, <2>7 DEF VerdictIsTheUsers
<1> QED  BY <1>1, <1>2, <1>3, <1>4, <1>5

\* The interface subscribes; no request is involved.
LEMMA SubscribeVerdict ==
    ASSUME TypeOK, TypeOK', VerdictInv, Subscribe
    PROVE  VerdictInv'
<1> USE ApprovalAssumption, DomainsOK
    DEF VerdictInv, CapabilityRequester, Asked, Command, Domains, Subscribe
<1>a. ApprovedByUser \subseteq ApprovedByUser'
  BY ApprovedGrows DEF KnownRequests
<1>k. Asked \subseteq Asked'
  OBVIOUS
<1>1. KnownRequests'
  BY <1>k DEF KnownRequests
<1>2. JoinedRequests'
  BY <1>k DEF JoinedRequests, KnownRequests
<1>3. Registered'
  BY DEF Registered, JoinedRequests
<1>4. FromTheUser'
  BY <1>a DEF FromTheUser, KnownRequests, JoinedRequests, Registered
<1>5. VerdictIsTheUsers'
  BY <1>a, VerdictKept
<1> QED  BY <1>1, <1>2, <1>3, <1>4, <1>5

\* A prompt is shown for a request that was announced.
LEMMA ReceiveVerdict ==
    ASSUME TypeOK, TypeOK', VerdictInv, Receive
    PROVE  VerdictInv'
<1> USE ApprovalAssumption, DomainsOK
    DEF VerdictInv, CapabilityRequester, Asked, Command, Domains, Receive
<1>a. ApprovedByUser \subseteq ApprovedByUser'
  BY ApprovedGrows DEF KnownRequests
<1>k. Asked \subseteq Asked'
  OBVIOUS
<1>b. Head(channel) \in Requester /\ Range(channel) = Range(channel') \cup {Head(channel)}
  BY Dequeue
<1>c. Range(prompts') = Range(prompts) \cup {Head(channel)}
  BY <1>b, Enqueue
<1>1. KnownRequests'
  BY <1>b, <1>c, <1>k DEF KnownRequests
<1>2. JoinedRequests'
  BY <1>k DEF JoinedRequests, KnownRequests
<1>3. Registered'
  BY DEF Registered, JoinedRequests
<1>4. FromTheUser'
  BY <1>a, <1>b, <1>c DEF FromTheUser, KnownRequests, JoinedRequests, Registered
<1>5. VerdictIsTheUsers'
  BY <1>a, VerdictKept
<1> QED  BY <1>1, <1>2, <1>3, <1>4, <1>5

\* The user's answer becomes a command and part of what the user has said.
LEMMA AnswerPromptVerdict ==
    ASSUME NEW ok \in BOOLEAN, TypeOK, TypeOK', VerdictInv, AnswerPrompt(ok)
    PROVE  VerdictInv'
<1> USE ApprovalAssumption, DomainsOK
    DEF VerdictInv, CapabilityRequester, Asked, Command, Domains, AnswerPrompt
<1>a. ApprovedByUser \subseteq ApprovedByUser'
  BY ApprovedGrows DEF KnownRequests
<1>k. Asked \subseteq Asked'
  OBVIOUS
<1>b. Head(prompts) \in Requester /\ Range(prompts) = Range(prompts') \cup {Head(prompts)}
  BY Dequeue
<1>1. KnownRequests'
  BY <1>b, <1>k DEF KnownRequests
<1>2. JoinedRequests'
  BY <1>k DEF JoinedRequests, KnownRequests
<1>3. Registered'
  BY DEF Registered, JoinedRequests
<1>4. FromTheUser'
  BY <1>a, <1>b DEF FromTheUser, KnownRequests, JoinedRequests, Registered
<1>5. VerdictIsTheUsers'
  BY <1>a, VerdictKept
<1> QED  BY <1>1, <1>2, <1>3, <1>4, <1>5

\* A lost announcement is told to nobody.
LEMMA LagVerdict ==
    ASSUME TypeOK, TypeOK', VerdictInv, Lag
    PROVE  VerdictInv'
<1> USE ApprovalAssumption, DomainsOK
    DEF VerdictInv, CapabilityRequester, Asked, Command, Domains, Lag
<1>a. ApprovedByUser \subseteq ApprovedByUser'
  BY ApprovedGrows DEF KnownRequests
<1>k. Asked \subseteq Asked'
  OBVIOUS
<1>b. Head(channel) \in Requester /\ Range(channel) = Range(channel') \cup {Head(channel)}
  BY Dequeue
<1>1. KnownRequests'
  BY <1>b, <1>k DEF KnownRequests
<1>2. JoinedRequests'
  BY <1>k DEF JoinedRequests, KnownRequests
<1>3. Registered'
  BY DEF Registered, JoinedRequests
<1>4. FromTheUser'
  BY <1>a, <1>b DEF FromTheUser, KnownRequests, JoinedRequests, Registered
<1>5. VerdictIsTheUsers'
  BY <1>a, VerdictKept
<1> QED  BY <1>1, <1>2, <1>3, <1>4, <1>5

\* Leaving the run answers nobody.
LEMMA LeaveVerdict ==
    ASSUME TypeOK, TypeOK', VerdictInv, Leave
    PROVE  VerdictInv'
<1> USE ApprovalAssumption, DomainsOK
    DEF VerdictInv, CapabilityRequester, Asked, Command, Domains, Leave
<1>a. ApprovedByUser \subseteq ApprovedByUser'
  BY ApprovedGrows DEF KnownRequests
<1>k. Asked \subseteq Asked'
  OBVIOUS
<1>b. Range(channel') = {}
  BY DEF Range
<1>1. KnownRequests'
  BY <1>b, <1>k DEF KnownRequests
<1>2. JoinedRequests'
  BY <1>k DEF JoinedRequests, KnownRequests
<1>3. Registered'
  BY DEF Registered, JoinedRequests
<1>4. FromTheUser'
  BY <1>a, <1>b DEF FromTheUser, KnownRequests, JoinedRequests, Registered
<1>5. VerdictIsTheUsers'
  BY <1>a, VerdictKept
<1> QED  BY <1>1, <1>2, <1>3, <1>4, <1>5

\* The answer goes to the one requester that is registered.
LEMMA RespondSingleVerdict ==
    ASSUME NEW c \in Command, TypeOK, TypeOK', VerdictInv, RespondSingle(c)
    PROVE  VerdictInv'
<1> USE ApprovalAssumption, DomainsOK
    DEF VerdictInv, CapabilityRequester, Asked, Command, Domains, RespondSingle
<1>a. ApprovedByUser \subseteq ApprovedByUser'
  BY ApprovedGrows DEF KnownRequests
<1>k. Asked \subseteq Asked'
  OBVIOUS
<1>1. KnownRequests'
  BY <1>k DEF KnownRequests
<1>2. JoinedRequests'
  BY <1>k DEF JoinedRequests, KnownRequests
<1>3. Registered'
  BY DEF Registered, JoinedRequests
<1>4. FromTheUser'
  BY <1>a DEF FromTheUser, KnownRequests, JoinedRequests, Registered
<1>5. VerdictIsTheUsers'
  BY <1>a, VerdictKept
<1> QED  BY <1>1, <1>2, <1>3, <1>4, <1>5

\* The task takes out the listeners of the request that was answered.
LEMMA TakeCapabilitiesVerdict ==
    ASSUME NEW c \in Command, TypeOK, TypeOK', VerdictInv, TakeCapabilities(c)
    PROVE  VerdictInv'
<1> USE ApprovalAssumption, DomainsOK
    DEF VerdictInv, CapabilityRequester, Asked, Command, Domains, TakeCapabilities
<1>a. ApprovedByUser \subseteq ApprovedByUser'
  BY ApprovedGrows DEF KnownRequests
<1>k. Asked \subseteq Asked'
  OBVIOUS
<1>1. KnownRequests'
  BY <1>k DEF KnownRequests
<1>2. JoinedRequests'
  BY <1>k DEF JoinedRequests, KnownRequests
<1>3. Registered'
  BY DEF Registered, JoinedRequests
<1>4. FromTheUser'
  BY <1>a DEF FromTheUser, KnownRequests, JoinedRequests, Registered
<1>5. VerdictIsTheUsers'
  BY <1>a, VerdictKept
<1> QED  BY <1>1, <1>2, <1>3, <1>4, <1>5

\* Modules are approved only if the user has accepted their request.
LEMMA CloseCapabilitiesVerdict ==
    ASSUME TypeOK, TypeOK', VerdictInv, CloseCapabilities
    PROVE  VerdictInv'
<1> USE ApprovalAssumption, DomainsOK
    DEF VerdictInv, CapabilityRequester, Asked, Command, Domains, CloseCapabilities
<1>a. ApprovedByUser \subseteq ApprovedByUser'
  BY ApprovedGrows DEF KnownRequests
<1>k. Asked \subseteq Asked'
  OBVIOUS
<1>1. KnownRequests'
  BY <1>k DEF KnownRequests
<1>2. JoinedRequests'
  BY <1>k DEF JoinedRequests, KnownRequests
<1>3. Registered'
  BY DEF Registered, JoinedRequests
<1>4. FromTheUser'
  <2>1. \A d \in commands' : d.request \in IF d.ok THEN accepted' ELSE rejected'
    BY <1>a DEF FromTheUser, KnownRequests, JoinedRequests, Registered
  <2>2. task' \in {"took", "told"} => held'.request \in IF held'.ok THEN accepted' ELSE rejected'
    BY <1>a DEF FromTheUser, KnownRequests, JoinedRequests, Registered
  <2>3. approved' \subseteq ApprovedByUser'
    <3>1. CASE held.ok
      <4>1. held.request \in accepted
        BY <3>1 DEF FromTheUser
      <4>2. want[held.request] \subseteq ApprovedByUser
        BY <4>1 DEF ApprovedByUser
      <4>3. approved' = approved \cup want[held.request] /\ approved \subseteq ApprovedByUser
        BY <3>1 DEF FromTheUser
      <4> QED  BY <1>a, <4>2, <4>3
    <3>2. CASE ~held.ok
      <4>1. approved' = approved /\ approved \subseteq ApprovedByUser
        BY <3>2 DEF FromTheUser
      <4> QED  BY <1>a, <4>1
    <3> QED  BY <3>1, <3>2
  <2>4. \A q \in Requester :
           /\ answer'[q] = "yes" => joined'[q] \in accepted'
           /\ answer'[q] = "no" => joined'[q] \in rejected'
    BY <1>a DEF FromTheUser, KnownRequests, JoinedRequests, Registered
  <2> QED  BY <2>1, <2>2, <2>3, <2>4 DEF FromTheUser
<1>5. VerdictIsTheUsers'
  BY <1>a, VerdictKept
<1> QED  BY <1>1, <1>2, <1>3, <1>4, <1>5

\* The listeners are told what the user has said of their request.
LEMMA TellListenersVerdict ==
    ASSUME TypeOK, TypeOK', VerdictInv, TellListeners
    PROVE  VerdictInv'
<1> USE ApprovalAssumption, DomainsOK
    DEF VerdictInv, CapabilityRequester, Asked, Command, Domains, TellListeners, Nothing
<1>a. ApprovedByUser \subseteq ApprovedByUser'
  BY ApprovedGrows DEF KnownRequests
<1>k. Asked \subseteq Asked'
  OBVIOUS
<1>1. KnownRequests'
  BY <1>k DEF KnownRequests
<1>2. JoinedRequests'
  BY <1>k DEF JoinedRequests, KnownRequests
<1>3. Registered'
  BY DEF Registered, JoinedRequests
<1>4. FromTheUser'
  BY <1>a DEF FromTheUser, KnownRequests, JoinedRequests, Registered
<1>5. VerdictIsTheUsers'
  BY <1>a, VerdictKept
<1> QED  BY <1>1, <1>2, <1>3, <1>4, <1>5

\* Closed channels carry neither answer.
LEMMA CommandTaskPanicsVerdict ==
    ASSUME TypeOK, TypeOK', VerdictInv, CommandTaskPanics
    PROVE  VerdictInv'
<1> USE ApprovalAssumption, DomainsOK
    DEF VerdictInv, CapabilityRequester, Asked, Command, Domains, CommandTaskPanics,
         Nothing
<1>a. ApprovedByUser \subseteq ApprovedByUser'
  BY ApprovedGrows DEF KnownRequests
<1>k. Asked \subseteq Asked'
  OBVIOUS
<1>1. KnownRequests'
  BY <1>k DEF KnownRequests
<1>2. JoinedRequests'
  BY <1>k DEF JoinedRequests, KnownRequests
<1>3. Registered'
  BY DEF Registered, JoinedRequests
<1>4. FromTheUser'
  BY <1>a DEF FromTheUser, KnownRequests, JoinedRequests, Registered
<1>5. VerdictIsTheUsers'
  BY <1>a, VerdictKept
<1> QED  BY <1>1, <1>2, <1>3, <1>4, <1>5

\* Every step keeps VerdictInv.
LEMMA VerdictStep ==
    ASSUME TypeOK, TypeOK', VerdictInv, [Next]_vars
    PROVE  VerdictInv'
<1>1. CASE UNCHANGED vars
  BY <1>1 DEF vars, VerdictInv, KnownRequests, JoinedRequests, Registered, FromTheUser,
             VerdictIsTheUsers, Asked, ApprovedByUser
<1>2. ASSUME NEW r \in Requester, Ask(r) \/ Announce(r) \/ Answered(r) PROVE VerdictInv'
  BY <1>2, AskAllowedVerdict, AskNewVerdict, AskJoinVerdict, AskPanicsVerdict,
       AskSingleVerdict, AnnounceVerdict, AnsweredVerdict DEF Ask
<1>3. CASE Subscribe \/ Receive \/ Answer \/ Lag \/ Leave
  BY <1>3, SubscribeVerdict, ReceiveVerdict, AnswerPromptVerdict, LagVerdict,
       LeaveVerdict DEF Answer
<1>4. CASE CommandTask
  BY <1>4, RespondSingleVerdict, TakeCapabilitiesVerdict, CloseCapabilitiesVerdict,
       TellListenersVerdict, CommandTaskPanicsVerdict DEF CommandTask
<1> QED  BY <1>1, <1>2, <1>3, <1>4 DEF Next

\* What a step is told is what the user has said: it never runs with modules
\* nobody has approved, whichever prompt it has shared and however answers,
\* requests, panics and lost announcements interleave.
THEOREM VerdictCorrect == Spec => []VerdictIsTheUsers
<1>1. Init => VerdictInv
  BY ApprovalAssumption DEF Init, VerdictInv, KnownRequests, JoinedRequests, Registered,
     FromTheUser, VerdictIsTheUsers, ApprovedByUser, Asked, Nothing, Range
<1>2. TypeOK /\ TypeOK' /\ VerdictInv /\ [Next]_vars => VerdictInv'
  BY VerdictStep
<1>3. VerdictInv => VerdictIsTheUsers
  BY DEF VerdictInv
<1> QED  BY <1>1, <1>2, <1>3, ApprovalTypeCorrect, PTL DEF Spec

-----------------------------------------------------------------------------
(* One prompt for the same modules.                                        *)

Announcing == {r \in Requester : loc[r] = "announce"}

\* Requests that have not been announced, or that a prompt shows or will show.
Unanswered == Announcing \cup Range(channel) \cup Range(prompts)

\* A request is in one place at a time.
OnePlace ==
    /\ IsInjective(channel) /\ IsInjective(prompts)
    /\ Range(channel) \cap Range(prompts) = {}
    /\ Announcing \cap (Range(channel) \cup Range(prompts)) = {}
    /\ Unanswered \cap (accepted \cup rejected) = {}
    /\ \A c, d \in commands : c.request = d.request => c = d
    /\ \A c \in commands : task \in {"took", "told"} => c.request # held.request

\* Capability requests that somebody will still announce, answer or close.
Open == {r \in CapabilityRequester :
            \/ r \in Unanswered
            \/ \E c \in commands : c.request = r
            \/ task = "took" /\ held.request = r}

\* An open request is the one in flight for its modules.
OpenInFlight == \A r \in Open : want[r] # {} /\ inFlight[want[r]] = r

PromptInv == OnePlace /\ OpenInFlight

\* Open requests stay in flight if neither their modules nor the keys change.
LEMMA OpenKept ==
    ASSUME OpenInFlight, Open' \subseteq Open, UNCHANGED <<inFlight, want>>
    PROVE  OpenInFlight'
BY DEF OpenInFlight

\* Steps that move no request keep the invariant.
LEMMA PromptKept ==
    ASSUME PromptInv, UNCHANGED <<channel, prompts, accepted, rejected, commands, inFlight, want>>,
           Announcing' \subseteq Announcing,
           UNCHANGED <<task, held>> \/ task' \notin {"took", "told"}
    PROVE  PromptInv'
<1> USE DEF PromptInv
<1>1. OnePlace'
  BY DEF OnePlace, Unanswered
<1>2. Open' \subseteq Open
  BY DEF Open, Unanswered
<1> QED  BY <1>1, <1>2, OpenKept

\* No request moves.
LEMMA AskAllowedPrompt ==
    ASSUME NEW r \in Requester, TypeOK, TypeOK', VerdictInv, PromptInv, AskAllowed(r)
    PROVE  PromptInv'
<1>1. Announcing' \subseteq Announcing
  BY DomainsOK DEF Domains, Announcing, AskAllowed
<1> QED  BY <1>1, PromptKept DEF AskAllowed

\* A request is made only if none is in flight for its modules.
LEMMA AskNewPrompt ==
    ASSUME NEW r \in Requester, TypeOK, TypeOK', VerdictInv, PromptInv, AskNew(r)
    PROVE  PromptInv'
<1> USE DomainsOK, ApprovalAssumption DEF Domains, Command, AskNew, ModulesToApprove,
     RequestInFlight
<1>1. OnePlace'
  BY DEF PromptInv, OnePlace, Announcing, Unanswered, VerdictInv, KnownRequests,
       FromTheUser, Asked
<1>2. OpenInFlight'
  <2>1. /\ ModulesToApprove(r) # {} /\ inFlight[ModulesToApprove(r)] = NoRequest
        /\ inFlight' = [inFlight EXCEPT ![ModulesToApprove(r)] = r]
        /\ want' = [want EXCEPT ![r] = ModulesToApprove(r)]
        /\ ModulesToApprove(r) \in (SUBSET Module) \ {{}}
    OBVIOUS
  <2>2. Open' \subseteq Open \cup {r}
    BY DEF Open, Unanswered, Announcing, CapabilityRequester
  <2>3. DOMAIN inFlight = (SUBSET Module) \ {{}} /\ DOMAIN want = Requester
    OBVIOUS
  <2> HIDE DEF AskNew, ModulesToApprove, Domains
  <2> SUFFICES ASSUME NEW x \in Open' PROVE want'[x] # {} /\ inFlight'[want'[x]] = x
    BY DEF OpenInFlight
  <2>4. CASE x = r
    BY <2>1, <2>3, <2>4
  <2>5. CASE x # r
    <3>1. want[x] # {} /\ inFlight[want[x]] = x /\ x \in Requester
      BY <2>2, <2>5 DEF PromptInv, OpenInFlight, Open, CapabilityRequester
    <3>2. want'[x] = want[x]
      BY <2>1, <2>3, <2>5, <3>1
    <3>3. inFlight'[want[x]] = inFlight[want[x]]
      BY <2>1, <2>3, <3>1
    <3> QED  BY <3>1, <3>2, <3>3
  <2> QED  BY <2>4, <2>5
<1> QED  BY <1>1, <1>2 DEF PromptInv

\* No request moves.
LEMMA AskJoinPrompt ==
    ASSUME NEW r \in Requester, TypeOK, TypeOK', VerdictInv, PromptInv, AskJoin(r)
    PROVE  PromptInv'
<1>1. Announcing' \subseteq Announcing
  BY DomainsOK DEF Domains, Announcing, AskJoin
<1> QED  BY <1>1, PromptKept DEF AskJoin

\* No request moves.
LEMMA AskPanicsPrompt ==
    ASSUME NEW r \in Requester, TypeOK, TypeOK', VerdictInv, PromptInv, AskPanics(r)
    PROVE  PromptInv'
<1>1. Announcing' \subseteq Announcing
  BY DomainsOK DEF Domains, Announcing, AskPanics
<1> QED  BY <1>1, PromptKept DEF AskPanics

\* A request of another kind is not open, and has not been anywhere yet.
LEMMA AskSinglePrompt ==
    ASSUME NEW r \in Requester, TypeOK, TypeOK', VerdictInv, PromptInv, AskSingle(r)
    PROVE  PromptInv'
<1> USE DomainsOK, ApprovalAssumption DEF Domains, Command, AskSingle
<1>1. OnePlace'
  BY DEF PromptInv, OnePlace, Announcing, Unanswered, VerdictInv, KnownRequests,
       FromTheUser, Asked
<1>2. OpenInFlight'
  BY OpenKept DEF PromptInv, Open, Unanswered, Announcing, CapabilityRequester
<1> QED  BY <1>1, <1>2 DEF PromptInv

\* A request moves from its requester to the channel, or is dropped.
LEMMA AnnouncePrompt ==
    ASSUME NEW r \in Requester, TypeOK, TypeOK', VerdictInv, PromptInv, Announce(r)
    PROVE  PromptInv'
<1>b. \/ channel' = channel
      \/ /\ Range(channel') = Range(channel) \cup {r}
         /\ IsInjective(channel) /\ r \notin Range(channel) => IsInjective(channel')
  <2>1. channel' = channel \/ channel' = Append(channel, r)
    BY DEF Announce
  <2>2. channel \in Seq(Requester)
    BY DEF TypeOK
  <2> QED  BY <2>1, <2>2, Enqueue
<1>c. r \in Announcing /\ prompts' = prompts
  BY DEF Announce, Announcing
<1> USE DomainsOK, ApprovalAssumption DEF Domains, Command, Announce
<1>1. OnePlace'
  BY <1>b, <1>c DEF PromptInv, OnePlace, Announcing, Unanswered, VerdictInv,
       KnownRequests, FromTheUser, Asked
<1>2. OpenInFlight'
  BY <1>b, <1>c, OpenKept DEF PromptInv, Open, Unanswered, Announcing,
       CapabilityRequester
<1> QED  BY <1>1, <1>2 DEF PromptInv

\* No request moves.
LEMMA AnsweredPrompt ==
    ASSUME NEW r \in Requester, TypeOK, TypeOK', VerdictInv, PromptInv, Answered(r)
    PROVE  PromptInv'
<1>1. Announcing' \subseteq Announcing
  BY DomainsOK DEF Domains, Announcing, Answered
<1> QED  BY <1>1, PromptKept DEF Answered

\* No request moves.
LEMMA SubscribePrompt ==
    ASSUME TypeOK, TypeOK', VerdictInv, PromptInv, Subscribe
    PROVE  PromptInv'
<1>1. Announcing' \subseteq Announcing
  BY DomainsOK DEF Domains, Announcing, Subscribe
<1> QED  BY <1>1, PromptKept DEF Subscribe

\* A request moves from the channel to the prompts.
LEMMA ReceivePrompt ==
    ASSUME TypeOK, TypeOK', VerdictInv, PromptInv, Receive
    PROVE  PromptInv'
<1>b. /\ Head(channel) \in Requester /\ Range(channel) = Range(channel') \cup {Head(channel)}
      /\ IsInjective(channel) => IsInjective(channel') /\ Head(channel) \notin Range(channel')
  <2>1. channel \in Seq(Requester) /\ channel # <<>> /\ channel' = Tail(channel)
    BY DEF TypeOK, Receive
  <2> QED  BY <2>1, Dequeue
<1>c. /\ Range(prompts') = Range(prompts) \cup {Head(channel)}
      /\ IsInjective(prompts) /\ Head(channel) \notin Range(prompts) => IsInjective(prompts')
  <2>1. prompts \in Seq(Requester) /\ prompts' = Append(prompts, Head(channel))
    BY DEF TypeOK, Receive
  <2> QED  BY <1>b, <2>1, Enqueue
<1> USE DomainsOK, ApprovalAssumption DEF Domains, Command, Receive
<1>1. OnePlace'
  BY <1>b, <1>c DEF PromptInv, OnePlace, Announcing, Unanswered, VerdictInv,
       KnownRequests, FromTheUser, Asked
<1>2. OpenInFlight'
  BY <1>b, <1>c, OpenKept DEF PromptInv, Open, Unanswered, Announcing,
       CapabilityRequester
<1> QED  BY <1>1, <1>2 DEF PromptInv

\* A request moves from the prompts to the commands.
LEMMA AnswerPromptPrompt ==
    ASSUME NEW ok \in BOOLEAN, TypeOK, TypeOK', VerdictInv, PromptInv, AnswerPrompt(ok)
    PROVE  PromptInv'
<1>b. /\ Head(prompts) \in Requester /\ Range(prompts) = Range(prompts') \cup {Head(prompts)}
      /\ IsInjective(prompts) => IsInjective(prompts') /\ Head(prompts) \notin Range(prompts')
  <2>1. prompts \in Seq(Requester) /\ prompts # <<>> /\ prompts' = Tail(prompts)
    BY DEF TypeOK, AnswerPrompt
  <2> QED  BY <2>1, Dequeue
<1> USE DomainsOK, ApprovalAssumption DEF Domains, Command, AnswerPrompt
<1>1. OnePlace'
  BY <1>b DEF PromptInv, OnePlace, Announcing, Unanswered, VerdictInv, KnownRequests,
       FromTheUser, Asked
<1>2. OpenInFlight'
  BY <1>b, OpenKept DEF PromptInv, Open, Unanswered, Announcing, CapabilityRequester
<1> QED  BY <1>1, <1>2 DEF PromptInv

\* A request disappears from the channel.
LEMMA LagPrompt ==
    ASSUME TypeOK, TypeOK', VerdictInv, PromptInv, Lag
    PROVE  PromptInv'
<1>b. /\ Head(channel) \in Requester /\ Range(channel) = Range(channel') \cup {Head(channel)}
      /\ IsInjective(channel) => IsInjective(channel') /\ Head(channel) \notin Range(channel')
  <2>1. channel \in Seq(Requester) /\ channel # <<>> /\ channel' = Tail(channel)
    BY DEF TypeOK, Lag
  <2> QED  BY <2>1, Dequeue
<1> USE DomainsOK, ApprovalAssumption DEF Domains, Command, Lag
<1>1. OnePlace'
  BY <1>b DEF PromptInv, OnePlace, Announcing, Unanswered, VerdictInv, KnownRequests,
       FromTheUser, Asked
<1>2. OpenInFlight'
  BY <1>b, OpenKept DEF PromptInv, Open, Unanswered, Announcing, CapabilityRequester
<1> QED  BY <1>1, <1>2 DEF PromptInv

\* The channel is emptied.
LEMMA LeavePrompt ==
    ASSUME TypeOK, TypeOK', VerdictInv, PromptInv, Leave
    PROVE  PromptInv'
<1>b. Range(channel') = {} /\ IsInjective(channel')
  BY DEF Leave, Range, IsInjective
<1> USE DomainsOK, ApprovalAssumption DEF Domains, Command, Leave
<1>1. OnePlace'
  BY <1>b DEF PromptInv, OnePlace, Announcing, Unanswered, VerdictInv, KnownRequests,
       FromTheUser, Asked
<1>2. OpenInFlight'
  BY <1>b, OpenKept DEF PromptInv, Open, Unanswered, Announcing, CapabilityRequester
<1> QED  BY <1>1, <1>2 DEF PromptInv

\* A command is done.
LEMMA RespondSinglePrompt ==
    ASSUME NEW c \in Command, TypeOK, TypeOK', VerdictInv, PromptInv, RespondSingle(c)
    PROVE  PromptInv'
<1> USE DomainsOK, ApprovalAssumption DEF Domains, Command, RespondSingle
<1>1. OnePlace'
  BY DEF PromptInv, OnePlace, Announcing, Unanswered, VerdictInv, KnownRequests,
       FromTheUser, Asked
<1>2. OpenInFlight'
  BY OpenKept DEF PromptInv, Open, Unanswered, Announcing, CapabilityRequester
<1> QED  BY <1>1, <1>2 DEF PromptInv

\* A request moves from the commands to the task.
LEMMA TakeCapabilitiesPrompt ==
    ASSUME NEW c \in Command, TypeOK, TypeOK', VerdictInv, PromptInv, TakeCapabilities(c)
    PROVE  PromptInv'
<1> USE DomainsOK, ApprovalAssumption DEF Domains, Command, TakeCapabilities
<1>1. OnePlace'
  BY DEF PromptInv, OnePlace, Announcing, Unanswered, VerdictInv, KnownRequests,
       FromTheUser, Asked
<1>2. OpenInFlight'
  BY OpenKept DEF PromptInv, Open, Unanswered, Announcing, CapabilityRequester
<1> QED  BY <1>1, <1>2 DEF PromptInv

\* The key of the request is forgotten, and no other open request has it.
LEMMA CloseCapabilitiesPrompt ==
    ASSUME TypeOK, TypeOK', VerdictInv, PromptInv, CloseCapabilities
    PROVE  PromptInv'
<1> USE DomainsOK, ApprovalAssumption DEF Domains, Command, CloseCapabilities
<1>1. OnePlace'
  BY DEF PromptInv, OnePlace, Announcing, Unanswered, VerdictInv, KnownRequests,
       FromTheUser, Asked
<1>2. OpenInFlight'
  <2>1. /\ inFlight' = [inFlight EXCEPT ![want[held.request]] = NoRequest]
        /\ want' = want
        /\ held.request \in CapabilityRequester
    OBVIOUS
  <2>2. held.request \in Open
    BY <2>1 DEF Open
  <2>3. held.request \in accepted \cup rejected
    BY DEF VerdictInv, FromTheUser
  <2>4. Open' \subseteq Open \ {held.request}
    BY <2>3 DEF Open, Unanswered, Announcing, CapabilityRequester, PromptInv, OnePlace
  <2> HIDE DEF CloseCapabilities, Domains
  <2> SUFFICES ASSUME NEW x \in Open' PROVE want[x] # {} /\ inFlight'[want[x]] = x
    BY <2>1 DEF OpenInFlight
  <2>5. want[x] # {} /\ inFlight[want[x]] = x /\ x # held.request
    BY <2>4 DEF PromptInv, OpenInFlight
  <2>6. inFlight[want[held.request]] = held.request
    BY <2>2 DEF PromptInv, OpenInFlight
  <2>7. want[x] # want[held.request]
    BY <2>5, <2>6
  <2> QED  BY <2>1, <2>5, <2>7
<1> QED  BY <1>1, <1>2 DEF PromptInv

\* The task has closed the request already.
LEMMA TellListenersPrompt ==
    ASSUME TypeOK, TypeOK', VerdictInv, PromptInv, TellListeners
    PROVE  PromptInv'
<1>1. Announcing' \subseteq Announcing
  BY DomainsOK DEF Domains, Announcing, TellListeners
<1> QED  BY <1>1, PromptKept DEF TellListeners

\* The commands and the request held are dropped.
LEMMA CommandTaskPanicsPrompt ==
    ASSUME TypeOK, TypeOK', VerdictInv, PromptInv, CommandTaskPanics
    PROVE  PromptInv'
<1> USE DomainsOK, ApprovalAssumption DEF Domains, Command, CommandTaskPanics, Nothing
<1>1. OnePlace'
  BY DEF PromptInv, OnePlace, Announcing, Unanswered, VerdictInv, KnownRequests,
       FromTheUser, Asked
<1>2. OpenInFlight'
  BY OpenKept DEF PromptInv, Open, Unanswered, Announcing, CapabilityRequester
<1> QED  BY <1>1, <1>2 DEF PromptInv

\* Every step keeps PromptInv.
LEMMA PromptStep ==
    ASSUME TypeOK, TypeOK', VerdictInv, PromptInv, [Next]_vars
    PROVE  PromptInv'
<1>1. CASE UNCHANGED vars
  BY <1>1, PromptKept DEF vars, Announcing
<1>2. ASSUME NEW r \in Requester, Ask(r) \/ Announce(r) \/ Answered(r) PROVE PromptInv'
  BY <1>2, AskAllowedPrompt, AskNewPrompt, AskJoinPrompt, AskPanicsPrompt,
       AskSinglePrompt, AnnouncePrompt, AnsweredPrompt DEF Ask
<1>3. CASE Subscribe \/ Receive \/ Answer \/ Lag \/ Leave
  BY <1>3, SubscribePrompt, ReceivePrompt, AnswerPromptPrompt, LagPrompt, LeavePrompt
       DEF Answer
<1>4. CASE CommandTask
  BY <1>4, RespondSinglePrompt, TakeCapabilitiesPrompt, CloseCapabilitiesPrompt,
       TellListenersPrompt, CommandTaskPanicsPrompt DEF CommandTask
<1> QED  BY <1>1, <1>2, <1>3, <1>4 DEF Next

\* The user is never asked about the same modules by two prompts at a time.
THEOREM OnePromptCorrect == Spec => []OnePromptPerModules
<1>1. Init => VerdictInv /\ PromptInv
  BY ApprovalAssumption DEF Init, VerdictInv, KnownRequests, JoinedRequests, Registered,
     FromTheUser, VerdictIsTheUsers, ApprovedByUser, Asked, Nothing, Range, PromptInv,
     OnePlace, OpenInFlight, Open, Unanswered, Announcing, IsInjective
<1>2. TypeOK /\ TypeOK' /\ VerdictInv /\ PromptInv /\ [Next]_vars => VerdictInv' /\ PromptInv'
  BY VerdictStep, PromptStep
<1>3. TypeOK /\ PromptInv => OnePromptPerModules
  <2> SUFFICES ASSUME TypeOK, PromptInv,
                      NEW a \in Range(channel) \cup Range(prompts),
                      NEW b \in Range(channel) \cup Range(prompts),
                      Asks[a] = "capabilities", Asks[b] = "capabilities", want[a] = want[b]
               PROVE  a = b
    BY DEF OnePromptPerModules
  <2>1. a \in Requester /\ b \in Requester
    BY RangeOfSeq DEF TypeOK
  <2>2. a \in Open /\ b \in Open
    BY <2>1 DEF Open, Unanswered, CapabilityRequester
  <2> QED  BY <2>2 DEF PromptInv, OpenInFlight
<1> QED  BY <1>1, <1>2, <1>3, ApprovalTypeCorrect, PTL DEF Spec

=============================================================================
