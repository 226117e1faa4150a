--------------------------- MODULE ServicesProofs ---------------------------
(***************************************************************************)
(* Proofs about the assistant, for any flow, threads and probes, and about *)
(* the composition of the services: in MCServices each of them keeps to    *)
(* its own specification, so that what is proved of the parts holds of it. *)
(***************************************************************************)
EXTENDS MCServices, UserDataProofs, ScheduledJobsProofs

-----------------------------------------------------------------------------
(* AssistantWorkflow.                                                      *)

\* Steps are numbered from 1.
LEMMA StepNumbers == Steps \subseteq Nat /\ NoStep \notin Steps
<1>1. ASSUME NEW T, NEW f \in Seq(T) PROVE DOMAIN f \subseteq Nat \ {0}
  OBVIOUS
<1>2. QED
  BY <1>1, FlowAssumption DEF Steps, NoStep

\* First is the least of some steps.
LEMMA FirstStep ==
    ASSUME NEW S \in SUBSET Steps
    PROVE  IF S = {} THEN First(S) = NoStep
                     ELSE First(S) \in S /\ \A i \in S : First(S) <= i
<1>1. CASE S = {}
  BY <1>1 DEF First
<1>2. CASE S # {}
  <2>1. \E m \in S : \A n \in S : m <= n
    BY <1>2, LeastNumber, StepNumbers
  <2>2. QED
    BY <1>2, <2>1 DEF First
<1>3. QED
  BY <1>1, <1>2

SessionType == [status : SessionStatus, active : Steps \cup {NoStep}, steps : [Steps -> StepType]]

\* The steps of a session that stand at a card nobody has answered.
Unanswered(s) == {i \in Steps : Flow[i] \in Offerable /\ s.steps[i].status \notin Terminal}

\* Only a confirmation waits.
OnlyConfirmed(steps) == \A i \in InState(steps, "waiting") : Flow[i] \in Confirmable

\* The session agrees with its steps; in an active one no step has failed, and
\* in any other one at most one.
Fits(s) ==
    /\ s.status = "active" =>
          /\ s.active \in Steps
          /\ s.steps[s.active].status \notin Terminal
          /\ InState(s.steps, "failed") = {}
    /\ s.status = "failed" => s.active = NoStep /\ InState(s.steps, "failed") # {}
    /\ s.status = "cancelled" =>
          InState(s.steps, "planned") = {} /\ InState(s.steps, "waiting") = {}
    /\ s.status = "completed" =>
          /\ InState(s.steps, "failed") = {}
          /\ \/ InState(s.steps, "planned") = {} /\ InState(s.steps, "waiting") = {}
             \/ ReportMade(s)
    /\ \A i, j \in InState(s.steps, "failed") : i = j
    /\ OnlyConfirmed(s.steps)

\* The card is the one of the first confirmation nobody has answered.
CardFits ==
    card # "" => session.status = "active" /\ Unanswered(session) # {}
                 /\ card = Flow[First(Unanswered(session))]

WorkflowInv == WorkflowTypeOK /\ Fits(session) /\ CardFits

LEMMA NextActiveStep ==
    ASSUME NEW steps \in [Steps -> StepType]
    PROVE  /\ NextActive(steps) \in Steps \cup {NoStep}
           /\ NextActive(steps) # NoStep => steps[NextActive(steps)].status \in {"waiting", "planned"}
           /\ NextActive(steps) = NoStep =>
                 InState(steps, "waiting") = {} /\ InState(steps, "planned") = {}
<1>1. InState(steps, "waiting") \in SUBSET Steps /\ InState(steps, "planned") \in SUBSET Steps
  BY DEF InState
<1>2. QED
  BY <1>1, FirstStep, StepNumbers DEF NextActive, InState

\* A session whose failures have been answered is refreshed to one that fits.
LEMMA RefreshedFits ==
    ASSUME NEW s \in SessionType, InState(s.steps, "failed") = {}, OnlyConfirmed(s.steps)
    PROVE  /\ Refreshed(s) \in SessionType
           /\ Fits(Refreshed(s))
<1>1. /\ Refreshed(s).steps = s.steps
      /\ Refreshed(s).active = NextActive(s.steps)
      /\ Refreshed(s).status = IF NextActive(s.steps) # NoStep THEN "active" ELSE "completed"
      /\ Refreshed(s) \in SessionType
  BY NextActiveStep DEF Refreshed, SessionType, SessionStatus
<1>2. QED
  BY <1>1, NextActiveStep, StepNumbers DEF Fits, SessionType, Terminal

LEMMA StartedFits ==
    ASSUME NEW blocked
    PROVE  Started(blocked) \in SessionType /\ Fits(Started(blocked))
<1> DEFINE steps == [i \in Steps |->
            [status |-> IF Flow[i] \in blocked THEN "blocked"
                        ELSE IF Flow[i] \in Confirmable THEN "waiting" ELSE "planned",
             result |-> ""]]
<1>1. steps \in [Steps -> StepType]
  BY DEF StepType, StepStatus
<1>2. InState(steps, "failed") = {} /\ OnlyConfirmed(steps)
  BY DEF InState, OnlyConfirmed
<1>3. Started(blocked) = [status |-> IF NextActive(steps) # NoStep THEN "active" ELSE "completed",
                          active |-> NextActive(steps), steps |-> steps]
  BY DEF Started
<1> HIDE DEF steps
<1>4. QED
  BY <1>1, <1>2, <1>3, NextActiveStep DEF Fits, SessionType, SessionStatus, Terminal

\* Changing one step, or the status of one.
WithStep(s, i, st) == [s EXCEPT !.steps[i] = st]

LEMMA StepChanged ==
    ASSUME NEW s \in SessionType, NEW i \in Steps, NEW st \in StepType
    PROVE  /\ WithStep(s, i, st) \in SessionType
           /\ WithStep(s, i, st).status = s.status
           /\ \A j \in Steps : WithStep(s, i, st).steps[j] = IF j = i THEN st ELSE s.steps[j]
BY DEF SessionType, WithStep

LEMMA StatusChanged ==
    ASSUME NEW st \in StepType, NEW status \in StepStatus
    PROVE  /\ [st EXCEPT !.status = status] \in StepType
           /\ [st EXCEPT !.status = status].status = status
BY DEF StepType

\* apply_action_result of the step that the open card is about.
LEMMA AppliedFits ==
    ASSUME NEW s \in SessionType, Fits(s), s.status = "active",
           Unanswered(s) # {}, NEW i \in Unanswered(s), Flow[i] = Flow[First(Unanswered(s))],
           NEW result \in ResultStatus, NEW followup \in BOOLEAN
    PROVE  LET t == Applied(s, i, result, followup)
           IN  t \in SessionType /\ Fits(t)
<1> DEFINE st == [status |-> StatusOf(result), result |-> result]
           u  == [s EXCEPT !.steps[i] = st]
           t  == Applied(s, i, result, followup)
<1>0. i \in Steps /\ Flow[i] \in Offerable /\ s.steps[i].status \notin Terminal
  BY DEF Unanswered
<1>1. /\ StatusOf(result) \in {"done", "failed", "cancelled", "skipped"}
      /\ st \in StepType /\ st.status = StatusOf(result)
  BY DEF StatusOf, ResultStatus, StepType, StepStatus
<1> HIDE DEF st
<1>2. /\ u \in SessionType /\ u.status = "active"
      /\ \A j \in Steps : u.steps[j] = IF j = i THEN st ELSE s.steps[j]
  <2>1. u = WithStep(s, i, st)
    BY DEF WithStep
  <2> HIDE DEF u
  <2>2. QED
    BY <1>0, <1>1, <2>1, StepChanged
<1>3. OnlyConfirmed(u.steps)
  BY <1>1, <1>2 DEF Fits, OnlyConfirmed, InState
<1>4. InState(u.steps, "failed") = IF StatusOf(result) = "failed" THEN {i} ELSE {}
  BY <1>0, <1>1, <1>2 DEF Fits, InState
<1>5. s.steps[i].status # "done"
  BY <1>0 DEF Terminal
<1>6. t = IF Flow[i] = Research /\ StatusOf(result) = "done" THEN Followed(u, Report, followup)
          ELSE IF Flow[i] = Report /\ StatusOf(result) = "done"
               THEN [u EXCEPT !.status = "completed", !.active = NoStep]
          ELSE IF StatusOf(result) = "failed" THEN [u EXCEPT !.status = "failed", !.active = NoStep]
          ELSE Refreshed(u)
  BY <1>5 DEF Applied, st
<1> HIDE DEF u, t
<1>7. CASE StatusOf(result) = "failed"
  <2>1. t = [u EXCEPT !.status = "failed", !.active = NoStep]
    BY <1>6, <1>7
  <2>2. t \in SessionType /\ t.steps = u.steps /\ t.status = "failed" /\ t.active = NoStep
    BY <1>2, <2>1 DEF SessionType, SessionStatus
  <2>3. QED
    BY <1>3, <1>4, <1>7, <2>2 DEF Fits, t
<1>8. CASE StatusOf(result) # "failed" /\ t = Refreshed(u)
  BY <1>2, <1>3, <1>4, <1>8, RefreshedFits DEF t
<1>9. CASE Flow[i] = Report /\ StatusOf(result) = "done"
  <2>1. t = [u EXCEPT !.status = "completed", !.active = NoStep]
    BY <1>6, <1>9 DEF Report, Research
  <2>2. t \in SessionType /\ t.steps = u.steps /\ t.status = "completed" /\ t.active = NoStep
    BY <1>2, <2>1 DEF SessionType, SessionStatus
  <2>3. ReportMade(t)
    BY <1>0, <1>1, <1>2, <1>9, <2>2 DEF ReportMade
  <2>4. QED
    BY <1>3, <1>4, <1>9, <2>2, <2>3 DEF Fits, t
<1>10. CASE Flow[i] = Research /\ StatusOf(result) = "done" /\ t # Refreshed(u)
  <2> DEFINE open == {k \in Steps : Flow[k] = Report /\ u.steps[k].status \notin Terminal}
  <2>1. open # {} /\ t = [u EXCEPT !.steps[First(open)].status = "waiting", !.status = "active",
                                   !.active = First(open)]
    BY <1>6, <1>10 DEF Followed
  <2>2. First(open) \in open
    BY <2>1, FirstStep
  <2> HIDE DEF open
  <2>3. PICK k \in Steps : k = First(open) /\ Flow[k] = Report /\ u.steps[k].status \notin Terminal
    BY <2>2 DEF open
  <2>4. /\ t \in SessionType /\ t.status = "active" /\ t.active = k
        /\ \A j \in Steps : t.steps[j].status = IF j = k THEN "waiting" ELSE u.steps[j].status
    <3>1. t = [u EXCEPT !.steps[k].status = "waiting", !.status = "active", !.active = k]
      BY <2>1, <2>3
    <3>2. PICK st2 : st2 = [u.steps[k] EXCEPT !.status = "waiting"]
      OBVIOUS
    <3>3. u.steps[k] \in StepType
      BY <1>2 DEF SessionType
    <3>4. st2 \in StepType /\ st2.status = "waiting"
      BY <3>2, <3>3, StatusChanged DEF StepStatus
    <3>5. PICK v : v = WithStep(u, k, st2)
      OBVIOUS
    <3>6. /\ v \in SessionType
          /\ \A j \in Steps : v.steps[j] = IF j = k THEN st2 ELSE u.steps[j]
      BY <1>2, <3>4, <3>5, StepChanged
    <3>7. t = [v EXCEPT !.status = "active", !.active = k]
      BY <1>2, <3>1, <3>2, <3>5 DEF WithStep, SessionType
    <3>8. t \in SessionType /\ t.status = "active" /\ t.active = k /\ t.steps = v.steps
      BY <3>6, <3>7 DEF SessionType, SessionStatus
    <3>9. QED
      BY <3>4, <3>6, <3>8
  <2>5. InState(t.steps, "failed") = {}
    BY <1>4, <1>10, <2>4 DEF InState
  <2>6. OnlyConfirmed(t.steps)
    BY <1>3, <2>3, <2>4, FlowAssumption DEF InState, OnlyConfirmed
  <2>7. QED
    BY <2>4, <2>5, <2>6 DEF Fits, Terminal, t
<1>11. QED
  BY <1>6, <1>7, <1>8, <1>9, <1>10 DEF t, Research, Report

\* skip_step, of a step that is open in an active session or failed in a failed one.
LEMMA SkippedFits ==
    ASSUME NEW s \in SessionType, Fits(s), NEW i \in Steps,
           \/ s.status = "active" /\ i = s.active
           \/ s.status = "failed" /\ i \in InState(s.steps, "failed")
    PROVE  Skipped(s, i) \in SessionType /\ Fits(Skipped(s, i))
<1> DEFINE st == [s.steps[i] EXCEPT !.status = "skipped"]
           u  == [s EXCEPT !.steps[i].status = "skipped"]
<1>1. s.steps[i].status \notin {"done", "skipped", "cancelled", "blocked"}
  BY DEF Fits, InState, Terminal
<1>2. Skipped(s, i) = Refreshed(u)
  BY <1>1 DEF Skipped
<1>3. st \in StepType /\ st.status = "skipped"
  <2>1. s.steps[i] \in StepType
    BY DEF SessionType
  <2>2. QED
    BY <2>1, StatusChanged DEF StepStatus
<1>4. u = WithStep(s, i, st)
  BY DEF WithStep
<1> HIDE DEF u, st
<1>5. u \in SessionType /\ \A j \in Steps : u.steps[j] = IF j = i THEN st ELSE s.steps[j]
  BY <1>3, <1>4, StepChanged
<1>6. InState(u.steps, "failed") = {} /\ OnlyConfirmed(u.steps)
  BY <1>3, <1>5 DEF Fits, InState, OnlyConfirmed
<1>7. QED
  BY <1>2, <1>5, <1>6, RefreshedFits

\* retry_step of the failed step of a failed session.
LEMMA RetriedFits ==
    ASSUME NEW s \in SessionType, Fits(s), s.status = "failed", NEW i \in InState(s.steps, "failed")
    PROVE  Retried(s, i) \in SessionType /\ Fits(Retried(s, i))
<1> DEFINE st == [status |-> IF Flow[i] \in Confirmable THEN "waiting" ELSE "planned", result |-> ""]
           u  == [s EXCEPT !.steps[i] = st]
           t  == Retried(s, i)
<1>1. i \in Steps /\ s.steps[i].status = "failed"
  BY DEF InState
<1>2. t = [s EXCEPT !.steps[i] = st, !.status = "active", !.active = i]
  BY <1>1 DEF Retried
<1>3. st \in StepType /\ st.status = IF Flow[i] \in Confirmable THEN "waiting" ELSE "planned"
  BY DEF StepType, StepStatus
<1> HIDE DEF st, t
<1>4. /\ t \in SessionType /\ t.status = "active" /\ t.active = i
      /\ \A j \in Steps : t.steps[j] = IF j = i THEN st ELSE s.steps[j]
  BY <1>1, <1>2, <1>3 DEF SessionType, SessionStatus
<1>5. InState(t.steps, "failed") = {} /\ OnlyConfirmed(t.steps)
  BY <1>1, <1>3, <1>4 DEF Fits, InState, OnlyConfirmed
<1>6. QED
  BY <1>1, <1>3, <1>4, <1>5 DEF Fits, Terminal, t

\* cancel_session
LEMMA CancelledFits ==
    ASSUME NEW s \in SessionType, Fits(s)
    PROVE  Cancelled(s) \in SessionType /\ Fits(Cancelled(s))
<1> DEFINE steps == [i \in Steps |-> IF s.steps[i].status \in Terminal THEN s.steps[i]
                                     ELSE [s.steps[i] EXCEPT !.status = "cancelled"]]
           t == Cancelled(s)
<1>1. t = [s EXCEPT !.status = "cancelled", !.active = NoStep, !.steps = steps]
  BY DEF Cancelled
<1>2. steps \in [Steps -> StepType] /\
      \A i \in Steps : steps[i].status = IF s.steps[i].status \in Terminal THEN s.steps[i].status
                                         ELSE "cancelled"
  BY DEF SessionType, StepType, StepStatus
<1> HIDE DEF steps, t
<1>3. t \in SessionType /\ t.status = "cancelled" /\ t.active = NoStep /\ t.steps = steps
  BY <1>1, <1>2 DEF SessionType, SessionStatus
<1>4. QED
  BY <1>2, <1>3 DEF Fits, InState, OnlyConfirmed, Terminal, t

-----------------------------------------------------------------------------
LEMMA WorkflowInitInv == WorkflowInit => WorkflowInv
BY StartedFits, FlowAssumption DEF WorkflowInit, WorkflowInv, WorkflowTypeOK, SessionType, CardFits

LEMMA WorkflowStepInv ==
    ASSUME WorkflowInv, [WorkflowNext]_workflowVars
    PROVE  WorkflowInv'
<1>0. session \in SessionType /\ Fits(session) /\ answered \subseteq Offerable
  BY DEF WorkflowInv, WorkflowTypeOK, SessionType
<1>1. ASSUME card' = "", answered' \subseteq Offerable,
             session' \in SessionType, Fits(session')
      PROVE  WorkflowInv'
  BY <1>1 DEF WorkflowInv, WorkflowTypeOK, SessionType, CardFits, Fits,
              InState, OnlyConfirmed
<1>2. CASE OpenCard
  <2>1. Unanswered(session) \in SUBSET Steps
    BY DEF Unanswered
  <2>2. /\ session.status = "active" /\ Unanswered(session) # {}
        /\ card' = Flow[First(Unanswered(session))] /\ card' \in Offerable
    BY <1>2, <2>1, FirstStep, FlowAssumption DEF OpenCard, Offered, Unanswered
  <2>3. QED
    BY <1>0, <1>2, <2>2 DEF OpenCard, WorkflowInv, WorkflowTypeOK, SessionType, CardFits, Fits,
         Unanswered, InState, OnlyConfirmed
<1>3. ASSUME NEW result \in ResultStatus, NEW followup \in BOOLEAN, AnswerCard(result, followup)
      PROVE  WorkflowInv'
  <2> DEFINE named == {k \in Steps : Flow[k] = card}
             open  == {k \in named : session.steps[k].status \notin Terminal}
             i     == StepFor(session, card)
  <2>1. Unanswered(session) \in SUBSET Steps /\ named \in SUBSET Steps /\ open \in SUBSET Steps
    BY DEF Unanswered
  <2>2. /\ session.status = "active" /\ Unanswered(session) # {}
        /\ card = Flow[First(Unanswered(session))] /\ card \in Offerable
    BY <1>3 DEF AnswerCard, WorkflowInv, WorkflowTypeOK, CardFits
  <2>3. First(Unanswered(session)) \in open
    BY <2>1, <2>2, FirstStep DEF Unanswered
  <2>4. i = IF session.active \in named THEN session.active ELSE First(open)
    BY <2>3 DEF StepFor
  <2>5. session.active \in Steps /\ session.steps[session.active].status \notin Terminal
    BY <1>0, <2>2 DEF Fits
  <2>6. First(open) \in open
    BY <2>1, <2>3, FirstStep
  <2>7. i \in Unanswered(session) /\ Flow[i] = card
    BY <2>2, <2>4, <2>5, <2>6 DEF Unanswered
  <2> HIDE DEF i, named, open
  <2>8. LET t == Applied(session, i, result, followup)
        IN  t \in SessionType /\ Fits(t)
    BY <1>0, <2>2, <2>7, AppliedFits
  <2>9. session' = Applied(session, i, result, followup) /\ card' = "" /\ answered' \subseteq Offerable
    BY <1>0, <1>3, <2>2 DEF AnswerCard, i
  <2>10. QED
    BY <1>1, <2>8, <2>9
<1>4. CASE SkipStep
  <2>1. InState(session.steps, "failed") \in SUBSET Steps
    BY DEF InState
  <2>2. PICK i \in Steps :
          /\ session' = Skipped(session, i)
          /\ \/ session.status = "active" /\ i = session.active
             \/ session.status = "failed" /\ i \in InState(session.steps, "failed")
    BY <1>0, <1>4, <2>1, FirstStep DEF SkipStep, Fits
  <2>3. QED
    BY <1>0, <1>1, <1>4, <2>2, SkippedFits DEF SkipStep
<1>5. CASE RetryStep
  <2>1. InState(session.steps, "failed") \in SUBSET Steps
    BY DEF InState
  <2>2. First(InState(session.steps, "failed")) \in InState(session.steps, "failed")
    BY <1>5, <2>1, FirstStep DEF RetryStep
  <2>3. QED
    BY <1>0, <1>1, <1>5, <2>2, RetriedFits DEF RetryStep
<1>6. CASE CancelSession
  BY <1>0, <1>1, <1>6, CancelledFits DEF CancelSession
<1>7. CASE UNCHANGED workflowVars
  BY <1>7 DEF workflowVars, WorkflowInv, WorkflowTypeOK, CardFits, Fits, Unanswered,
       InState, OnlyConfirmed
<1>8. QED
  BY <1>2, <1>3, <1>4, <1>5, <1>6, <1>7 DEF WorkflowNext

\* Whatever flow is started, an active session stands at an open step, and the
\* states of a failed and of a cancelled one are those of their steps.
LEMMA WorkflowInvariant == WorkflowSpec => []WorkflowInv
BY WorkflowInitInv, WorkflowStepInv, PTL DEF WorkflowSpec

\* The types of the workflow session, its answers and its card, for any flow.
THEOREM WorkflowTypeCorrect == WorkflowSpec => []WorkflowTypeOK
BY WorkflowInvariant, PTL DEF WorkflowInv

\* The session agrees with its steps whatever order results, skips, retries and
\* cancellations come in, for every flow.
THEOREM WorkflowSessionMatches == WorkflowSpec => []SessionMatchesSteps
<1>1. WorkflowInv => SessionMatchesSteps
  BY StepNumbers DEF WorkflowInv, Fits, SessionMatchesSteps
<1>2. QED
  BY <1>1, WorkflowInvariant, PTL

-----------------------------------------------------------------------------
(* AssistantWarmup.                                                        *)

\* Only the thread that was started last may be at work, and it is if the
\* manager says so; a thread that will probe again has probes left.
WarmupInv ==
    /\ WarmupTypeOK
    /\ \A t \in Thread : Working(t) => t = last
    /\ \A t \in Thread : probe[t].pc = "again" => probe[t].tries < MaxAttempts
    /\ warm \in Underway => last \in Thread /\ Working(last)
    /\ warm \in Settled  => \A t \in Thread : ~Working(t)

USE MaxAttemptsAssumption, ThreadAssumption

LEMMA WarmupInitInv == WarmupInit => WarmupInv
<1> SUFFICES ASSUME WarmupInit PROVE WarmupInv
  OBVIOUS
<1>1. \A t \in Thread : probe[t].pc = "off"
  BY DEF WarmupInit
<1>2. WarmupTypeOK
  <2>1. [pc |-> "off", tries |-> 0] \in
           [pc : {"off", "probing", "again", "found", "ready", "recovered",
                  "fallback", "ending"}, tries : 0 .. MaxAttempts]
    OBVIOUS
  <2>2. QED
    BY <2>1 DEF WarmupInit, WarmupTypeOK
<1>3. QED
  BY <1>1, <1>2 DEF WarmupInit, WarmupInv, WarmupTypeOK, Working, Settled, Underway, NoThread

\* A thread goes on to a state in which it is still at work.
LEMMA ProbeToInv ==
    ASSUME WarmupInv, NEW t \in Thread, Working(t),
           NEW pc \in {"probing", "again", "found", "ready", "recovered", "fallback"},
           pc = "again" => probe[t].tries < MaxAttempts,
           ProbeTo(t, pc), UNCHANGED <<warm, last>>, recovering' \in BOOLEAN
    PROVE  WarmupInv'
BY DEF WarmupInv, WarmupTypeOK, Working, ProbeTo, Settled, Underway

LEMMA WarmupStepInv == WarmupInv /\ [WarmupNext]_warmupVars => WarmupInv'
<1> SUFFICES ASSUME WarmupInv, [WarmupNext]_warmupVars PROVE WarmupInv'
  OBVIOUS
<1>1. ASSUME Launch, UNCHANGED recovering PROVE WarmupInv'
  <2>1. \A t \in Thread : ~Working(t)
    BY <1>1 DEF WarmupInv, WarmupTypeOK, Launch, Working, Alive, NoThread
  <2>2. PICK t \in Thread : /\ probe' = [probe EXCEPT ![t] = [pc |-> "probing", tries |-> 1]]
                            /\ last' = t /\ warm' = "warming"
    BY <1>1 DEF Launch
  <2>3. QED
    BY <1>1, <2>1, <2>2 DEF WarmupInv, WarmupTypeOK, Working, Settled, Underway
<1>2. CASE StartWarmup
  <2>1. CASE warm' = "disabled" /\ UNCHANGED <<recovering, last, probe>>
    BY <2>1 DEF WarmupInv, WarmupTypeOK, Working, Settled, Underway
  <2>2. QED
    BY <1>1, <1>2, <2>1 DEF StartWarmup
<1>3. CASE RetryWarmup
  BY <1>3 DEF RetryWarmup, WarmupInv, WarmupTypeOK, Working, Settled, Underway
<1>4. ASSUME NEW t \in Thread, Probed(t) PROVE WarmupInv'
  <2>1. PICK pc \in {"found", "again", "fallback"} :
           ProbeTo(t, pc) /\ (pc = "again" => probe[t].tries < MaxAttempts)
    BY <1>4 DEF Probed
  <2>2. Working(t) /\ recovering' \in BOOLEAN /\ UNCHANGED <<warm, last>>
    BY <1>4 DEF Probed, Working, WarmupInv, WarmupTypeOK
  <2>3. QED
    BY <2>1, <2>2, ProbeToInv
<1>5. ASSUME NEW t \in Thread, Again(t) PROVE WarmupInv'
  <2>1. /\ probe[t] \in [pc : {"off", "probing", "again", "found", "ready", "recovered",
                               "fallback", "ending"}, tries : 0 .. MaxAttempts]
        /\ probe[t].tries + 1 \in 0 .. MaxAttempts
        /\ Working(t) /\ t = last
    BY <1>5 DEF Again, Working, WarmupInv, WarmupTypeOK
  <2>2. probe' = [probe EXCEPT ![t] = [pc |-> "probing", tries |-> probe[t].tries + 1]]
    BY <1>5 DEF Again
  <2>3. WarmupTypeOK'
    BY <1>5, <2>1, <2>2 DEF Again, WarmupInv, WarmupTypeOK, Settled, Underway
  <2>4. QED
    BY <1>5, <2>1, <2>2, <2>3 DEF Again, WarmupInv, WarmupTypeOK, Working, Settled, Underway
<1>6. ASSUME NEW t \in Thread, Recovers(t) PROVE WarmupInv'
  <2>1. Working(t) /\ recovering' \in BOOLEAN /\ UNCHANGED <<warm, last>>
    BY <1>6 DEF Recovers, Working
  <2>2. PICK pc \in {"recovered", "ready"} : ProbeTo(t, pc)
    BY <1>6 DEF Recovers
  <2>3. QED
    BY <2>1, <2>2, ProbeToInv
<1>7. ASSUME NEW t \in Thread, Complete(t) PROVE WarmupInv'
  BY <1>7 DEF Complete, ProbeTo, WarmupInv, WarmupTypeOK, Working, Settled, Underway
<1>8. ASSUME NEW t \in Thread, End(t) PROVE WarmupInv'
  BY <1>8 DEF End, WarmupInv, WarmupTypeOK, Working, Settled, Underway
<1>9. CASE UNCHANGED warmupVars
  BY <1>9 DEF warmupVars, WarmupInv, WarmupTypeOK, Working
<1>10. QED
  BY <1>2, <1>3, <1>4, <1>5, <1>6, <1>7, <1>8, <1>9 DEF WarmupNext

-----------------------------------------------------------------------------
\* What AssistantWarmupManager tells the pages about the probe is what happens,
\* however starts, retries and settings interleave with its threads.
THEOREM WarmupStateIsTrue == WarmupSpec => []StateIsTrue
<1>1. WarmupInv => StateIsTrue
  BY DEF WarmupInv, StateIsTrue
<1>2. QED
  BY WarmupInitInv, WarmupStepInv, <1>1, PTL DEF WarmupSpec

-----------------------------------------------------------------------------
(* The services together.                                                  *)

\* The state of AssistantWarmupManager and of its threads keeps its types: no
\* thread probes more than MaxAttempts times.
THEOREM WarmupTypeCorrect == WarmupSpec => []WarmupTypeOK
<1>1. WarmupInv => WarmupTypeOK
  BY DEF WarmupInv
<1>2. QED
  BY WarmupInitInv, WarmupStepInv, <1>1, PTL DEF WarmupSpec

\* A step of the composition is a step of the service that runs, and the others
\* rest.
LEMMA ServiceSteps ==
    [Next]_servicesVars =>
        /\ [NotifyNext]_notifyVars /\ [HistoryNext]_historyVars
        /\ [FavoritesNext]_favoritesVars /\ [GroupsNext]_groupsVars
        /\ [JobNext]_jobVars /\ [WorkflowNext]_workflowVars /\ [WarmupNext]_warmupVars
        /\ [NewsNext]_newsVars /\ [PortfolioNext]_portfolioVars
<1> SUFFICES ASSUME [Next]_servicesVars
             PROVE  /\ [NotifyNext]_notifyVars /\ [HistoryNext]_historyVars
                    /\ [FavoritesNext]_favoritesVars /\ [GroupsNext]_groupsVars
                    /\ [JobNext]_jobVars /\ [WorkflowNext]_workflowVars
                    /\ [WarmupNext]_warmupVars
                    /\ [NewsNext]_newsVars /\ [PortfolioNext]_portfolioVars
  OBVIOUS
<1>1. CASE Next
  BY <1>1 DEF Next, OthersRest, Rest
<1>2. CASE UNCHANGED servicesVars
  BY <1>2 DEF servicesVars
<1>3. QED
  BY <1>1, <1>2

\* The services share no state, so that side by side each of them keeps to its
\* own specification.
LEMMA ServicesImplemented ==
    Spec => /\ NotifySpec /\ HistorySpec /\ FavoritesSpec /\ GroupsSpec /\ JobSpec
            /\ WorkflowSpec /\ WarmupSpec /\ NewsSpec /\ PortfolioSpec
<1>1. Init => /\ NotifyInit /\ HistoryInit /\ FavoritesInit /\ GroupsInit /\ JobInit
              /\ WorkflowInit /\ WarmupInit /\ NewsInit /\ PortfolioInit
  BY DEF Init
<1>2. QED
  BY <1>1, ServiceSteps, PTL
     DEF Spec, NotifySpec, HistorySpec, FavoritesSpec, GroupsSpec, JobSpec, WorkflowSpec,
         WarmupSpec, NewsSpec, PortfolioSpec

\* Each service of the application keeps its state within its types, the bounds
\* of its counters and files included.
THEOREM ServicesTypeCorrect ==
    ASSUME IsFiniteSet(Poller) PROVE Spec => []ServicesTypeOK
<1>1. /\ NotifyTypeOK /\ HistoryTypeOK /\ FavoritesTypeOK /\ GroupsTypeOK /\ JobTypeOK
      /\ WorkflowTypeOK /\ WarmupTypeOK /\ NewsTypeOK /\ PortfolioTypeOK /\ focus \in Service
      => ServicesTypeOK
  BY DEF ServicesTypeOK, Service
<1>2. Spec => [](focus \in Service)
  <2>1. Init => focus \in Service
    BY DEF Init
  <2>2. focus \in Service /\ [Next]_servicesVars => (focus \in Service)'
    BY DEF Next, OthersRest, servicesVars
  <2>3. QED
    BY <2>1, <2>2, PTL DEF Spec
<1>3. QED
  BY <1>1, <1>2, ServicesImplemented, NotifyTypeCorrect, HistoryTypeCorrect,
     FavoritesTypeCorrect, GroupsTypeCorrect, ImportsOneAtATime, WorkflowTypeCorrect,
     WarmupTypeCorrect, NewsTypeCorrect, PortfolioTypeCorrect, PTL
=============================================================================
