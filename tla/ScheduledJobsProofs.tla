------------------------ MODULE ScheduledJobsProofs ------------------------
(***************************************************************************)
(* Proofs about the jobs that run by themselves: the notifications, the    *)
(* news refresh and the periodic import, for any processes, users, jobs,   *)
(* retries and periods.                                                    *)
(***************************************************************************)
EXTENDS NotificationSchedule, NewsRefresh, MaintenanceJob, FiniteSetTheorems,
        TLAPS

-----------------------------------------------------------------------------
(* NotificationSchedule.                                                   *)

Outcome == {"created", "skipped", "failed"}
AtWork  == {"produce", "save", "send", "record", "finish"}

PollerType == [pc : {"idle", "dead", "poll"} \cup AtWork, time : {-1} \cup 0..MaxClock,
               todo : SUBSET (Job \X User), event : Event \cup {NoEvent},
               status : {"none"} \cup Outcome]

NotifyTypes ==
    /\ clock \in 0..MaxClock
    /\ runLog \in [DOMAIN runLog -> {"running"} \cup Outcome]
    /\ DOMAIN runLog \subseteq Event
    /\ notified \subseteq DOMAIN runLog
    /\ deliveries \subseteq DOMAIN phone
    /\ poller \in [Poller -> PollerType]
    /\ phone \in [Job \X User \X Minutes -> Nat]
    /\ \A p \in Poller : poller[p].pc \in {"poll"} \cup AtWork => poller[p].time \in 0..MaxClock

\* What a poller at work knows of its report.
Knows(p) ==
    LET e == poller[p].event
    IN  /\ e \in DOMAIN runLog /\ runLog[e] = "running"
        /\ e \in DOMAIN phone /\ e[3] = Slot(poller[p].time)
        /\ poller[p].pc \in {"produce", "save"} => e \notin notified
        /\ poller[p].pc \in {"produce", "save", "send"} => phone[e] = 0
        /\ poller[p].pc \in {"send", "record"} => e \in notified
        /\ poller[p].pc = "record" => phone[e] > 0
        /\ poller[p].pc = "finish" =>
              CASE poller[p].status = "created" -> e \in notified
                [] poller[p].status = "failed"  -> e \notin notified
                [] OTHER                        -> poller[p].status = "skipped"

\* The jobs that are due and that a poller does not have before it any more
\* have a slot.
Visited(p) ==
    poller[p].pc \in {"poll"} \cup AtWork =>
        \A j \in Job, u \in User :
            setting[u].enabled /\ Local(poller[p].time) \in DueAt[j] =>
                \/ <<j, u>> \in poller[p].todo
                \/ <<j, u, Slot(poller[p].time)>> \in DOMAIN runLog

Ready(p) == IF poller[p].pc \in AtWork THEN Knows(p) ELSE poller[p].event = NoEvent

\* The first part of RunLogTrue.
ServedLogged ==
    \A m \in served, j \in Job, u \in User :
        setting[u].enabled /\ (m + UtcOffset) % Day \in DueAt[j] =>
            <<j, u, m>> \in DOMAIN runLog

NotifyInv ==
    /\ NotifyTypes
    /\ \A p \in Poller : Ready(p)
    /\ \A p, q \in Poller :
          poller[p].pc \in AtWork /\ poller[q].pc \in AtWork /\ p # q =>
              poller[p].event # poller[q].event
    /\ \A e \in DOMAIN phone : phone[e] <= 1 /\ (e \notin DOMAIN runLog => phone[e] = 0)
    /\ \A p \in Poller : Visited(p)
    /\ RunLogTrue

-----------------------------------------------------------------------------
LEMMA Events ==
    /\ NoEvent \notin Event
    /\ \A e \in Event : e = <<e[1], e[2], e[3]>> /\ e[1] \in Job /\ e[2] \in User
    /\ \A t \in 0..MaxClock : Slot(t) \in Nat /\ Slot(t) \in Minutes
BY MaxClockAssumption DEF NoEvent, Event, Slot, Minutes, Minute

LEMMA NotifyInitInv == NotifyInit => NotifyInv
<1> SUFFICES ASSUME NotifyInit PROVE NotifyInv
  OBVIOUS
<1>1. \A p \in Poller : poller[p] = Idle(-1)
  BY DEF NotifyInit
<1>2. Idle(-1) \in PollerType /\ Idle(-1).pc = "idle" /\ Idle(-1).event = NoEvent
  BY DEF Idle, PollerType
<1>3. DOMAIN runLog = {} /\ runLog \in [DOMAIN runLog -> {"running"} \cup Outcome]
  BY DEF NotifyInit
<1>4. NotifyTypes
  BY <1>1, <1>2, <1>3, MaxClockAssumption DEF NotifyInit, NotifyTypes, AtWork
<1>5. QED
  BY <1>1, <1>2, <1>3, <1>4 DEF NotifyInit, NotifyInv, Ready, AtWork, Visited, RunLogTrue

-----------------------------------------------------------------------------
\* A poller does not disturb another one that works on another report.
LEMMA Others ==
    ASSUME NotifyInv, NEW q \in Poller, poller'[q] = poller[q], setting' = setting,
           DOMAIN runLog \subseteq DOMAIN runLog',
           DOMAIN phone' = DOMAIN phone,
           poller[q].pc \in AtWork =>
               /\ runLog'[poller[q].event] = runLog[poller[q].event]
               /\ poller[q].event \in notified' <=> poller[q].event \in notified
               /\ phone'[poller[q].event] = phone[poller[q].event]
    PROVE  Ready(q)' /\ Visited(q)'
BY DEF NotifyInv, Ready, Knows, Visited

\* A step of a poller that keeps its report and changes no file.
LEMMA QuietStep ==
    ASSUME NotifyInv, NEW p \in Poller, NEW x \in PollerType,
           poller' = [poller EXCEPT ![p] = x],
           poller[p].pc \in AtWork, x.pc \in AtWork,
           x.event = poller[p].event, x.time = poller[p].time, x.todo = poller[p].todo,
           Ready(p)', UNCHANGED <<clock, setting, notifyFiles, notifyHistory>>
    PROVE  NotifyInv'
<1> USE DEF notifyFiles, notifyHistory
<1>1. poller'[p] = x /\ \A q \in Poller \ {p} : poller'[q] = poller[q]
  BY DEF NotifyInv, NotifyTypes
<1>2. NotifyTypes'
  BY <1>1 DEF NotifyInv, NotifyTypes
<1>3. \A q \in Poller \ {p} : Ready(q)' /\ Visited(q)'
  BY <1>1, Others
<1>4. Visited(p)'
  BY <1>1 DEF NotifyInv, Visited
<1>5. RunLogTrue'
  BY <1>1 DEF NotifyInv, RunLogTrue
<1>6. QED
  BY <1>1, <1>2, <1>3, <1>4, <1>5 DEF NotifyInv

\* A poller that has no report before and after its step.
LEMMA FreeStep ==
    ASSUME NotifyInv, NEW p \in Poller, NEW x \in PollerType,
           poller' = [poller EXCEPT ![p] = x],
           x.pc \notin AtWork, x.event = NoEvent,
           x.pc = "poll" => x.time \in 0..MaxClock, Visited(p)',
           poller[p].pc \notin AtWork \/ poller[p].event \in abandoned',
           UNCHANGED <<clock, setting, notifyFiles, phone>>,
           abandoned \subseteq abandoned', ServedLogged'
    PROVE  NotifyInv'
<1> USE DEF notifyFiles
<1>1. poller'[p] = x /\ \A q \in Poller \ {p} : poller'[q] = poller[q]
  BY DEF NotifyInv, NotifyTypes
<1>2. NotifyTypes'
  BY <1>1 DEF NotifyInv, NotifyTypes
<1>3. \A q \in Poller \ {p} : Ready(q)' /\ Visited(q)'
  BY <1>1, Others
<1>4. Ready(p)'
  BY <1>1 DEF Ready
<1>5. ASSUME NEW e \in DOMAIN runLog, runLog[e] = "running"
      PROVE  e \in abandoned' \/ \E q \in Poller : poller'[q].event = e
  <2>1. e # NoEvent
    BY Events DEF NotifyInv, NotifyTypes
  <2>2. e \in abandoned \/ \E q \in Poller : poller[q].event = e
    BY <1>5 DEF NotifyInv, RunLogTrue
  <2>3. QED
    BY <1>1, <2>1, <2>2 DEF NotifyInv, Ready
<1>6. RunLogTrue'
  BY <1>5 DEF NotifyInv, RunLogTrue, ServedLogged
<1>7. QED
  BY <1>1, <1>2, <1>3, <1>4, <1>6 DEF NotifyInv

LEMMA PollInv ==
    ASSUME NotifyInv, NEW p \in Poller, Poll(p) PROVE NotifyInv'
<1> DEFINE due == {w \in Job \X User : setting[w[2]].enabled /\ Local(clock) \in DueAt[w[1]]}
           x == [Idle(clock) EXCEPT !.pc = "poll", !.todo = due]
<1>1. x \in PollerType /\ clock \in 0..MaxClock
  <2>1. due \in SUBSET (Job \X User) /\ clock \in {-1} \cup 0..MaxClock
    BY DEF NotifyInv, NotifyTypes
  <2> HIDE DEF due
  <2>2. Idle(clock) \in PollerType
    BY <2>1 DEF Idle, PollerType
  <2>3. QED
    BY <2>1, <2>2 DEF PollerType, NotifyInv, NotifyTypes
<1>2. x.pc = "poll" /\ x.time = clock /\ x.todo = due /\ x.event = NoEvent
  <2> HIDE DEF due
  <2>1. QED
    BY DEF Idle
<1>3. /\ poller' = [poller EXCEPT ![p] = x] /\ poller[p].pc = "idle"
      /\ UNCHANGED <<clock, setting, notifyFiles, notifyHistory>>
  BY DEF Poll
<1>4. poller'[p] = x
  BY <1>3 DEF NotifyInv, NotifyTypes
<1>5. Visited(p)'
  <2>1. \A j \in Job, u \in User :
           setting[u].enabled /\ Local(clock) \in DueAt[j] => <<j, u>> \in due
    OBVIOUS
  <2>2. poller'[p].todo = due /\ poller'[p].time = clock /\ setting' = setting
    BY <1>2, <1>3, <1>4
  <2> HIDE DEF due
  <2>3. QED
    BY <2>1, <2>2 DEF Visited
<1>6. ServedLogged'
  BY <1>3 DEF RunLogTrue, ServedLogged, notifyFiles, notifyHistory, NotifyInv
<1> HIDE DEF x
<1>7. QED
  BY <1>1, <1>2, <1>3, <1>5, <1>6, FreeStep DEF AtWork, notifyHistory

\* A slot that is taken, or the new slot of the poller.
LEMMA ClaimInv ==
    ASSUME NotifyInv, NEW p \in Poller, Claim(p) PROVE NotifyInv'
<1> USE DEF notifyFiles, notifyHistory
<1>1. PICK w \in poller[p].todo :
        LET e    == <<w[1], w[2], Slot(poller[p].time)>>
            mine == e \notin DOMAIN runLog
        IN  /\ runLog' = IF mine THEN [f \in DOMAIN runLog \cup {e} |->
                                         IF f = e THEN "running" ELSE runLog[f]]
                         ELSE runLog
            /\ poller' = [poller EXCEPT ![p].todo = @ \ {w},
                            ![p].event = IF mine THEN e ELSE NoEvent,
                            ![p].pc = IF mine THEN "produce" ELSE "poll"]
  BY DEF Claim
<1> DEFINE e == <<w[1], w[2], Slot(poller[p].time)>>
           x(event, pc) == [poller[p] EXCEPT !.todo = @ \ {w}, !.event = event, !.pc = pc]
<1>2. /\ poller[p].pc = "poll" /\ poller[p] \in PollerType /\ poller[p].time \in 0..MaxClock
      /\ UNCHANGED <<clock, setting, notified, deliveries, notifyHistory>>
  BY DEF Claim, NotifyInv, NotifyTypes
<1>3. w \in Job \X User /\ w = <<w[1], w[2]>> /\ e \in Event
  <2>1. w \in Job \X User
    BY <1>2 DEF PollerType
  <2>2. Slot(poller[p].time) \in Nat
    BY <1>2, Events
  <2>3. QED
    BY <2>1, <2>2 DEF Event
<1>4. CASE e \in DOMAIN runLog
  <2>1. runLog' = runLog /\ poller' = [poller EXCEPT ![p] = x(NoEvent, "poll")]
    BY <1>1, <1>4
  <2>2. /\ x(NoEvent, "poll") \in PollerType
        /\ x(NoEvent, "poll").event = NoEvent /\ x(NoEvent, "poll").pc = "poll"
        /\ x(NoEvent, "poll").time = poller[p].time
        /\ x(NoEvent, "poll").todo = poller[p].todo \ {w}
    BY <1>2 DEF PollerType
  <2>3. poller'[p] = x(NoEvent, "poll")
    BY <2>1 DEF NotifyInv, NotifyTypes
  <2>4. Visited(p)'
    BY <1>2, <1>3, <1>4, <2>1, <2>2, <2>3 DEF Visited, NotifyInv
  <2>5. ServedLogged'
    BY <1>2, <2>1 DEF ServedLogged, NotifyInv, RunLogTrue
  <2> HIDE DEF x
  <2>6. QED
    BY <1>2, <2>1, <2>2, <2>4, <2>5, FreeStep DEF AtWork
<1>5. CASE e \notin DOMAIN runLog
  <2>1. /\ poller' = [poller EXCEPT ![p] = x(e, "produce")]
        /\ runLog' = [f \in DOMAIN runLog \cup {e} |-> IF f = e THEN "running" ELSE runLog[f]]
    BY <1>1, <1>5
  <2>2. /\ x(e, "produce") \in PollerType
        /\ x(e, "produce").event = e /\ x(e, "produce").pc = "produce"
        /\ x(e, "produce").time = poller[p].time
        /\ x(e, "produce").todo = poller[p].todo \ {w}
    BY <1>2, <1>3 DEF PollerType, AtWork
  <2> HIDE DEF x
  <2>3. poller'[p] = x(e, "produce") /\ \A q \in Poller \ {p} : poller'[q] = poller[q]
    BY <2>1 DEF NotifyInv, NotifyTypes
  <2>4. /\ DOMAIN runLog' = DOMAIN runLog \cup {e} /\ runLog'[e] = "running"
        /\ \A f \in DOMAIN runLog : runLog'[f] = runLog[f]
    BY <1>5, <2>1
  <2>5. e \notin notified /\ e[3] = Slot(poller[p].time) /\ e \in DOMAIN phone /\ phone[e] = 0
    <3>1. e \in Job \X User \X Minutes
      BY <1>2, <1>3, Events
    <3>2. QED
      BY <1>5, <3>1 DEF NotifyInv, NotifyTypes
  <2> HIDE DEF e
  <2>6. NotifyTypes'
    <3>1. runLog' \in [DOMAIN runLog' -> {"running"} \cup Outcome]
      BY <2>1, <2>4 DEF NotifyInv, NotifyTypes
    <3>2. QED
      BY <1>2, <1>3, <2>1, <2>2, <2>3, <2>4, <3>1 DEF NotifyInv, NotifyTypes
  <2>7. \A q \in Poller \ {p} : Ready(q)' /\ Visited(q)'
    <3>1. ASSUME NEW q \in Poller, poller[q].pc \in AtWork
          PROVE  runLog'[poller[q].event] = runLog[poller[q].event]
      BY <2>4, <3>1 DEF NotifyInv, Ready, Knows
    <3>2. QED
      BY <1>2, <2>3, <2>4, <3>1, Others
  <2>8. Ready(p)'
    BY <1>2, <2>2, <2>3, <2>4, <2>5 DEF Ready, Knows, AtWork
  <2>9. Visited(p)'
    BY <1>2, <1>3, <2>2, <2>3, <2>4 DEF Visited, NotifyInv, e
  <2>10. \A q \in Poller \ {p} : poller[q].pc \in AtWork => poller[q].event # e
    BY <1>5 DEF NotifyInv, Ready, Knows
  <2>11. RunLogTrue'
    <3>1. ServedLogged'
      BY <1>2, <2>4 DEF ServedLogged, NotifyInv, RunLogTrue
    <3>2. ASSUME NEW f \in DOMAIN runLog', runLog'[f] = "running"
          PROVE  f \in abandoned' \/ \E q \in Poller : poller'[q].event = f
      <4>1. CASE f = e
        BY <2>2, <2>3, <4>1
      <4>2. CASE f # e
        <5>1. f # NoEvent /\ f \in DOMAIN runLog /\ runLog[f] = "running"
          BY <2>4, <3>2, <4>2, Events DEF NotifyInv, NotifyTypes
        <5>2. poller[p].event = NoEvent
          BY <1>2 DEF NotifyInv, Ready, AtWork
        <5>3. QED
          BY <1>2, <2>3, <5>1, <5>2 DEF NotifyInv, RunLogTrue
      <4>3. QED
        BY <4>1, <4>2
    <3>3. QED
      BY <1>2, <2>4, <3>1, <3>2 DEF NotifyInv, RunLogTrue, ServedLogged
  <2>12. QED
    BY <1>2, <2>2, <2>3, <2>4, <2>6, <2>7, <2>8, <2>9, <2>10, <2>11 DEF NotifyInv, NotifyTypes
<1>6. QED
  BY <1>4, <1>5

\* The poller goes on with its report ...
LEMMA StepsOn ==
    ASSUME NotifyInv, NEW p \in Poller, NEW pc \in AtWork, Step(p, pc)
    PROVE  \E x \in PollerType :
              /\ poller' = [poller EXCEPT ![p] = x] /\ poller'[p] = x
              /\ \A q \in Poller \ {p} : poller'[q] = poller[q]
              /\ x.pc = pc /\ x.status = poller[p].status
              /\ x.event = poller[p].event /\ x.time = poller[p].time /\ x.todo = poller[p].todo
<1> DEFINE x == [poller[p] EXCEPT !.pc = pc]
<1>1. poller[p] \in PollerType
  BY DEF NotifyInv, NotifyTypes
<1>2. /\ x \in PollerType /\ x.pc = pc /\ x.status = poller[p].status
      /\ x.event = poller[p].event /\ x.time = poller[p].time /\ x.todo = poller[p].todo
  BY <1>1 DEF PollerType
<1>3. poller' = [poller EXCEPT ![p] = x]
  BY DEF Step
<1> HIDE DEF x
<1>4. poller'[p] = x /\ \A q \in Poller \ {p} : poller'[q] = poller[q]
  BY <1>3 DEF NotifyInv, NotifyTypes
<1>5. QED
  BY <1>2, <1>3, <1>4

\* ... or has an outcome for it.
LEMMA Answers ==
    ASSUME NotifyInv, NEW p \in Poller, NEW status \in Outcome, Answer(p, status)
    PROVE  \E x \in PollerType :
              /\ poller' = [poller EXCEPT ![p] = x] /\ poller'[p] = x
              /\ \A q \in Poller \ {p} : poller'[q] = poller[q]
              /\ x.pc = "finish" /\ x.status = status
              /\ x.event = poller[p].event /\ x.time = poller[p].time /\ x.todo = poller[p].todo
<1> DEFINE x == [poller[p] EXCEPT !.pc = "finish", !.status = status]
<1>1. poller[p] \in PollerType
  BY DEF NotifyInv, NotifyTypes
<1>2. /\ x \in PollerType /\ x.pc = "finish" /\ x.status = status
      /\ x.event = poller[p].event /\ x.time = poller[p].time /\ x.todo = poller[p].todo
  BY <1>1 DEF PollerType, AtWork
<1>3. poller' = [poller EXCEPT ![p] = x]
  BY DEF Answer
<1> HIDE DEF x
<1>4. poller'[p] = x /\ \A q \in Poller \ {p} : poller'[q] = poller[q]
  BY <1>3 DEF NotifyInv, NotifyTypes
<1>5. QED
  BY <1>2, <1>3, <1>4

LEMMA ProduceInv ==
    ASSUME NotifyInv, NEW p \in Poller, Produce(p) PROVE NotifyInv'
<1>1. /\ poller[p].pc = "produce" /\ poller[p].pc \in AtWork /\ Knows(p)
      /\ UNCHANGED <<clock, setting, notifyFiles, notifyHistory>>
  BY DEF Produce, NotifyInv, Ready, AtWork
<1>2. CASE Step(p, "save")
  <2>1. PICK x \in PollerType :
           /\ poller' = [poller EXCEPT ![p] = x] /\ poller'[p] = x /\ x.pc = "save"
           /\ x.event = poller[p].event /\ x.time = poller[p].time /\ x.todo = poller[p].todo
    BY <1>2, StepsOn DEF AtWork
  <2>2. Ready(p)'
    BY <1>1, <2>1 DEF Ready, Knows, AtWork, notifyFiles, notifyHistory
  <2>3. QED
    BY <1>1, <2>1, <2>2, QuietStep DEF AtWork
<1>3. ASSUME NEW status \in {"failed", "skipped"}, Answer(p, status) PROVE NotifyInv'
  <2>1. PICK x \in PollerType :
           /\ poller' = [poller EXCEPT ![p] = x] /\ poller'[p] = x
           /\ x.pc = "finish" /\ x.status = status
           /\ x.event = poller[p].event /\ x.time = poller[p].time /\ x.todo = poller[p].todo
    BY <1>3, Answers DEF Outcome
  <2>2. Ready(p)'
    BY <1>1, <2>1 DEF Ready, Knows, AtWork, notifyFiles, notifyHistory
  <2>3. QED
    BY <1>1, <2>1, <2>2, QuietStep DEF AtWork
<1>4. QED
  BY <1>2, <1>3 DEF Produce

\* A step of a poller that keeps its report, and may save it, send it or
\* record its delivery.
LEMMA ReportStep ==
    ASSUME NotifyInv, NEW p \in Poller, NEW x \in PollerType,
           poller' = [poller EXCEPT ![p] = x],
           poller[p].pc \in AtWork, x.pc \in AtWork,
           x.event = poller[p].event, x.time = poller[p].time, x.todo = poller[p].todo,
           Ready(p)', UNCHANGED <<clock, setting, runLog, abandoned, served>>,
           notified \subseteq notified', notified' \subseteq notified \cup {poller[p].event},
           notified' # notified => poller[p].pc = "save",
           deliveries \subseteq deliveries',
           deliveries' \subseteq deliveries \cup {poller[p].event},
           deliveries' # deliveries => poller[p].pc = "record",
           phone' = phone \/ (poller[p].pc = "send" /\ 
                              phone' = [phone EXCEPT ![poller[p].event] = @ + 1])
    PROVE  NotifyInv'
<1> DEFINE e == poller[p].event
<1>1. poller'[p] = x /\ \A q \in Poller \ {p} : poller'[q] = poller[q]
  BY DEF NotifyInv, NotifyTypes
<1>2. Knows(p) /\ e \in DOMAIN runLog
  BY DEF NotifyInv, Ready, Knows
<1>3. /\ phone' \in [Job \X User \X Minutes -> Nat]
      /\ \A f \in DOMAIN phone : f # e => phone'[f] = phone[f]
      /\ e \in DOMAIN phone => phone'[e] <= 1 /\ phone'[e] >= phone[e]
  BY <1>2 DEF NotifyInv, NotifyTypes, Knows
<1>4. NotifyTypes'
  BY <1>1, <1>2, <1>3 DEF NotifyInv, NotifyTypes, Knows
<1>5. ASSUME NEW q \in Poller \ {p} PROVE Ready(q)' /\ Visited(q)'
  <2>1. poller[q].pc \in AtWork => poller[q].event # e
    BY DEF NotifyInv
  <2>2. poller[q].pc \in AtWork =>
           /\ poller[q].event \in notified' <=> poller[q].event \in notified
           /\ poller[q].event \in DOMAIN phone
           /\ phone'[poller[q].event] = phone[poller[q].event]
    BY <2>1, <1>2, <1>3 DEF NotifyInv, Ready, Knows, NotifyTypes
  <2>3. QED
    BY <1>1, <2>2, Others
<1>6. Visited(p)'
  BY <1>1 DEF NotifyInv, Visited
<1>7. RunLogTrue'
  <2>1. runLog[e] = "running"
    BY <1>2 DEF Knows
  <2>2. ServedLogged'
    BY DEF ServedLogged, NotifyInv, RunLogTrue
  <2>3. ASSUME NEW f \in DOMAIN runLog
        PROVE  /\ runLog[f] = "created" => f \in notified'
               /\ runLog[f] = "failed" => f \notin notified'
               /\ runLog[f] = "running" => \/ f \in abandoned
                                          \/ \E q \in Poller : poller'[q].event = f
    BY <1>1, <2>1 DEF NotifyInv, RunLogTrue
  <2>4. ASSUME NEW f \in deliveries' PROVE phone'[f] > 0
    <3>1. CASE f \in deliveries
      BY <1>3, <3>1 DEF NotifyInv, RunLogTrue, NotifyTypes
    <3>2. CASE f \notin deliveries
      BY <1>2, <3>2 DEF Knows
    <3>3. QED
      BY <3>1, <3>2
  <2>5. QED
    BY <2>2, <2>3, <2>4 DEF RunLogTrue, ServedLogged
<1>8. QED
  BY <1>1, <1>2, <1>3, <1>4, <1>5, <1>6, <1>7 DEF NotifyInv, NotifyTypes

LEMMA SaveEventInv ==
    ASSUME NotifyInv, NEW p \in Poller, SaveEvent(p) PROVE NotifyInv'
<1>1. /\ poller[p].pc = "save" /\ poller[p].pc \in AtWork /\ Knows(p)
      /\ UNCHANGED <<clock, setting, runLog, deliveries, notifyHistory>>
  BY DEF SaveEvent, NotifyInv, Ready, AtWork
<1>2. ASSUME Answer(p, "failed"), notified' = notified PROVE NotifyInv'
  <2>1. PICK x \in PollerType :
           /\ poller' = [poller EXCEPT ![p] = x] /\ poller'[p] = x
           /\ x.pc = "finish" /\ x.status = "failed"
           /\ x.event = poller[p].event /\ x.time = poller[p].time /\ x.todo = poller[p].todo
    BY <1>2, Answers DEF Outcome
  <2>2. Ready(p)'
    BY <1>1, <1>2, <2>1 DEF Ready, Knows, AtWork, notifyHistory
  <2>3. QED
    BY <1>1, <1>2, <2>1, <2>2, QuietStep DEF AtWork, notifyFiles
<1>3. ASSUME Step(p, "send"), notified' = notified \cup {poller[p].event} PROVE NotifyInv'
  <2>1. PICK x \in PollerType :
           /\ poller' = [poller EXCEPT ![p] = x] /\ poller'[p] = x /\ x.pc = "send"
           /\ x.event = poller[p].event /\ x.time = poller[p].time /\ x.todo = poller[p].todo
    BY <1>3, StepsOn DEF AtWork
  <2>2. Ready(p)'
    BY <1>1, <1>3, <2>1 DEF Ready, Knows, AtWork, notifyHistory
  <2>3. QED
    BY <1>1, <1>3, <2>1, <2>2, ReportStep DEF AtWork, notifyHistory
<1>4. ASSUME Answer(p, "created"), notified' = notified \cup {poller[p].event} PROVE NotifyInv'
  <2>1. PICK x \in PollerType :
           /\ poller' = [poller EXCEPT ![p] = x] /\ poller'[p] = x
           /\ x.pc = "finish" /\ x.status = "created"
           /\ x.event = poller[p].event /\ x.time = poller[p].time /\ x.todo = poller[p].todo
    BY <1>4, Answers DEF Outcome
  <2>2. Ready(p)'
    BY <1>1, <1>4, <2>1 DEF Ready, Knows, AtWork, notifyHistory
  <2>3. QED
    BY <1>1, <1>4, <2>1, <2>2, ReportStep DEF AtWork, notifyHistory
<1>5. QED
  BY <1>2, <1>3, <1>4 DEF SaveEvent

LEMMA SendInv ==
    ASSUME NotifyInv, NEW p \in Poller, Send(p) PROVE NotifyInv'
<1> DEFINE e == poller[p].event
<1>1. /\ poller[p].pc = "send" /\ poller[p].pc \in AtWork /\ Knows(p)
      /\ UNCHANGED <<clock, setting, notifyFiles, abandoned, served>>
  BY DEF Send, NotifyInv, Ready, AtWork
<1>2. <<e[1], e[2], Minute(poller[p].time)>> = e
  BY <1>1, Events DEF Knows, Slot, NotifyInv, NotifyTypes
<1>3. phone' = phone \/ phone' = [phone EXCEPT ![e] = @ + 1]
  BY <1>2 DEF Send
<1>4. CASE Answer(p, "created")
  <2>1. PICK x \in PollerType :
           /\ poller' = [poller EXCEPT ![p] = x] /\ poller'[p] = x
           /\ x.pc = "finish" /\ x.status = "created"
           /\ x.event = poller[p].event /\ x.time = poller[p].time /\ x.todo = poller[p].todo
    BY <1>4, Answers DEF Outcome
  <2>2. Ready(p)'
    BY <1>1, <1>3, <2>1 DEF Ready, Knows, AtWork, notifyFiles
  <2>3. QED
    BY <1>1, <1>3, <2>1, <2>2, ReportStep DEF AtWork, notifyFiles
<1>5. CASE Step(p, "record") /\ phone' = [phone EXCEPT ![e] = @ + 1]
  <2>1. PICK x \in PollerType :
           /\ poller' = [poller EXCEPT ![p] = x] /\ poller'[p] = x /\ x.pc = "record"
           /\ x.event = poller[p].event /\ x.time = poller[p].time /\ x.todo = poller[p].todo
    BY <1>5, StepsOn DEF AtWork
  <2>2. phone'[e] > 0 /\ DOMAIN phone' = DOMAIN phone
    BY <1>1, <1>5 DEF Knows, NotifyInv, NotifyTypes
  <2>3. Ready(p)'
    BY <1>1, <2>1, <2>2 DEF Ready, Knows, AtWork, notifyFiles
  <2>4. QED
    BY <1>1, <1>3, <2>1, <2>3, ReportStep DEF AtWork, notifyFiles
<1>6. QED
  BY <1>2, <1>4, <1>5 DEF Send

LEMMA RecordDeliveryInv ==
    ASSUME NotifyInv, NEW p \in Poller, RecordDelivery(p) PROVE NotifyInv'
<1>1. /\ poller[p].pc = "record" /\ poller[p].pc \in AtWork /\ Knows(p)
      /\ deliveries' \in {deliveries, deliveries \cup {poller[p].event}}
      /\ UNCHANGED <<clock, setting, runLog, notified, notifyHistory>>
  BY DEF RecordDelivery, NotifyInv, Ready, AtWork
<1>2. PICK x \in PollerType :
         /\ poller' = [poller EXCEPT ![p] = x] /\ poller'[p] = x
         /\ x.pc = "finish" /\ x.status = "created"
         /\ x.event = poller[p].event /\ x.time = poller[p].time /\ x.todo = poller[p].todo
  BY Answers DEF RecordDelivery, Outcome
<1>3. Ready(p)'
  BY <1>1, <1>2 DEF Ready, Knows, AtWork, notifyHistory
<1>4. QED
  BY <1>1, <1>2, <1>3, ReportStep DEF AtWork, notifyHistory

LEMMA FinishSlotInv ==
    ASSUME NotifyInv, NEW p \in Poller, Finish(p) PROVE NotifyInv'
<1> DEFINE e == poller[p].event
           x == [poller[p] EXCEPT !.pc = "poll", !.event = NoEvent, !.status = "none"]
<1>1. /\ poller[p].pc = "finish" /\ poller[p].pc \in AtWork /\ Knows(p)
      /\ poller[p] \in PollerType
      /\ poller' = [poller EXCEPT ![p] = x]
      /\ runLog' = [runLog EXCEPT ![e] = poller[p].status]
      /\ UNCHANGED <<clock, setting, notified, deliveries, notifyHistory>>
  BY DEF Finish, NotifyInv, NotifyTypes, Ready, AtWork
<1>2. /\ x \in PollerType /\ x.pc = "poll" /\ x.event = NoEvent
      /\ x.time = poller[p].time /\ x.todo = poller[p].todo
  BY <1>1 DEF PollerType
<1> HIDE DEF x
<1>3. poller'[p] = x /\ \A q \in Poller \ {p} : poller'[q] = poller[q]
  BY <1>1 DEF NotifyInv, NotifyTypes
<1>4. /\ DOMAIN runLog' = DOMAIN runLog /\ runLog'[e] = poller[p].status
      /\ \A f \in DOMAIN runLog \ {e} : runLog'[f] = runLog[f]
      /\ poller[p].status \in Outcome
  BY <1>1 DEF NotifyInv, NotifyTypes, Knows, Outcome
<1>5. NotifyTypes'
  <2>1. runLog' \in [DOMAIN runLog' -> {"running"} \cup Outcome]
    BY <1>1, <1>4 DEF NotifyInv, NotifyTypes
  <2>2. QED
    BY <1>1, <1>2, <1>3, <1>4, <2>1 DEF NotifyInv, NotifyTypes, notifyHistory, AtWork
<1>6. ASSUME NEW q \in Poller \ {p} PROVE Ready(q)' /\ Visited(q)'
  <2>1. poller[q].pc \in AtWork => runLog'[poller[q].event] = runLog[poller[q].event]
    BY <1>1, <1>4 DEF NotifyInv, Ready, Knows
  <2>2. QED
    BY <1>1, <1>3, <1>4, <2>1, Others DEF notifyHistory
<1>7. Ready(p)' /\ Visited(p)'
  BY <1>1, <1>2, <1>3, <1>4 DEF NotifyInv, Ready, Visited, AtWork
<1>8. RunLogTrue'
  <2>1. ServedLogged'
    BY <1>1, <1>4 DEF ServedLogged, NotifyInv, RunLogTrue, notifyHistory
  <2>2. ASSUME NEW f \in DOMAIN runLog, f # e
        PROVE  runLog'[f] = runLog[f]
               /\ (runLog[f] = "running" => \/ f \in abandoned
                                           \/ \E q \in Poller : poller'[q].event = f)
    BY <1>3, <1>4, <2>2 DEF NotifyInv, RunLogTrue
  <2>3. /\ runLog'[e] = "created" => e \in notified
        /\ runLog'[e] = "failed" => e \notin notified
        /\ runLog'[e] # "running"
    BY <1>1, <1>4 DEF Knows, Outcome
  <2>4. QED
    BY <1>1, <1>4, <2>1, <2>2, <2>3 DEF RunLogTrue, ServedLogged, NotifyInv, notifyHistory
<1>9. QED
  BY <1>1, <1>2, <1>3, <1>4, <1>5, <1>6, <1>7, <1>8 DEF NotifyInv, notifyHistory, AtWork

LEMMA EndPollInv ==
    ASSUME NotifyInv, NEW p \in Poller, EndPoll(p) PROVE NotifyInv'
<1> DEFINE x == Idle(poller[p].time)
<1>1. /\ poller[p].pc = "poll" /\ poller[p].todo = {} /\ poller[p] \in PollerType
      /\ poller' = [poller EXCEPT ![p] = x]
      /\ served' = served \cup {Minute(poller[p].time)}
      /\ UNCHANGED <<clock, setting, notifyFiles, phone, abandoned>>
  BY DEF EndPoll, NotifyInv, NotifyTypes
<1>2. x \in PollerType /\ x.pc = "idle" /\ x.event = NoEvent
  BY <1>1 DEF Idle, PollerType
<1> HIDE DEF x
<1>3. poller'[p] = x
  BY <1>1 DEF NotifyInv, NotifyTypes
<1>4. Visited(p)'
  BY <1>2, <1>3 DEF Visited, AtWork
<1>5. ServedLogged'
  <2>1. \A j \in Job, u \in User :
           setting[u].enabled /\ (Minute(poller[p].time) + UtcOffset) % Day \in DueAt[j] =>
               <<j, u, Minute(poller[p].time)>> \in DOMAIN runLog
    BY <1>1 DEF NotifyInv, Visited, Local, Slot
  <2>2. QED
    BY <1>1, <2>1 DEF ServedLogged, NotifyInv, RunLogTrue, notifyFiles
<1>6. QED
  BY <1>1, <1>2, <1>4, <1>5, FreeStep DEF AtWork

LEMMA PollerDiesInv ==
    ASSUME NotifyInv, NEW p \in Poller, PollerDies(p) PROVE NotifyInv'
<1> DEFINE x == [Idle(poller[p].time) EXCEPT !.pc = "dead"]
<1>1. /\ poller[p] \in PollerType
      /\ poller' = [poller EXCEPT ![p] = x]
      /\ abandoned' = abandoned \cup ({poller[p].event} \ {NoEvent})
      /\ UNCHANGED <<clock, setting, notifyFiles, phone, served>>
  BY DEF PollerDies, NotifyInv, NotifyTypes
<1>2. x \in PollerType /\ x.pc = "dead" /\ x.event = NoEvent
  <2>1. Idle(poller[p].time) \in PollerType /\ Idle(poller[p].time).event = NoEvent
    BY <1>1 DEF Idle, PollerType
  <2>2. QED
    BY <2>1 DEF PollerType
<1> HIDE DEF x
<1>3. poller'[p] = x
  BY <1>1 DEF NotifyInv, NotifyTypes
<1>4. Visited(p)'
  BY <1>2, <1>3 DEF Visited, AtWork
<1>5. ServedLogged'
  BY <1>1 DEF ServedLogged, NotifyInv, RunLogTrue, notifyFiles
<1>6. poller[p].pc \in AtWork => poller[p].event \in abandoned'
  BY <1>1, Events DEF NotifyInv, NotifyTypes, Ready, Knows
<1>7. QED
  BY <1>1, <1>2, <1>4, <1>5, <1>6, FreeStep DEF AtWork

LEMMA RestartsInv ==
    ASSUME NotifyInv, NEW p \in Poller, PollerRestarts(p) PROVE NotifyInv'
<1> DEFINE x == [poller[p] EXCEPT !.pc = "idle"]
<1>1. /\ poller[p] \in PollerType /\ poller[p].pc = "dead" /\ poller[p].event = NoEvent
      /\ poller' = [poller EXCEPT ![p] = x]
      /\ UNCHANGED <<clock, setting, notifyFiles, notifyHistory>>
  BY DEF PollerRestarts, Step, NotifyInv, NotifyTypes, Ready, AtWork
<1>2. x \in PollerType /\ x.pc = "idle" /\ x.event = NoEvent
  BY <1>1 DEF PollerType
<1> HIDE DEF x
<1>3. poller'[p] = x
  BY <1>1 DEF NotifyInv, NotifyTypes
<1>4. Visited(p)'
  BY <1>2, <1>3 DEF Visited, AtWork
<1>5. ServedLogged'
  BY <1>1 DEF ServedLogged, NotifyInv, RunLogTrue, notifyFiles, notifyHistory
<1>6. QED
  BY <1>1, <1>2, <1>4, <1>5, FreeStep DEF AtWork, notifyHistory

LEMMA NotifyStepInv == NotifyInv /\ [NotifyNext]_notifyVars => NotifyInv'
<1> SUFFICES ASSUME NotifyInv, [NotifyNext]_notifyVars PROVE NotifyInv'
  OBVIOUS
<1>1. ASSUME NEW p \in Poller, PollerStep(p) \/ PollerDies(p) \/ PollerRestarts(p)
      PROVE  NotifyInv'
  BY <1>1, PollInv, ClaimInv, ProduceInv, SaveEventInv, SendInv, RecordDeliveryInv,
     FinishSlotInv, EndPollInv, PollerDiesInv, RestartsInv DEF PollerStep
<1>2. CASE HalfMinute \/ UNCHANGED notifyVars
  <2>1. /\ clock' \in 0..MaxClock
        /\ UNCHANGED <<setting, notifyFiles, poller, notifyHistory>>
    BY <1>2, MaxClockAssumption DEF HalfMinute, notifyVars, NotifyInv, NotifyTypes
  <2>2. QED
    BY <2>1 DEF NotifyInv, NotifyTypes, Ready, Knows, Visited, RunLogTrue, notifyFiles,
                notifyHistory
<1>3. QED
  BY <1>1, <1>2 DEF NotifyNext

-----------------------------------------------------------------------------
\* A report reaches the phone at most once, for any number of scheduler
\* processes that overlap, die and start again: the primary key of the run log
\* lets one of them through.
THEOREM SentAtMostOnce == NotifySpec => []AtMostOnce
<1>1. NotifyInv => AtMostOnce
  BY DEF NotifyInv, AtMostOnce
<1>2. QED
  BY NotifyInitInv, NotifyStepInv, <1>1, PTL DEF NotifySpec

\* Every due job of a minute that was polled to the end is in the run log, with
\* the outcome it had.
THEOREM RunLogIsTrue == NotifySpec => []RunLogTrue
<1>1. NotifyInv => RunLogTrue
  BY DEF NotifyInv
<1>2. QED
  BY NotifyInitInv, NotifyStepInv, <1>1, PTL DEF NotifySpec
-----------------------------------------------------------------------------
\* What the rest of the types needs to know.
Bookkeeping ==
    /\ setting \in [User -> NotifySetting]
    /\ deliveries \subseteq notified
    /\ abandoned \subseteq DOMAIN runLog
    /\ served \subseteq Minutes
    /\ \A e \in DOMAIN phone : phone[e] > 0 => Poller # {}

LEMMA BookkeepingInit == NotifyInit => Bookkeeping
BY DEF NotifyInit, Bookkeeping

LEMMA BookkeepingStep ==
    NotifyInv /\ Bookkeeping /\ [NotifyNext]_notifyVars => Bookkeeping'
<1> SUFFICES ASSUME NotifyInv, Bookkeeping, [NotifyNext]_notifyVars PROVE Bookkeeping'
  OBVIOUS
<1> USE DEF Bookkeeping, notifyFiles, notifyHistory
<1>1. ASSUME NEW p \in Poller, Poll(p) \/ Produce(p) \/ PollerRestarts(p) PROVE Bookkeeping'
  BY <1>1 DEF Poll, Produce, PollerRestarts
<1>2. ASSUME NEW p \in Poller, Claim(p) PROVE Bookkeeping'
  <2>1. DOMAIN runLog \subseteq DOMAIN runLog'
    BY <1>2 DEF Claim
  <2>2. QED
    BY <1>2, <2>1 DEF Claim
<1>3. ASSUME NEW p \in Poller, SaveEvent(p) PROVE Bookkeeping'
  <2>1. notified \subseteq notified' /\ UNCHANGED <<setting, runLog, deliveries, notifyHistory>>
    BY <1>3 DEF SaveEvent
  <2>2. QED
    BY <2>1
<1>4. ASSUME NEW p \in Poller, Send(p) PROVE Bookkeeping'
  BY <1>4 DEF Send
<1>5. ASSUME NEW p \in Poller, RecordDelivery(p) PROVE Bookkeeping'
  <2>1. poller[p].event \in notified
    BY <1>5 DEF RecordDelivery, NotifyInv, Ready, Knows, AtWork
  <2>2. QED
    BY <1>5, <2>1 DEF RecordDelivery
<1>6. ASSUME NEW p \in Poller, Finish(p) PROVE Bookkeeping'
  <2>1. DOMAIN runLog' = DOMAIN runLog
    BY <1>6 DEF Finish
  <2>2. QED
    BY <1>6, <2>1 DEF Finish
<1>7. ASSUME NEW p \in Poller, EndPoll(p) PROVE Bookkeeping'
  <2>1. Minute(poller[p].time) \in Minutes
    BY <1>7, Events DEF EndPoll, NotifyInv, NotifyTypes, Slot
  <2>2. QED
    BY <1>7, <2>1 DEF EndPoll
<1>8. ASSUME NEW p \in Poller, PollerDies(p) PROVE Bookkeeping'
  <2>1. poller[p].event \in DOMAIN runLog \cup {NoEvent}
    BY DEF NotifyInv, Ready, Knows
  <2>2. QED
    BY <1>8, <2>1 DEF PollerDies
<1>9. HalfMinute \/ UNCHANGED notifyVars => Bookkeeping'
  BY DEF HalfMinute, notifyVars
<1>10. QED
  BY <1>1, <1>2, <1>3, <1>4, <1>5, <1>6, <1>7, <1>8, <1>9 DEF NotifyNext, PollerStep

\* The run log, the history and the deliveries keep their types: a delivery is
\* recorded only of what is in the history, what is in the history has a slot,
\* and so has every report a dead poller has left.
THEOREM NotifyTypeCorrect ==
    ASSUME IsFiniteSet(Poller) PROVE NotifySpec => []NotifyTypeOK
<1>1. NotifyInv /\ Bookkeeping => NotifyTypeOK
  <2> SUFFICES ASSUME NotifyInv, Bookkeeping PROVE NotifyTypeOK
    OBVIOUS
  <2>1. phone \in [Job \X User \X Minutes -> 0..Cardinality(Poller)]
    <3>1. Cardinality(Poller) \in Nat /\ (Poller # {} => Cardinality(Poller) # 0)
      BY FS_CardinalityType, FS_EmptySet
    <3>2. \A e \in Job \X User \X Minutes : phone[e] \in 0..Cardinality(Poller)
      BY <3>1 DEF NotifyInv, NotifyTypes, Bookkeeping
    <3>3. QED
      BY <3>2 DEF NotifyInv, NotifyTypes
  <2>2. ASSUME NEW e \in DOMAIN runLog
        PROVE  runLog[e] \in {"running", "created", "skipped", "failed"}
    BY DEF NotifyInv, NotifyTypes, Outcome
  <2>3. ASSUME NEW p \in Poller
        PROVE  /\ poller[p].pc \in {"idle", "dead", "poll", "produce", "save", "send",
                                    "record", "finish"}
               /\ poller[p].event \in DOMAIN runLog \cup {NoEvent}
               /\ poller[p].todo \subseteq Job \X User
    BY DEF NotifyInv, NotifyTypes, Ready, Knows, AtWork, PollerType
  <2>4. QED
    BY <2>1, <2>2, <2>3 DEF NotifyTypeOK, NotifyInv, NotifyTypes, Bookkeeping
<1>2. QED
  BY NotifyInitInv, NotifyStepInv, BookkeepingInit, BookkeepingStep, <1>1, PTL
     DEF NotifySpec

-----------------------------------------------------------------------------
(* NewsRefresh.                                                            *)

\* The places of a thread that has yet to write its last word to the status file.
Owing == {"build", "tidy", "unlink", "good", "bad"} \cup Saving

\* Only who is filling has a file of a snapshot open.
OpenToFill ==
    \A r \in Refresher : refresher[r].file \in {"tmp", "cache", "gone"} => refresher[r].pc = "fill"

\* Who has met nobody saves alone, and then the temporary file is its own, or gone.
SavesAlone ==
    \A r \in Refresher : refresher[r].pc \in Saving /\ ~refresher[r].met =>
        \A o \in Refresher \ {r} : refresher[o].pc \notin Saving
Validated ==
    \A r \in Refresher : refresher[r].pc = "replace" /\ ~refresher[r].met =>
        tmp \in {"whole", "absent"}

\* Nobody writes to a snapshot that was saved alone.
KeptWhole ==
    saved /\ ~doubtful => cache = "whole" /\ \A r \in Refresher : refresher[r].file # "cache"

FlagOwed == ~lapse /\ flag = "true" => \E r \in Refresher : refresher[r].pc \in Owing

NewsInv == NewsTypeOK /\ OpenToFill /\ SavesAlone /\ Validated /\ KeptWhole /\ FlagOwed

\* A step of r that leaves the others where they are, and what they have open.
StepAside(r, own) ==
    /\ refresher' \in [Refresher -> Locals]
    /\ refresher'[r] = own
    /\ \A o \in Refresher \ {r} : /\ refresher'[o].pc = refresher[o].pc
                                  /\ refresher'[o].met = refresher[o].met
                                  /\ refresher'[o].file \in {refresher[o].file, "gone"}
                                  /\ refresher'[o].file # refresher[o].file => refresher[o].pc = "fill"

LEMMA NoRefreshType == NoRefresh \in Locals /\ NoRefresh.pc = "idle" /\ NoRefresh.file = "none"
BY NewsRetryAssumption DEF NoRefresh, Locals, Pcs

\* What a failed attempt becomes.
LEMMA FailedType ==
    ASSUME NewsTypeOK, NEW r \in Refresher
    PROVE  Failed(r) \in Locals /\ Failed(r).pc \in {"build", "bad"} /\ Failed(r).file = "none"
<1>1. refresher[r] \in Locals
  BY DEF NewsTypeOK
<1>2. CASE refresher[r].failures < MaxRetry
  <2>1. refresher[r].failures + 1 \in 0 .. MaxRetry
    BY <1>1, <1>2, NewsRetryAssumption DEF Locals
  <2>2. Failed(r) = [NoRefresh EXCEPT !.pc = "build", !.failures = refresher[r].failures + 1]
    BY <1>2 DEF Failed
  <2>3. QED
    BY <2>1, <2>2 DEF NoRefresh, Locals, Pcs
<1>3. CASE ~(refresher[r].failures < MaxRetry)
  <2>1. Failed(r) = [NoRefresh EXCEPT !.pc = "bad"]
    BY <1>3 DEF Failed
  <2>2. "bad" \in Pcs
    BY DEF Pcs
  <2> HIDE DEF Pcs, NoRefresh
  <2>3. QED
    BY <2>1, <2>2, NoRefreshType DEF Locals
<1>4. QED
  BY <1>2, <1>3

\* What becomes of a thread after its finally.
LEMMA AfterTidyType ==
    ASSUME NewsTypeOK, NEW r \in Refresher
    PROVE  /\ AfterTidy(r) \in Locals /\ AfterTidy(r).pc \in {"build", "bad", "good"}
           /\ AfterTidy(r).file \in {"none", refresher[r].file}
<1>1. refresher[r] \in Locals
  BY DEF NewsTypeOK
<1>2. CASE refresher[r].broken
  BY <1>2, FailedType DEF AfterTidy
<1>3. CASE ~refresher[r].broken
  BY <1>1, <1>3 DEF AfterTidy, Locals, Pcs
<1>4. QED
  BY <1>2, <1>3

\* A step that changes r alone leaves the others where they are, ...
LEMMA AloneSteps ==
    ASSUME NewsTypeOK, NEW r \in Refresher, NEW own \in Locals,
           refresher' = [refresher EXCEPT ![r] = own]
    PROVE  StepAside(r, own)
BY DEF NewsTypeOK, StepAside

\* ... and so does one that removes the temporary file, empties a file or writes to one.
LEMMA RemovalSteps ==
    ASSUME NewsInv, NEW r \in Refresher, NEW own \in Locals, refresher' = TmpRemoved(r, own)
    PROVE  StepAside(r, own)
<1>1. ASSUME NEW o \in Refresher
      PROVE  refresher[o] \in Locals /\ [refresher[o] EXCEPT !.file = "gone"] \in Locals
  BY DEF NewsInv, NewsTypeOK, Locals
<1>2. ASSUME NEW o \in Refresher, o # r
      PROVE  /\ refresher'[o].pc = refresher[o].pc
             /\ refresher'[o].met = refresher[o].met
             /\ refresher'[o].file \in {refresher[o].file, "gone"}
             /\ refresher'[o].file # refresher[o].file => refresher[o].pc = "fill"
  <2>1. refresher'[o] = IF refresher[o].file = "tmp" THEN [refresher[o] EXCEPT !.file = "gone"]
                                                     ELSE refresher[o]
    BY <1>2 DEF TmpRemoved
  <2>2. refresher[o].file = "tmp" => refresher[o].pc = "fill"
    BY DEF NewsInv, OpenToFill
  <2>3. QED
    BY <1>1, <2>1, <2>2 DEF Locals
<1>3. QED
  BY <1>1, <1>2 DEF TmpRemoved, StepAside

LEMMA EmptyingSteps ==
    ASSUME NewsTypeOK, NEW r \in Refresher, NEW own \in Locals, NEW name,
           refresher' = [o \in Refresher |-> IF o = r THEN own ELSE Emptied(r, name)[o]]
    PROVE  StepAside(r, own)
<1>1. ASSUME NEW o \in Refresher
      PROVE  /\ refresher[o] \in Locals /\ [refresher[o] EXCEPT !.mixed = FALSE] \in Locals
             /\ \A other \in {refresher[o], [refresher[o] EXCEPT !.mixed = FALSE]} :
                   /\ other.pc = refresher[o].pc
                   /\ other.met = refresher[o].met
                   /\ other.file = refresher[o].file
  BY DEF NewsTypeOK, Locals
<1>2. ASSUME NEW o \in Refresher, o # r
      PROVE  Emptied(r, name)[o] \in {refresher[o], [refresher[o] EXCEPT !.mixed = FALSE]}
  BY <1>2 DEF Emptied
<1>3. QED
  BY <1>1, <1>2 DEF StepAside

LEMMA WritingSteps ==
    ASSUME NewsTypeOK, NEW r \in Refresher, NEW own \in Locals,
           refresher' = [o \in Refresher |-> IF o = r THEN own ELSE Written(r)[o]]
    PROVE  StepAside(r, own)
<1>1. ASSUME NEW o \in Refresher
      PROVE  /\ refresher[o] \in Locals /\ [refresher[o] EXCEPT !.mixed = TRUE] \in Locals
             /\ \A other \in {refresher[o], [refresher[o] EXCEPT !.mixed = TRUE]} :
                   /\ other.pc = refresher[o].pc
                   /\ other.met = refresher[o].met
                   /\ other.file = refresher[o].file
  BY DEF NewsTypeOK, Locals
<1>2. ASSUME NEW o \in Refresher, o # r
      PROVE  Written(r)[o] \in {refresher[o], [refresher[o] EXCEPT !.mixed = TRUE]}
  BY <1>2 DEF Written
<1>3. QED
  BY <1>1, <1>2 DEF StepAside

\* A step aside of a thread that neither begins to save nor touches the files
\* of a snapshot, but for the temporary file, preserves the invariant.
LEMMA StepsAsideKeep ==
    ASSUME NewsInv, NEW r \in Refresher, NEW own \in Locals, StepAside(r, own),
           own.file \in {"none", "status"}, own.pc \notin Saving,
           cache' = cache, saved' = saved, doubtful' = doubtful,
           tmp' \in {tmp, "absent"}
    PROVE  OpenToFill' /\ SavesAlone' /\ Validated' /\ KeptWhole'
<1>1. ASSUME NEW o \in Refresher
      PROVE  /\ refresher'[o].file \in {"tmp", "cache", "gone"} => refresher'[o].pc = "fill"
             /\ refresher'[o].pc \in Saving =>
                   /\ o # r /\ refresher[o].pc = refresher'[o].pc
                   /\ refresher[o].met = refresher'[o].met
             /\ refresher'[o].file = "cache" => refresher[o].file = "cache"
  BY DEF NewsInv, OpenToFill, StepAside, Saving
<1>2. QED
  BY <1>1 DEF NewsInv, OpenToFill, SavesAlone, Validated, KeptWhole, StepAside, Saving

\* And so does, for the status, one of a thread that goes on owing its last word.
LEMMA OwingKept ==
    ASSUME NewsInv, NEW r \in Refresher, NEW own \in Locals, StepAside(r, own),
           refresher[r].pc \in Owing => own.pc \in Owing, flag' = flag, lapse' = lapse
    PROVE  FlagOwed'
BY DEF NewsInv, FlagOwed, StepAside

LEMMA NewsInitInv == NewsInit => NewsInv
BY NoRefreshType DEF NewsInit, NewsInv, NewsTypeOK, Content, OpenToFill, SavesAlone, Validated,
                     KeptWhole, FlagOwed, Saving

LEMMA CleanUpInv ==
    ASSUME NewsInv, NEW r \in Refresher, CleanUp(r) PROVE NewsInv'
<1> DEFINE own == [refresher[r] EXCEPT !.pc = "load"]
<1>1. /\ own \in Locals /\ own.pc = "load" /\ own.file \in {"none", "status"}
      /\ refresher[r].pc = "idle"
  BY DEF CleanUp, NewsInv, NewsTypeOK, OpenToFill, Locals, Pcs
<1>2. StepAside(r, own)
  BY <1>1, RemovalSteps DEF CleanUp
<1> HIDE DEF own
<1>3. OpenToFill' /\ SavesAlone' /\ Validated' /\ KeptWhole'
  BY <1>1, <1>2, StepsAsideKeep DEF CleanUp, Saving
<1>4. FlagOwed'
  BY <1>1, <1>2, OwingKept DEF CleanUp, Owing, Saving
<1>5. QED
  BY <1>2, <1>3, <1>4 DEF CleanUp, StepAside, NewsInv, NewsTypeOK, Content

LEMMA DecideRefreshInv ==
    ASSUME NewsInv, NEW r \in Refresher, DecideRefresh(r) PROVE NewsInv'
<1>1. PICK pc \in {"skip", "mark"} : RefresherTo(r, pc)
  BY DEF DecideRefresh
<1> DEFINE own == [refresher[r] EXCEPT !.pc = pc]
<1>2. /\ own \in Locals /\ own.pc = pc /\ own.file \in {"none", "status"}
      /\ refresher[r].pc = "load"
  BY DEF DecideRefresh, NewsInv, NewsTypeOK, OpenToFill, Locals, Pcs
<1>3. refresher' = [refresher EXCEPT ![r] = own]
  BY <1>1 DEF RefresherTo
<1> HIDE DEF own
<1>4. StepAside(r, own)
  BY <1>2, <1>3, AloneSteps DEF NewsInv
<1>5. OpenToFill' /\ SavesAlone' /\ Validated' /\ KeptWhole'
  BY <1>2, <1>4, StepsAsideKeep DEF DecideRefresh, Saving
<1>6. FlagOwed'
  BY <1>2, <1>4, OwingKept DEF DecideRefresh, Owing, Saving
<1>7. QED
  BY <1>4, <1>5, <1>6 DEF DecideRefresh, StepAside, NewsInv, NewsTypeOK

LEMMA OpenStatusInv ==
    ASSUME NewsInv, NEW r \in Refresher, OpenStatus(r) PROVE NewsInv'
<1> DEFINE own == [refresher[r] EXCEPT !.file = "status", !.mixed = FALSE]
<1>1. /\ own \in Locals /\ own.pc \notin Saving /\ own.file = "status"
  BY DEF OpenStatus, NewsInv, NewsTypeOK, Locals, Saving
<1>2. StepAside(r, own)
  BY <1>1, EmptyingSteps DEF OpenStatus, NewsInv
<1> HIDE DEF own
<1>3. OpenToFill' /\ SavesAlone' /\ Validated' /\ KeptWhole'
  BY <1>1, <1>2, StepsAsideKeep DEF OpenStatus
<1>4. QED
  BY <1>2, <1>3 DEF OpenStatus, StepAside, NewsInv, NewsTypeOK, FlagOwed

LEMMA WriteStatusInv ==
    ASSUME NewsInv, NEW r \in Refresher, WriteStatus(r) PROVE NewsInv'
<1> DEFINE own == IF refresher[r].pc = "mark"
                  THEN [refresher[r] EXCEPT !.pc = "build", !.file = "none", !.mixed = FALSE]
                  ELSE NoRefresh
<1>1. /\ own \in Locals /\ own.file = "none"
      /\ own.pc = IF refresher[r].pc = "mark" THEN "build" ELSE "idle"
  BY NoRefreshType DEF NewsInv, NewsTypeOK, Locals, Pcs
<1>2. StepAside(r, own)
  BY <1>1, WritingSteps DEF WriteStatus, NewsInv
<1> HIDE DEF own
<1>3. OpenToFill' /\ SavesAlone' /\ Validated' /\ KeptWhole'
  BY <1>1, <1>2, StepsAsideKeep DEF WriteStatus, Saving
<1>4. FlagOwed'
  <2>1. flag' = "true" => refresher[r].pc = "mark"
    BY DEF WriteStatus
  <2>2. QED
    BY <1>1, <1>2, <2>1 DEF FlagOwed, StepAside, Owing
<1>5. QED
  BY <1>2, <1>3, <1>4 DEF WriteStatus, StepAside, NewsInv, NewsTypeOK

LEMMA LoseStatusInv ==
    ASSUME NewsInv, NEW r \in Refresher, LoseStatus(r) PROVE NewsInv'
<1> DEFINE own == IF refresher[r].pc = "good" THEN Failed(r) ELSE NoRefresh
<1>1. own \in Locals /\ own.pc \in {"build", "bad", "idle"} /\ own.file = "none"
  BY NoRefreshType, FailedType DEF NewsInv
<1>2. StepAside(r, own)
  <2>1. CASE refresher[r].file = "status"
    <3>1. refresher' = [o \in Refresher |-> IF o = r THEN own ELSE Written(r)[o]]
      BY <2>1 DEF LoseStatus
    <3>2. QED
      BY <1>1, <3>1, WritingSteps DEF NewsInv
  <2>2. CASE refresher[r].file # "status"
    <3>1. refresher' = [refresher EXCEPT ![r] = own]
      BY <2>2 DEF LoseStatus, NewsInv, NewsTypeOK
    <3>2. QED
      BY <1>1, <3>1, AloneSteps DEF NewsInv
  <2>3. QED
    BY <2>1, <2>2
<1> HIDE DEF own
<1>3. OpenToFill' /\ SavesAlone' /\ Validated' /\ KeptWhole'
  BY <1>1, <1>2, StepsAsideKeep DEF LoseStatus, Saving
<1>4. QED
  BY <1>2, <1>3 DEF LoseStatus, StepAside, NewsInv, NewsTypeOK, FlagOwed

LEMMA BuildInv ==
    ASSUME NewsInv, NEW r \in Refresher, Build(r) PROVE NewsInv'
<1> DEFINE others == {o \in Refresher \ {r} : refresher[o].pc \in Saving}
           own    == [refresher[r] EXCEPT !.pc = "fill", !.file = "tmp", !.met = others # {}]
<1>1. CASE /\ refresher' = [o \in Refresher |->
                  IF o = r THEN own
                  ELSE IF o \in others THEN [Emptied(r, "tmp")[o] EXCEPT !.met = TRUE]
                  ELSE refresher[o]]
           /\ tmp' = "cut"
  <2>1. ASSUME NEW o \in Refresher, o # r
        PROVE  /\ refresher[o] \in Locals
               /\ [Emptied(r, "tmp")[o] EXCEPT !.met = TRUE] \in Locals
               /\ [Emptied(r, "tmp")[o] EXCEPT !.met = TRUE].pc = refresher[o].pc
               /\ [Emptied(r, "tmp")[o] EXCEPT !.met = TRUE].file = refresher[o].file
               /\ [Emptied(r, "tmp")[o] EXCEPT !.met = TRUE].met = TRUE
    <3>1. Emptied(r, "tmp")[o] \in {refresher[o], [refresher[o] EXCEPT !.mixed = FALSE]}
      BY <2>1 DEF Emptied
    <3>2. refresher[o] \in Locals /\ [refresher[o] EXCEPT !.mixed = FALSE] \in Locals
      BY DEF NewsInv, NewsTypeOK, Locals
    <3>3. ASSUME NEW x \in {refresher[o], [refresher[o] EXCEPT !.mixed = FALSE]}
          PROVE  /\ [x EXCEPT !.met = TRUE] \in Locals
                 /\ [x EXCEPT !.met = TRUE].pc = refresher[o].pc
                 /\ [x EXCEPT !.met = TRUE].file = refresher[o].file
                 /\ [x EXCEPT !.met = TRUE].met = TRUE
      BY <3>2 DEF Locals
    <3>4. QED
      BY <3>1, <3>2, <3>3
  <2>2. /\ own \in Locals /\ own.pc = "fill" /\ own.file = "tmp"
        /\ ~own.met => others = {}
    <3>1. refresher[r] \in Locals /\ (others # {}) \in BOOLEAN
      BY DEF NewsInv, NewsTypeOK
    <3> HIDE DEF others
    <3>2. QED
      BY <3>1 DEF Locals, Pcs, Saving
  <2>3. /\ refresher' \in [Refresher -> Locals]
        /\ refresher'[r] = own
        /\ \A o \in Refresher \ {r} : /\ refresher'[o].pc = refresher[o].pc
                                      /\ refresher'[o].file = refresher[o].file
                                      /\ refresher[o].pc \in Saving => refresher'[o].met
    <3> HIDE DEF own
    <3>1. \A o \in Refresher \ {r} : o \in others <=> refresher[o].pc \in Saving
      OBVIOUS
    <3> HIDE DEF others
    <3>2. QED
      BY <1>1, <2>1, <2>2, <3>1
  <2>4. ASSUME NEW o \in Refresher \ {r}, ~refresher'[r].met
        PROVE  refresher[o].pc \notin Saving
    BY <2>2, <2>3, <2>4
  <2> HIDE DEF own, others
  <2>5. NewsTypeOK'
    BY <1>1, <2>3 DEF Build, NewsInv, NewsTypeOK, Content
  <2>6. OpenToFill'
    BY <2>2, <2>3 DEF NewsInv, OpenToFill
  <2>7. SavesAlone'
    <3> SUFFICES ASSUME NEW o \in Refresher, refresher'[o].pc \in Saving, ~refresher'[o].met
                 PROVE  \A q \in Refresher \ {o} : refresher'[q].pc \notin Saving
      BY DEF SavesAlone
    <3>1. o = r
      BY <2>3
    <3>2. QED
      BY <2>3, <2>4, <3>1
  <2>8. Validated'
    BY <2>2, <2>3 DEF Validated, Saving
  <2>9. KeptWhole'
    BY <2>2, <2>3 DEF Build, NewsInv, KeptWhole
  <2>10. FlagOwed'
    BY <2>2, <2>3 DEF Build, NewsInv, FlagOwed, Owing, Saving
  <2>11. QED
    BY <2>5, <2>6, <2>7, <2>8, <2>9, <2>10 DEF NewsInv
<1>2. CASE refresher' = [refresher EXCEPT ![r] = Failed(r)] /\ UNCHANGED tmp
  <2>1. Failed(r) \in Locals /\ Failed(r).pc \in {"build", "bad"} /\ Failed(r).file = "none"
    BY FailedType DEF NewsInv
  <2>2. StepAside(r, Failed(r))
    BY <1>2, <2>1, AloneSteps DEF NewsInv
  <2>3. OpenToFill' /\ SavesAlone' /\ Validated' /\ KeptWhole'
    BY <1>2, <2>1, <2>2, StepsAsideKeep DEF Build, Saving
  <2>4. FlagOwed'
    BY <2>1, <2>2, OwingKept DEF Build, Owing
  <2>5. QED
    BY <1>2, <2>2, <2>3, <2>4 DEF Build, StepAside, NewsInv, NewsTypeOK
<1>3. QED
  BY <1>1, <1>2 DEF Build

LEMMA FillInv ==
    ASSUME NewsInv, NEW r \in Refresher, Fill(r) PROVE NewsInv'
<1>1. PICK content \in {"cut", "whole"}, fails \in BOOLEAN :
         /\ tmp'   = IF refresher[r].file = "tmp" THEN content ELSE tmp
         /\ cache' = IF refresher[r].file = "cache" THEN content ELSE cache
         /\ LET own == [refresher[r] EXCEPT !.pc = IF fails THEN "tidy" ELSE "validate",
                                            !.broken = fails, !.file = "none", !.mixed = FALSE]
            IN  refresher' = [o \in Refresher |-> IF o = r THEN own ELSE Written(r)[o]]
  BY DEF Fill
<1> DEFINE own == [refresher[r] EXCEPT !.pc = IF fails THEN "tidy" ELSE "validate",
                                       !.broken = fails, !.file = "none", !.mixed = FALSE]
<1>2. /\ own \in Locals /\ own.pc \in {"tidy", "validate"} /\ own.file = "none"
      /\ own.met = refresher[r].met /\ refresher[r].pc = "fill"
  BY DEF Fill, NewsInv, NewsTypeOK, Locals, Pcs, Saving
<1>3. StepAside(r, own)
  BY <1>1, <1>2, WritingSteps DEF NewsInv
<1>4. UNCHANGED <<flag, saved, doubtful, lapse>>
  BY DEF Fill
<1> HIDE DEF own
<1>5. NewsTypeOK'
  BY <1>1, <1>3, <1>4 DEF StepAside, NewsInv, NewsTypeOK, Content
<1>6. OpenToFill'
  BY <1>2, <1>3 DEF StepAside, NewsInv, OpenToFill
<1>7. SavesAlone'
  BY <1>2, <1>3 DEF StepAside, NewsInv, SavesAlone, Saving
<1>8. Validated'
  <2> SUFFICES ASSUME NEW o \in Refresher, refresher'[o].pc = "replace", ~refresher'[o].met
               PROVE  FALSE
    BY DEF Validated
  <2>1. o # r /\ refresher[o].pc = "replace" /\ ~refresher[o].met
    BY <1>2, <1>3 DEF StepAside
  <2>2. QED
    BY <1>2, <2>1 DEF NewsInv, SavesAlone, Saving
<1>9. KeptWhole'
  BY <1>1, <1>2, <1>3, <1>4 DEF StepAside, NewsInv, KeptWhole
<1>10. FlagOwed'
  BY <1>2, <1>3, <1>4, OwingKept DEF Owing, Saving
<1>11. QED
  BY <1>5, <1>6, <1>7, <1>8, <1>9, <1>10 DEF NewsInv

LEMMA ValidateInv ==
    ASSUME NewsInv, NEW r \in Refresher, Validate(r) PROVE NewsInv'
<1>1. UNCHANGED <<cache, tmp, flag, saved, doubtful, lapse>> /\ refresher[r].pc = "validate"
  BY DEF Validate
<1>2. CASE tmp = "whole" /\ RefresherTo(r, "replace")
  <2> DEFINE own == [refresher[r] EXCEPT !.pc = "replace"]
  <2>1. /\ own \in Locals /\ own.pc = "replace" /\ own.file \in {"none", "status"}
        /\ own.met = refresher[r].met
    BY <1>1 DEF NewsInv, NewsTypeOK, OpenToFill, Locals, Pcs, Saving
  <2>2. refresher' = [refresher EXCEPT ![r] = own]
    BY <1>2 DEF RefresherTo
  <2> HIDE DEF own
  <2>3. StepAside(r, own)
    BY <2>1, <2>2, AloneSteps DEF NewsInv
  <2>4. OpenToFill'
    BY <2>1, <2>3 DEF StepAside, NewsInv, OpenToFill
  <2>5. SavesAlone'
    BY <1>1, <2>1, <2>3 DEF StepAside, NewsInv, SavesAlone, Saving
  <2>6. Validated' /\ KeptWhole'
    BY <1>1, <1>2, <2>1, <2>3 DEF StepAside, NewsInv, Validated, KeptWhole
  <2>7. FlagOwed'
    BY <1>1, <2>1, <2>3, OwingKept DEF Owing, Saving
  <2>8. QED
    BY <1>1, <2>3, <2>4, <2>5, <2>6, <2>7 DEF StepAside, NewsInv, NewsTypeOK
<1>3. CASE Break(r)
  <2> DEFINE own == [refresher[r] EXCEPT !.pc = "tidy", !.broken = TRUE]
  <2>1. own \in Locals /\ own.pc = "tidy" /\ own.file \in {"none", "status"}
    BY <1>1 DEF NewsInv, NewsTypeOK, OpenToFill, Locals, Pcs
  <2>2. refresher' = [refresher EXCEPT ![r] = own]
    BY <1>3 DEF Break
  <2> HIDE DEF own
  <2>3. StepAside(r, own)
    BY <2>1, <2>2, AloneSteps DEF NewsInv
  <2>4. OpenToFill' /\ SavesAlone' /\ Validated' /\ KeptWhole'
    BY <1>1, <2>1, <2>3, StepsAsideKeep DEF Saving
  <2>5. FlagOwed'
    BY <1>1, <2>1, <2>3, OwingKept DEF Owing, Saving
  <2>6. QED
    BY <1>1, <2>3, <2>4, <2>5 DEF StepAside, NewsInv, NewsTypeOK
<1>4. QED
  BY <1>2, <1>3 DEF Validate

LEMMA ReplaceInv ==
    ASSUME NewsInv, NEW r \in Refresher, Replace(r) PROVE NewsInv'
<1>1. UNCHANGED <<flag, lapse>> /\ refresher[r].pc = "replace"
  BY DEF Replace
<1>2. CASE tmp = "absent"
  <2> DEFINE own == [refresher[r] EXCEPT !.pc = "tidy", !.broken = TRUE]
  <2>1. own \in Locals /\ own.pc = "tidy" /\ own.file \in {"none", "status"}
    BY <1>1 DEF NewsInv, NewsTypeOK, OpenToFill, Locals, Pcs
  <2>2. refresher' = [refresher EXCEPT ![r] = own] /\ UNCHANGED <<cache, tmp, saved, doubtful>>
    BY <1>2 DEF Replace, Break
  <2> HIDE DEF own
  <2>3. StepAside(r, own)
    BY <2>1, <2>2, AloneSteps DEF NewsInv
  <2>4. OpenToFill' /\ SavesAlone' /\ Validated' /\ KeptWhole'
    BY <2>1, <2>2, <2>3, StepsAsideKeep DEF Saving
  <2>5. FlagOwed'
    BY <1>1, <2>1, <2>3, OwingKept DEF Owing, Saving
  <2>6. QED
    BY <1>1, <2>2, <2>3, <2>4, <2>5 DEF StepAside, NewsInv, NewsTypeOK
<1>3. CASE tmp # "absent"
  <2> DEFINE own == [refresher[r] EXCEPT !.pc = "tidy"]
  <2>1. /\ refresher' = TmpMoved(r, own) /\ cache' = tmp /\ tmp' = "absent"
        /\ saved' = TRUE /\ doubtful' = refresher[r].met
    BY <1>3 DEF Replace
  <2>2. own \in Locals /\ own.pc = "tidy" /\ own.file \in {"none", "status"}
    BY <1>1 DEF NewsInv, NewsTypeOK, OpenToFill, Locals, Pcs
  <2> HIDE DEF own
  <2>3. ASSUME NEW o \in Refresher, o # r
        PROVE  /\ refresher'[o] \in Locals
               /\ refresher'[o].pc = refresher[o].pc
               /\ refresher'[o].met = refresher[o].met
               /\ refresher'[o].file # refresher[o].file => refresher[o].pc = "fill"
               /\ refresher'[o].file = "cache" => refresher[o].pc = "fill"
    <3>1. refresher'[o] = IF refresher[o].file = "tmp" THEN [refresher[o] EXCEPT !.file = "cache"]
                     ELSE IF refresher[o].file = "cache" THEN [refresher[o] EXCEPT !.file = "gone"]
                     ELSE refresher[o]
      BY <2>1, <2>3 DEF TmpMoved
    <3>2. refresher[o] \in Locals
      BY DEF NewsInv, NewsTypeOK
    <3>3. refresher[o].file \in {"tmp", "cache"} => refresher[o].pc = "fill"
      BY DEF NewsInv, OpenToFill
    <3>4. QED
      BY <3>1, <3>2, <3>3 DEF Locals
  <2>4. refresher' \in [Refresher -> Locals] /\ refresher'[r] = own
    BY <2>1, <2>2, <2>3 DEF TmpMoved
  <2>5. NewsTypeOK'
    BY <1>1, <2>1, <2>4 DEF NewsInv, NewsTypeOK, Content, Locals
  <2>6. OpenToFill'
    BY <2>2, <2>3, <2>4 DEF NewsInv, OpenToFill
  <2>7. SavesAlone'
    BY <2>2, <2>3, <2>4 DEF NewsInv, SavesAlone, Saving
  <2>8. Validated'
    BY <2>1 DEF Validated
  <2>9. KeptWhole'
    <3> SUFFICES ASSUME ~refresher[r].met
                 PROVE  cache' = "whole" /\ \A o \in Refresher : refresher'[o].file # "cache"
      BY <2>1 DEF KeptWhole
    <3>1. cache' = "whole"
      BY <1>1, <1>3, <2>1 DEF NewsInv, Validated
    <3>2. \A o \in Refresher \ {r} : refresher[o].pc # "fill"
      BY <1>1 DEF NewsInv, SavesAlone, Saving
    <3>3. QED
      BY <2>2, <2>3, <2>4, <3>1, <3>2
  <2>10. FlagOwed'
    BY <1>1, <2>2, <2>3, <2>4 DEF NewsInv, FlagOwed, Owing
  <2>11. QED
    BY <2>5, <2>6, <2>7, <2>8, <2>9, <2>10 DEF NewsInv
<1>4. QED
  BY <1>2, <1>3

LEMMA TidyInv ==
    ASSUME NewsInv, NEW r \in Refresher, Tidy(r) PROVE NewsInv'
<1>1. UNCHANGED <<cache, tmp, flag, saved, doubtful, lapse>> /\ refresher[r].pc = "tidy"
  BY DEF Tidy
<1>2. refresher[r] \in Locals /\ refresher[r].file \in {"none", "status"}
  BY <1>1 DEF NewsInv, NewsTypeOK, OpenToFill, Locals
<1>3. PICK own \in Locals : /\ own.pc \in {"unlink", "build", "bad", "good"}
                            /\ own.file \in {"none", "status"}
                            /\ refresher' = [refresher EXCEPT ![r] = own]
  <2>1. CASE tmp = "absent"
    BY <1>2, <2>1, AfterTidyType DEF Tidy, NewsInv
  <2>2. CASE tmp # "absent"
    <3> DEFINE own == [refresher[r] EXCEPT !.pc = "unlink"]
    <3>1. own \in Locals /\ own.pc = "unlink" /\ own.file \in {"none", "status"}
      BY <1>2 DEF Locals, Pcs
    <3>2. refresher' = [refresher EXCEPT ![r] = own]
      BY <2>2 DEF Tidy, RefresherTo
    <3> HIDE DEF own
    <3>3. QED
      BY <3>1, <3>2
  <2>3. QED
    BY <2>1, <2>2
<1>4. StepAside(r, own)
  BY <1>3, AloneSteps DEF NewsInv
<1>5. OpenToFill' /\ SavesAlone' /\ Validated' /\ KeptWhole'
  BY <1>1, <1>3, <1>4, StepsAsideKeep DEF Saving
<1>6. FlagOwed'
  BY <1>1, <1>3, <1>4, OwingKept DEF Owing
<1>7. QED
  BY <1>1, <1>4, <1>5, <1>6 DEF StepAside, NewsInv, NewsTypeOK

LEMMA UnlinkTmpInv ==
    ASSUME NewsInv, NEW r \in Refresher, Unlink(r) PROVE NewsInv'
<1>1. /\ UNCHANGED <<cache, flag, saved, doubtful, lapse>> /\ tmp' = "absent"
      /\ refresher[r].pc = "unlink"
  BY DEF Unlink
<1>2. refresher[r].file \in {"none", "status"}
  BY <1>1 DEF NewsInv, NewsTypeOK, OpenToFill, Locals
<1>3. PICK own \in Locals : /\ own.pc \in {"build", "bad", "good"}
                            /\ own.file \in {"none", "status"}
                            /\ StepAside(r, own)
  <2>1. CASE tmp = "absent"
    BY <2>1, FailedType, AloneSteps DEF Unlink, NewsInv
  <2>2. CASE tmp # "absent"
    BY <1>2, <2>2, AfterTidyType, RemovalSteps DEF Unlink, NewsInv
  <2>3. QED
    BY <2>1, <2>2
<1>4. OpenToFill' /\ SavesAlone' /\ Validated' /\ KeptWhole'
  BY <1>1, <1>3, StepsAsideKeep DEF Saving
<1>5. FlagOwed'
  BY <1>1, <1>3, OwingKept DEF Owing
<1>6. QED
  BY <1>1, <1>3, <1>4, <1>5 DEF StepAside, NewsInv, NewsTypeOK, Content

LEMMA CrashNewsInv == ASSUME NewsInv, CrashNews PROVE NewsInv'
BY NoRefreshType DEF CrashNews, NewsInv, NewsTypeOK, OpenToFill, SavesAlone, Validated, KeptWhole,
                     FlagOwed, Saving

LEMMA NewsStepInv == NewsInv /\ [NewsNext]_newsVars => NewsInv'
<1> SUFFICES ASSUME NewsInv, [NewsNext]_newsVars PROVE NewsInv'
  OBVIOUS
<1>1. CASE UNCHANGED newsVars
  BY <1>1 DEF newsVars, NewsInv, NewsTypeOK, OpenToFill, SavesAlone, Validated, KeptWhole, FlagOwed
<1>2. QED
  BY <1>1, CleanUpInv, DecideRefreshInv, OpenStatusInv, WriteStatusInv, LoseStatusInv, BuildInv,
     FillInv, ValidateInv, ReplaceInv, TidyInv, UnlinkTmpInv, CrashNewsInv DEF NewsNext

-----------------------------------------------------------------------------
\* The types of the files of the news refresh and of its threads.
THEOREM NewsTypeCorrect == NewsSpec => []NewsTypeOK
<1>1. NewsInv => NewsTypeOK
  BY DEF NewsInv
<1>2. QED
  BY NewsInitInv, NewsStepInv, <1>1, PTL DEF NewsSpec

\* For any number of refreshing threads and retries, a snapshot that was saved
\* while no other thread was saving stays complete through cleanups, failures,
\* crashes and the beginnings of later saves, and the status file does not
\* claim a refresh when all have ended and said so.
THEOREM NewsIsKept == NewsSpec => []NewsKept
<1>1. NewsInv => NewsKept
  BY DEF NewsInv, KeptWhole, FlagOwed, NewsKept, Owing, Saving
<1>2. QED
  BY NewsInitInv, NewsStepInv, <1>1, PTL DEF NewsSpec

-----------------------------------------------------------------------------
(* MaintenanceJob.                                                         *)

RecordType == [success : JobTime, attempt : JobTime, failed : BOOLEAN]
DriverType == [pc : {"idle", "read", "create", "import", "succeeded", "failed", "unlink"},
               force : BOOLEAN, now : 0 .. MaxDay, late : BOOLEAN, read : RecordType]

Deciding == {"read", "create"}

\* The state file knows the imports that have ended, but for the one that is
\* being reported.
Known ==
    ~blind =>
        /\ (\A d \in Driver : driver[d].pc # "succeeded") /\ imports.success # Never =>
              record.success >= imports.success
        /\ (\A d \in Driver : driver[d].pc \notin {"succeeded", "failed"})
              /\ imports.failure > imports.success =>
                 record.failed /\ record.attempt >= imports.failure
        /\ (\E d \in Driver : driver[d].pc = "succeeded") => imports.failure <= imports.success

\* A driver that is not late decides on the state file as it is.
Decides(d) ==
    driver[d].pc \in Deciding /\ ~driver[d].late /\ ~blind =>
        /\ driver[d].read = record
        /\ driver[d].pc = "create" /\ ~driver[d].force => DueAfter(driver[d].read, driver[d].now)

JobInv ==
    /\ JobTypeOK
    /\ record.attempt <= day /\ imports.success <= day /\ imports.failure <= day
    /\ Known
    /\ \A d \in Driver : Decides(d)

USE JobPeriodsAssumption DEF Never, JobTime

LEMMA NoRecordType == NoRecord \in RecordType /\ NoDriver \in DriverType
BY DEF NoRecord, NoDriver, RecordType, DriverType

LEMMA JobInitInv == JobInit => JobInv
<1> SUFFICES ASSUME JobInit PROVE JobInv
  OBVIOUS
<1>1. \A d \in Driver : driver[d] = NoDriver /\ NoDriver.pc = "idle"
  BY DEF JobInit, NoDriver
<1>2. JobTypeOK
  <2>1. driver \in [Driver -> DriverType]
    BY NoRecordType DEF JobInit
  <2>2. imports \in [success : JobTime, failure : JobTime]
    BY DEF JobInit
  <2>3. NoRecord.success <= NoRecord.attempt
    BY DEF NoRecord
  <2>4. record \in RecordType /\ record.success <= record.attempt
    BY <2>3, NoRecordType DEF JobInit
  <2>5. /\ day \in 0 .. MaxDay
        /\ jobLock \in BOOLEAN
        /\ blind \in BOOLEAN
    <3>1. day \in 0 .. MaxDay
      BY DEF JobInit
    <3>2. jobLock \in BOOLEAN /\ blind \in BOOLEAN
      BY DEF JobInit
    <3>3. QED
      BY <3>1, <3>2
  <2>6. \A d \in Driver : driver[d].pc \notin {"import", "succeeded", "failed", "unlink"}
    BY <1>1
  <2>7. QED
    BY <2>1, <2>2, <2>4, <2>5, <2>6 DEF JobTypeOK, DriverType, RecordType
<1>3. imports.success = Never /\ imports.failure = Never /\ record.attempt = Never /\ day = 0
  BY DEF JobInit, NoRecord
<1>4. QED
  BY <1>1, <1>2, <1>3 DEF JobInv, Known, Decides, Deciding

-----------------------------------------------------------------------------
\* A step of one driver before it has the lock, or that gives up.
LEMMA DecidingInv ==
    ASSUME JobInv, NEW d \in Driver, NEW x \in DriverType,
           driver' = [driver EXCEPT ![d] = x],
           driver[d].pc \notin {"succeeded", "failed"} \/ blind',
           x.pc \in {"idle"} \cup Deciding, blind => blind', blind' \in BOOLEAN,
           Decides(d)', UNCHANGED <<day, record, jobLock, imports>>
    PROVE  JobInv'
<1>1. driver'[d] = x /\ \A o \in Driver \ {d} : driver'[o] = driver[o]
  BY DEF JobInv, JobTypeOK
<1>2. driver \in [Driver -> DriverType] /\ driver' \in [Driver -> DriverType]
  BY DEF JobInv, JobTypeOK, DriverType, RecordType
<1>3. JobTypeOK'
  BY <1>1, <1>2 DEF JobInv, JobTypeOK, Deciding, DriverType, RecordType
<1>4. Known'
  BY <1>1 DEF JobInv, Known, Deciding
<1>5. \A o \in Driver : Decides(o)'
  BY <1>1 DEF JobInv, Decides
<1>6. QED
  BY <1>3, <1>4, <1>5 DEF JobInv

LEMMA BeginInv ==
    ASSUME JobInv, NEW d \in Driver, BeginJob(d) PROVE JobInv'
<1>1. PICK force \in BOOLEAN, readable \in BOOLEAN :
          /\ driver' = [driver EXCEPT ![d] =
                [NoDriver EXCEPT !.pc = "read", !.force = force, !.now = day,
                             !.read = IF readable THEN record ELSE NoRecord]]
          /\ blind' = (blind \/ ~readable)
  BY DEF BeginJob
<1> DEFINE seen == IF readable THEN record ELSE NoRecord
           x == [NoDriver EXCEPT !.pc = "read", !.force = force, !.now = day, !.read = seen]
<1>2. seen \in RecordType /\ day \in 0 .. MaxDay /\ blind' \in BOOLEAN
  BY <1>1, NoRecordType DEF JobInv, JobTypeOK, RecordType
<1>3. (~readable => blind') /\ (readable => seen = record) /\ driver' = [driver EXCEPT ![d] = x]
  BY <1>1
<1> HIDE DEF seen
<1>4. x \in DriverType /\ x.pc = "read" /\ x.read = seen
  BY <1>2, NoRecordType DEF DriverType
<1> HIDE DEF x
<1>5. driver'[d] = x
  BY <1>3 DEF JobInv, JobTypeOK
<1>6. Decides(d)'
  BY <1>3, <1>4, <1>5 DEF Decides, BeginJob
<1>7. QED
  BY <1>1, <1>2, <1>3, <1>4, <1>6, DecidingInv DEF BeginJob, Deciding

LEMMA DecideInv ==
    ASSUME JobInv, NEW d \in Driver, DecideJob(d) PROVE JobInv'
<1>1. /\ driver[d].pc = "read" /\ driver[d] \in DriverType
      /\ UNCHANGED <<day, record, jobLock, imports, blind>> /\ blind \in BOOLEAN
  BY DEF DecideJob, JobInv, JobTypeOK, DriverType, RecordType
<1>2. CASE ~jobLock /\ (driver[d].force \/ DueAfter(driver[d].read, driver[d].now))
  <2> DEFINE x == [driver[d] EXCEPT !.pc = "create"]
  <2>1. /\ x \in DriverType /\ x.pc = "create" /\ x.force = driver[d].force
        /\ x.late = driver[d].late /\ x.read = driver[d].read /\ x.now = driver[d].now
    BY <1>1 DEF DriverType
  <2>2. driver' = [driver EXCEPT ![d] = x]
    BY <1>2 DEF DecideJob, DriverTo
  <2> HIDE DEF x
  <2>3. driver'[d] = x
    BY <2>2 DEF JobInv, JobTypeOK
  <2>4. Decides(d)'
    BY <1>1, <1>2, <2>1, <2>3 DEF JobInv, Decides, Deciding, DueAfter
  <2>5. QED
    BY <1>1, <2>1, <2>2, <2>4, DecidingInv DEF Deciding
<1>3. CASE ~(~jobLock /\ (driver[d].force \/ DueAfter(driver[d].read, driver[d].now)))
  <2>1. driver' = [driver EXCEPT ![d] = NoDriver]
    BY <1>3 DEF DecideJob
  <2>2. driver'[d] = NoDriver /\ NoDriver.pc = "idle"
    BY <2>1 DEF JobInv, JobTypeOK, NoDriver
  <2>3. Decides(d)'
    BY <2>2 DEF Decides, Deciding
  <2>4. QED
    BY <1>1, <2>1, <2>2, <2>3, NoRecordType, DecidingInv
<1>4. QED
  BY <1>2, <1>3

LEMMA DriverDiesInv ==
    ASSUME JobInv, NEW d \in Driver, DriverDies(d) PROVE JobInv'
<1>1. driver' = [driver EXCEPT ![d] = NoDriver] /\ NoDriver.pc = "idle"
      /\ blind' = (blind \/ driver[d].pc \in {"succeeded", "failed"})
      /\ UNCHANGED <<day, record, jobLock, imports>>
  BY DEF DriverDies, NoDriver
<1>2. driver'[d] = NoDriver
  BY <1>1 DEF JobInv, JobTypeOK
<1>3. Decides(d)'
  BY <1>1, <1>2 DEF Decides, Deciding
<1>4. blind \in BOOLEAN
  BY DEF JobInv, JobTypeOK
<1>5. QED
  BY <1>1, <1>3, <1>4, NoRecordType, DecidingInv

-----------------------------------------------------------------------------
\* A step of a driver that takes the lock, or leaves the import without a report.
LEMMA CreateLockInv ==
    ASSUME JobInv, NEW d \in Driver, CreateLock(d) PROVE JobInv'
<1>1. /\ driver[d].pc = "create" /\ NoDriver.pc = "idle" /\ blind \in BOOLEAN
      /\ UNCHANGED <<day, record, imports, blind>>
  BY DEF CreateLock, JobInv, JobTypeOK, NoDriver
<1>2. CASE jobLock
  <2>1. driver' = [driver EXCEPT ![d] = NoDriver] /\ jobLock' = jobLock
    BY <1>2 DEF CreateLock
  <2>2. driver'[d] = NoDriver
    BY <2>1 DEF JobInv, JobTypeOK
  <2>3. Decides(d)'
    BY <1>1, <2>2 DEF Decides, Deciding
  <2>4. QED
    BY <1>1, <2>1, <2>3, NoRecordType, DecidingInv
<1>3. CASE ~jobLock
  <2> DEFINE x == [NoDriver EXCEPT !.pc = "import"]
  <2>1. x \in DriverType /\ x.pc = "import"
    BY NoRecordType DEF DriverType
  <2>2. driver' = [driver EXCEPT ![d] = x] /\ jobLock' = TRUE
    BY <1>3 DEF CreateLock
  <2> HIDE DEF x
  <2>3. driver'[d] = x /\ \A o \in Driver \ {d} : driver'[o] = driver[o]
    BY <2>2 DEF JobInv, JobTypeOK
  <2>4. \A o \in Driver : driver[o].pc \in {"idle", "read", "create"}
    BY <1>3 DEF JobInv, JobTypeOK
  <2>5. driver' \in [Driver -> DriverType]
    BY <2>1, <2>2 DEF JobInv, JobTypeOK, DriverType, RecordType
  <2>6. JobTypeOK'
    BY <1>1, <2>1, <2>2, <2>3, <2>4, <2>5 DEF JobInv, JobTypeOK, DriverType, RecordType
  <2>7. Known'
    BY <1>1, <2>1, <2>3, <2>4 DEF JobInv, Known
  <2>8. \A o \in Driver : Decides(o)'
    BY <1>1, <2>1, <2>3 DEF JobInv, Decides, Deciding
  <2>9. QED
    BY <1>1, <2>6, <2>7, <2>8 DEF JobInv
<1>4. QED
  BY <1>2, <1>3

LEMMA EndImportInv ==
    ASSUME JobInv, NEW d \in Driver, NEW good \in BOOLEAN, EndImport(d, good) PROVE JobInv'
<1> DEFINE x == [driver[d] EXCEPT !.pc = IF good THEN "succeeded" ELSE "failed"]
<1>1. driver[d].pc = "import" /\ driver[d] \in DriverType /\ day \in 0 .. MaxDay
  BY DEF EndImport, JobInv, JobTypeOK, DriverType, RecordType
<1>2. x \in DriverType /\ x.pc = IF good THEN "succeeded" ELSE "failed"
  BY <1>1 DEF DriverType
<1>3. driver' = [driver EXCEPT ![d] = x] /\ UNCHANGED <<day, record, jobLock, blind>>
  BY DEF EndImport, DriverTo
<1> HIDE DEF x
<1>4. driver'[d] = x /\ \A o \in Driver \ {d} : driver'[o] = driver[o]
  BY <1>3 DEF JobInv, JobTypeOK
<1>5. jobLock /\ \A o \in Driver \ {d} : driver[o].pc \in {"idle", "read", "create"}
  BY <1>1 DEF JobInv, JobTypeOK
<1>6. /\ imports \in [success : JobTime, failure : JobTime]
      /\ good => imports'.success = day /\ imports'.failure = imports.failure
      /\ ~good => imports'.failure = day /\ imports'.success = imports.success
  BY DEF EndImport, JobInv, JobTypeOK
<1>7. imports' \in [success : JobTime, failure : JobTime]
  BY <1>1, <1>6 DEF EndImport
<1>8. driver' \in [Driver -> DriverType]
  BY <1>2, <1>3 DEF JobInv, JobTypeOK, DriverType, RecordType
<1>9. JobTypeOK'
  BY <1>2, <1>3, <1>4, <1>5, <1>7, <1>8 DEF JobInv, JobTypeOK, DriverType, RecordType
<1>10. Known'
  <2>1. CASE good
    BY <1>2, <1>3, <1>4, <1>5, <1>6, <2>1 DEF JobInv, Known, JobTypeOK
  <2>2. CASE ~good
    BY <1>1, <1>2, <1>3, <1>4, <1>5, <1>6, <2>2 DEF JobInv, Known, JobTypeOK
  <2>3. QED
    BY <2>1, <2>2
<1>11. \A o \in Driver : Decides(o)'
  BY <1>2, <1>3, <1>4 DEF JobInv, Decides, Deciding
<1>12. record.attempt <= day /\ imports'.success <= day /\ imports'.failure <= day
  BY <1>1, <1>6 DEF JobInv
<1>13. QED
  BY <1>3, <1>9, <1>10, <1>11, <1>12 DEF JobInv

\* The report: what was known stays known, and who has read the old file is late.
LEMMA FinishInv ==
    ASSUME JobInv, NEW d \in Driver, NEW readable \in BOOLEAN, FinishJob(d, readable)
    PROVE  JobInv'
<1> DEFINE previous == IF readable THEN record ELSE NoRecord
           good == driver[d].pc = "succeeded"
<1>1. /\ driver[d].pc \in {"succeeded", "failed"} /\ blind' = (blind \/ ~readable)
      /\ UNCHANGED <<day, jobLock, imports>> /\ day \in 0 .. MaxDay /\ blind \in BOOLEAN
  BY DEF FinishJob, JobInv, JobTypeOK
<1>2. /\ record'.success = IF good THEN day ELSE previous.success
      /\ record'.attempt = day /\ record'.failed = ~good
      /\ record' \in RecordType
      /\ record'.success <= record'.attempt
  <2>1. previous \in RecordType /\ previous.success <= day
    BY NoRecordType DEF JobInv, JobTypeOK, RecordType, NoRecord
  <2>2. record' = [success |-> IF good THEN day ELSE previous.success,
                   attempt |-> day, failed |-> ~good]
    BY DEF FinishJob, Reported
  <2> HIDE DEF previous, good
  <2>3. QED
    BY <1>1, <2>1, <2>2 DEF RecordType
<1>3. jobLock /\ \A o \in Driver \ {d} : driver[o].pc \in {"idle", "read", "create"}
  BY <1>1 DEF JobInv, JobTypeOK
<1>4. driver \in [Driver -> DriverType]
  BY DEF JobInv, JobTypeOK, DriverType, RecordType
<1>5. /\ driver'[d].pc = "unlink" /\ driver'[d] \in DriverType
      /\ \A o \in Driver \ {d} :
            /\ driver'[o] \in DriverType /\ driver'[o].pc = driver[o].pc
            /\ driver'[o].late = (driver[o].pc \in {"read", "create"})
  <2> DEFINE y(o) == [driver[o] EXCEPT !.late = driver[o].pc \in {"read", "create"}]
             z == [driver[d] EXCEPT !.pc = "unlink"]
  <2>1. \A o \in Driver : driver[o] \in DriverType
    BY <1>4
  <2>2. z \in DriverType /\ z.pc = "unlink"
    BY <2>1 DEF DriverType
  <2>3. ASSUME NEW o \in Driver
        PROVE  /\ y(o) \in DriverType /\ y(o).pc = driver[o].pc
               /\ y(o).late = (driver[o].pc \in {"read", "create"})
    <3>1. driver[o] \in DriverType /\ (driver[o].pc \in {"read", "create"}) \in BOOLEAN
      BY <2>1
    <3>2. y(o) \in DriverType /\ y(o).pc = driver[o].pc
      BY <3>1 DEF DriverType
    <3>3. y(o).late = (driver[o].pc \in {"read", "create"})
      BY <3>1 DEF DriverType
    <3>4. QED
      BY <3>2, <3>3
  <2>4. driver'[d] = z /\ \A o \in Driver \ {d} : driver'[o] = y(o)
    BY DEF FinishJob
  <2> HIDE DEF y, z
  <2>5. QED
    BY <2>2, <2>3, <2>4
<1>6. driver' \in [Driver -> DriverType]
  <2>1. driver' = [o \in Driver |-> driver'[o]]
    BY DEF FinishJob
  <2>2. \A o \in Driver : driver'[o] \in DriverType
    BY <1>5
  <2>3. QED
    BY <2>1, <2>2
<1>7. JobTypeOK'
  BY <1>1, <1>2, <1>3, <1>5, <1>6 DEF JobInv, JobTypeOK, DriverType, RecordType
<1>8. Known'
  <2>1. SUFFICES ASSUME readable, ~blind PROVE Known'
    BY <1>1 DEF Known
  <2>2. \A o \in Driver : driver'[o].pc \notin {"succeeded", "failed"}
    BY <1>3, <1>5
  <2>3. CASE good
    BY <1>1, <1>2, <2>1, <2>2, <2>3 DEF JobInv, Known, JobTypeOK
  <2>4. CASE ~good
    <3>1. \A o \in Driver : driver[o].pc # "succeeded"
      BY <1>3, <2>4
    <3>2. imports.success # Never => record'.success >= imports.success
      BY <1>2, <2>1, <2>4, <3>1 DEF JobInv, Known
    <3>3. QED
      BY <1>1, <1>2, <2>2, <2>4, <3>2 DEF JobInv, Known
  <2>5. QED
    BY <2>3, <2>4
<1>9. \A o \in Driver : Decides(o)'
  BY <1>3, <1>5 DEF Decides, Deciding
<1>10. QED
  BY <1>1, <1>2, <1>7, <1>8, <1>9 DEF JobInv

LEMMA UnlinkInv ==
    ASSUME JobInv, NEW d \in Driver, UnlinkLock(d) PROVE JobInv'
<1>1. /\ driver[d].pc = "unlink" /\ driver' = [driver EXCEPT ![d] = NoDriver]
      /\ jobLock' = FALSE /\ UNCHANGED <<day, record, imports, blind>> /\ NoDriver.pc = "idle"
  BY DEF UnlinkLock, NoDriver
<1>2. \A o \in Driver \ {d} : driver[o].pc \in {"idle", "read", "create"}
  BY <1>1 DEF JobInv, JobTypeOK
<1>3. driver'[d] = NoDriver /\ \A o \in Driver \ {d} : driver'[o] = driver[o]
  BY <1>1 DEF JobInv, JobTypeOK
<1>4. driver' \in [Driver -> DriverType]
  BY <1>1, NoRecordType DEF JobInv, JobTypeOK, DriverType, RecordType
<1>5. JobTypeOK'
  BY <1>1, <1>2, <1>3, <1>4 DEF JobInv, JobTypeOK, DriverType, RecordType
<1>6. Known'
  BY <1>1, <1>2, <1>3 DEF JobInv, Known
<1>7. \A o \in Driver : Decides(o)'
  BY <1>1, <1>3 DEF JobInv, Decides, Deciding
<1>8. QED
  BY <1>1, <1>5, <1>6, <1>7 DEF JobInv

LEMMA JobStepInv == JobInv /\ [JobNext]_jobVars => JobInv'
<1> SUFFICES ASSUME JobInv, [JobNext]_jobVars PROVE JobInv'
  OBVIOUS
<1>1. CASE RemoveLock
  BY <1>1 DEF RemoveLock, JobInv, JobTypeOK, Known, Decides
<1>2. CASE DayPasses
  BY <1>2 DEF DayPasses, JobInv, JobTypeOK, Known, Decides
<1>3. CASE UNCHANGED jobVars
  BY <1>3 DEF jobVars, JobInv, JobTypeOK, Known, Decides
<1>4. QED
  BY <1>1, <1>2, <1>3, BeginInv, DecideInv, CreateLockInv, UnlinkInv, DriverDiesInv,
     EndImportInv, FinishInv DEF JobNext

-----------------------------------------------------------------------------
\* One import at a time, and only under the lock: for any number of batch files.
THEOREM ImportsOneAtATime == JobSpec => []JobTypeOK
<1>1. JobInv => JobTypeOK
  BY DEF JobInv
<1>2. QED
  BY <1>1, JobInitInv, JobStepInv, PTL DEF JobSpec

\* An import that nobody forced begins only when one is due by the imports that
\* really ended, unless a report was lost or came between read and lock.
THEOREM JobOnlyWhenDue == JobSpec => ImportsOnlyWhenDue
<1> DEFINE Due(d) ==
       (driver[d].pc = "create" /\ driver'[d].pc = "import"
             /\ ~driver[d].force /\ ~driver[d].late /\ ~blind) =>
          /\ imports.success # Never => driver[d].now >= imports.success + Interval
          /\ imports.failure > imports.success => driver[d].now - imports.failure >= Cooldown
<1>1. JobInv /\ [JobNext]_jobVars => [\A d \in Driver : Due(d)]_jobVars
  <2> SUFFICES ASSUME JobInv, JobNext, NEW d \in Driver,
                      driver[d].pc = "create", driver'[d].pc = "import",
                      ~driver[d].force, ~driver[d].late, ~blind
               PROVE  /\ imports.success # Never => driver[d].now >= imports.success + Interval
                      /\ imports.failure > imports.success =>
                            driver[d].now - imports.failure >= Cooldown
    OBVIOUS
  <2>1. ~jobLock
    <3>1. SUFFICES ASSUME jobLock PROVE FALSE
      OBVIOUS
    <3>2. \A o \in Driver : driver'[o].pc = "import" => driver[o].pc = "import"
      <4> SUFFICES ASSUME NEW o \in Driver, driver'[o].pc = "import" PROVE driver[o].pc = "import"
        OBVIOUS
      <4>1. CASE RemoveLock \/ DayPasses
        BY <4>1 DEF RemoveLock, DayPasses
      <4>2. ASSUME NEW e \in Driver,
                   BeginJob(e) \/ DecideJob(e) \/ CreateLock(e) \/ UnlinkLock(e) \/ DriverDies(e)
            PROVE  driver[o].pc = "import"
        <5>1. NoDriver.pc = "idle" /\ driver \in [Driver -> DriverType]
          BY DEF NoDriver, JobInv, JobTypeOK, DriverType, RecordType
        <5>2. CASE BeginJob(e)
          <6>1. PICK f \in BOOLEAN, r \in BOOLEAN :
                  driver' = [driver EXCEPT ![e] =
                    [NoDriver EXCEPT !.pc = "read", !.force = f, !.now = day,
                                     !.read = IF r THEN record ELSE NoRecord]]
            BY <5>2 DEF BeginJob
          <6> DEFINE x == [NoDriver EXCEPT !.pc = "read", !.force = f, !.now = day,
                                     !.read = IF r THEN record ELSE NoRecord]
          <6>2. x.pc = "read"
            BY DEF NoDriver
          <6>3. driver' = [driver EXCEPT ![e] = x]
            BY <6>1
          <6> HIDE DEF x
          <6>4. QED
            BY <5>1, <6>2, <6>3
        <5>3. CASE DecideJob(e)
          BY <5>1, <5>3 DEF DecideJob, DriverTo, DriverType
        <5>4. CASE CreateLock(e) \/ UnlinkLock(e) \/ DriverDies(e)
          <6>1. driver' = [driver EXCEPT ![e] = NoDriver]
            BY <3>1, <5>4 DEF CreateLock, UnlinkLock, DriverDies
          <6>2. QED
            BY <5>1, <6>1
        <5>5. QED
          BY <4>2, <5>2, <5>3, <5>4
      <4>3. ASSUME NEW e \in Driver, NEW good \in BOOLEAN, EndImport(e, good) \/ FinishJob(e, good)
            PROVE  driver[o].pc = "import"
        BY <4>3 DEF EndImport, FinishJob, DriverTo, JobInv, JobTypeOK
      <4>4. QED
        BY <4>1, <4>2, <4>3 DEF JobNext
    <3>3. QED
      BY <3>2
  <2>2. \A o \in Driver : driver[o].pc \in {"idle", "read", "create"}
    BY <2>1 DEF JobInv, JobTypeOK
  <2>3. driver[d].read = record /\ DueAfter(record, driver[d].now)
    BY DEF JobInv, Decides, Deciding
  <2>4. /\ imports.success # Never => record.success >= imports.success
        /\ imports.failure > imports.success => record.failed /\ record.attempt >= imports.failure
    BY <2>2 DEF JobInv, Known
  <2>5. /\ record.success \in JobTime /\ record.attempt \in JobTime /\ driver[d].now \in 0 .. MaxDay
        /\ imports.success \in JobTime /\ imports.failure \in JobTime
    BY DEF JobInv, JobTypeOK
  <2>6. QED
    BY <2>3, <2>4, <2>5 DEF DueAfter
<1>2. QED
  BY <1>1, JobInitInv, JobStepInv, PTL DEF JobSpec, ImportsOnlyWhenDue
=============================================================================
