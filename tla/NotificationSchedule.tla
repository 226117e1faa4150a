-------------------------- MODULE NotificationSchedule --------------------------
(***************************************************************************)
(* The notification scheduler: pollers (the loop of scheduler_runner, and  *)
(* whatever else is started with --once) look every 30 seconds for jobs    *)
(* that are due in the current minute, claim a slot in the run log, save   *)
(* the notification in the history, send it to the phone through the       *)
(* gateway, record the delivery and finish the slot.                       *)
(*                                                                         *)
(* Time is a count of half minutes; a day has Day minutes.  The settings   *)
(* of a user stay as they are; weekdays_only and the hours of              *)
(* favorite_move are part of DueAt.  The default user has no jobs.         *)
(***************************************************************************)
EXTENDS Integers, FiniteSets

CONSTANTS
    Poller,      \* scheduler processes
    User,        \* users that are not the default user
    Job,         \* SCHEDULED_JOBS
    DueAt,       \* the local minutes of the day each job is due
    Severity,    \* rank of the default severity of each job's template
    Day,         \* minutes in a day
    UtcOffset,   \* local time is so many minutes ahead of UTC
    QuietStart, QuietEnd, \* quiet hours, as local minutes of the day
    MaxClock     \* bound of time

ASSUME MaxClockAssumption == MaxClock \in Nat

NotifySetting ==
    [enabled : BOOLEAN,   \* schedule enabled
     app     : BOOLEAN,   \* app_enabled, and the job's category is
     ntfy    : BOOLEAN,   \* ntfy_enabled, and a topic is set
     threshold : {2, 4},  \* severity_threshold: medium or critical
     quiet   : BOOLEAN]   \* quiet_hours_enabled

VARIABLES
    clock,      \* half minutes since the start
    setting,    \* schedule and delivery settings of each user
    runLog,     \* notification_run_logs: the status of each slot
    notified,   \* app_notifications: events saved in the history
    deliveries, \* delivery_results with status sent
    poller,     \* the locals of each poller
    phone,      \* history: messages each event has brought to the phone
    abandoned,  \* history: events a poller was working on when it died
    served      \* history: minutes for which a poll has been carried out

notifyFiles   == <<runLog, notified, deliveries>>
notifyHistory == <<phone, abandoned, served>>
notifyVars    == <<clock, setting, notifyFiles, poller, notifyHistory>>

Minute(t)   == t \div 2
Local(t)    == (Minute(t) + UtcOffset) % Day
Utc(t)      == Minute(t) % Day
Minutes     == 0..Minute(MaxClock)
Event       == Job \X User \X Nat
NoEvent     == <<>>

NotifyTypeOK ==
    /\ clock \in 0..MaxClock
    /\ setting \in [User -> NotifySetting]
    /\ DOMAIN runLog \subseteq Event
    /\ \A e \in DOMAIN runLog : runLog[e] \in {"running", "created", "skipped", "failed"}
    /\ notified \subseteq DOMAIN runLog
    /\ deliveries \subseteq notified
    /\ \A p \in Poller :
         /\ poller[p].pc \in {"idle", "dead", "poll", "produce", "save", "send",
                              "record", "finish"}
         /\ poller[p].event \in DOMAIN runLog \cup {NoEvent}
         /\ poller[p].todo \subseteq Job \X User
    /\ phone \in [Job \X User \X Minutes -> 0..Cardinality(Poller)]
    /\ abandoned \subseteq DOMAIN runLog
    /\ served \subseteq Minutes

Idle(t) == [pc |-> "idle", time |-> t, todo |-> {}, event |-> NoEvent, status |-> "none"]

NotifyInit ==
    /\ clock = 0
    /\ setting \in [User -> NotifySetting]
    /\ runLog = <<>>
    /\ notified = {}
    /\ deliveries = {}
    /\ poller = [p \in Poller |-> Idle(-1)]
    /\ phone = [e \in Job \X User \X Minutes |-> 0]
    /\ abandoned = {}
    /\ served = {}

-----------------------------------------------------------------------------
\* Fault: every poll has a slot of its own.
SlotPerPoll(t) == t

\* The slot of a poll, and the dedupe key of its events: the minute.
Slot(t) == Minute(t)

\* is_quiet_time
IsQuiet(minute) ==
    CASE QuietStart = QuietEnd -> TRUE
      [] QuietStart < QuietEnd -> QuietStart <= minute /\ minute < QuietEnd
      [] OTHER                 -> minute >= QuietStart \/ minute < QuietEnd

\* evaluate_ntfy_delivery, with the clock of the dispatcher.
MaySend(s, job, t) ==
    /\ s.ntfy
    /\ Severity[job] # 0
    /\ Severity[job] >= s.threshold
    /\ ~(s.quiet /\ IsQuiet(Utc(t)))

Step(p, pc) == poller' = [poller EXCEPT ![p].pc = pc]
Answer(p, status) ==
    poller' = [poller EXCEPT ![p].pc = "finish", ![p].status = status]

\* run_due: the time is taken once, then users and jobs are visited.
Poll(p) ==
    /\ poller[p].pc = "idle"
    /\ poller[p].time < clock
    /\ poller' = [poller EXCEPT
         ![p] = [Idle(clock) EXCEPT !.pc = "poll",
           !.todo = {w \in Job \X User :
                        setting[w[2]].enabled /\ Local(clock) \in DueAt[w[1]]}]]
    /\ UNCHANGED <<clock, setting, notifyFiles, notifyHistory>>

\* claim: the primary key lets one poller through.
Claim(p) ==
    /\ poller[p].pc = "poll"
    /\ \E w \in poller[p].todo :
         LET e    == <<w[1], w[2], Slot(poller[p].time)>>
             mine == e \notin DOMAIN runLog
         IN  /\ runLog' = IF mine THEN [f \in DOMAIN runLog \cup {e} |->
                                          IF f = e THEN "running" ELSE runLog[f]]
                          ELSE runLog
             /\ poller' = [poller EXCEPT ![p].todo = @ \ {w},
                             ![p].event = IF mine THEN e ELSE NoEvent,
                             ![p].pc = IF mine THEN "produce" ELSE "poll"]
    /\ UNCHANGED <<clock, setting, notified, deliveries, notifyHistory>>

\* CatalogNotificationProducer.produce up to the look into the history; it may
\* raise.
Produce(p) ==
    /\ poller[p].pc = "produce"
    /\ \/ Answer(p, "failed")
       \/ IF setting[poller[p].event[2]].app /\ poller[p].event \notin notified
          THEN Step(p, "save") ELSE Answer(p, "skipped")
    /\ UNCHANGED <<clock, setting, notifyFiles, notifyHistory>>

\* NotificationHistoryRepository.save: INSERT OR IGNORE, which may raise; only
\* what has been inserted is sent, and only if there is a client.
SaveEvent(p) ==
    /\ poller[p].pc = "save"
    /\ LET e == poller[p].event
       IN  \/ Answer(p, "failed") /\ UNCHANGED notified
           \/ /\ notified' = notified \cup {e}
              /\ IF e \notin notified /\ setting[e[2]].ntfy
                 THEN Step(p, "send") ELSE Answer(p, "created")
    /\ UNCHANGED <<clock, setting, runLog, deliveries, notifyHistory>>

\* The gateway decides and posts; a timeout may come before or after the
\* phone has the message.
Send(p) ==
    /\ poller[p].pc = "send"
    /\ LET e == poller[p].event
       IN  IF MaySend(setting[e[2]], e[1], clock)
           THEN \/ /\ phone' = [phone EXCEPT ![<<e[1], e[2], Minute(poller[p].time)>>] = @ + 1]
                   /\ Step(p, "record") \/ Answer(p, "created")
                \/ Answer(p, "created") /\ UNCHANGED phone
           ELSE Answer(p, "created") /\ UNCHANGED phone
    /\ UNCHANGED <<clock, setting, notifyFiles, abandoned, served>>

\* Fault: an error while the delivery is recorded fails the job.
RecordDeliveryOrFail(p) ==
    /\ poller[p].pc = "record"
    /\ \/ deliveries' = deliveries \cup {poller[p].event} /\ Answer(p, "created")
       \/ UNCHANGED deliveries /\ Answer(p, "failed")
    /\ UNCHANGED <<clock, setting, runLog, notified, notifyHistory>>

\* save_delivery of a message that was sent; its errors are swallowed.
RecordDelivery(p) ==
    /\ poller[p].pc = "record"
    /\ deliveries' \in {deliveries, deliveries \cup {poller[p].event}}
    /\ Answer(p, "created")
    /\ UNCHANGED <<clock, setting, runLog, notified, notifyHistory>>

\* finish
Finish(p) ==
    /\ poller[p].pc = "finish"
    /\ runLog' = [runLog EXCEPT ![poller[p].event] = poller[p].status]
    /\ poller' = [poller EXCEPT ![p].pc = "poll", ![p].event = NoEvent, ![p].status = "none"]
    /\ UNCHANGED <<clock, setting, notified, deliveries, notifyHistory>>

\* The poll is over when no user and no job is left.
EndPoll(p) ==
    /\ poller[p].pc = "poll"
    /\ poller[p].todo = {}
    /\ poller' = [poller EXCEPT ![p] = Idle(@.time)]
    /\ served' = served \cup {Minute(poller[p].time)}
    /\ UNCHANGED <<clock, setting, notifyFiles, phone, abandoned>>

\* The process dies, or an error of the database outside the job ends it; it
\* is started again.
PollerDies(p) ==
    /\ poller[p].pc # "dead"
    /\ abandoned' = abandoned \cup ({poller[p].event} \ {NoEvent})
    /\ poller' = [poller EXCEPT ![p] = [Idle(@.time) EXCEPT !.pc = "dead"]]
    /\ UNCHANGED <<clock, setting, notifyFiles, phone, served>>

PollerRestarts(p) ==
    /\ poller[p].pc = "dead"
    /\ Step(p, "idle")
    /\ UNCHANGED <<clock, setting, notifyFiles, notifyHistory>>

\* Half a minute passes; whoever is idle has polled in it.
HalfMinute ==
    /\ clock < MaxClock
    /\ \A p \in Poller : poller[p].pc = "idle" => poller[p].time = clock
    /\ clock' = clock + 1
    /\ UNCHANGED <<setting, notifyFiles, poller, notifyHistory>>

PollerStep(p) == \/ Poll(p) \/ Claim(p) \/ Produce(p) \/ SaveEvent(p) \/ Send(p)
                 \/ RecordDelivery(p) \/ Finish(p) \/ EndPoll(p)

NotifyNext ==
    \/ \E p \in Poller : PollerStep(p) \/ PollerDies(p) \/ PollerRestarts(p)
    \/ HalfMinute

NotifySpec == NotifyInit /\ [][NotifyNext]_notifyVars

-----------------------------------------------------------------------------
(* Properties.                                                             *)

\* Whatever pollers overlap, die and start again, a report reaches the phone
\* at most once for its minute.
AtMostOnce == \A e \in DOMAIN phone : phone[e] <= 1

\* The run log tells the truth.  Every due job of a minute that was polled to
\* the end is in it, and only one that some poller is at, or died at, has no
\* outcome; a created report is in the history and a failed one is not; and a
\* delivery recorded as sent has reached the phone.
RunLogTrue ==
    /\ \A m \in served, j \in Job, u \in User :
          setting[u].enabled /\ (m + UtcOffset) % Day \in DueAt[j] =>
              <<j, u, m>> \in DOMAIN runLog
    /\ \A e \in DOMAIN runLog :
          CASE runLog[e] = "created" -> e \in notified
            [] runLog[e] = "failed"  -> e \notin notified
            [] runLog[e] = "running" -> \/ e \in abandoned
                                        \/ \E p \in Poller : poller[p].event = e
            [] OTHER                 -> TRUE
    /\ \A e \in deliveries : phone[e] > 0

\* No message reaches the phone in the quiet hours of the user it is for.
QuietRespected ==
    [][\A e \in DOMAIN phone : phone'[e] # phone[e] =>
          ~(setting[e[2]].quiet /\ IsQuiet(Local(clock)))]_notifyVars
==============================================================================
