----------------------------- MODULE Dispatcher -----------------------------
(***************************************************************************)
(* The notification dispatcher of strix-s3 (dispatcher.rs): S3 operations  *)
(* put events into a bounded channel without waiting; one background task  *)
(* takes them out, looks up the bucket's rules, posts to webhooks with     *)
(* retries, writes the delivery log and calls the failure alerter.         *)
(*                                                                         *)
(* An event is a model value whose type, bucket and key are given by Kind. *)
(* A rule's prefix and suffix filters are the set of keys they let pass.   *)
(***************************************************************************)
EXTENDS Naturals, FiniteSets, Sequences

CONSTANTS
    Events,            \* the events S3 operations emit in this instance
    Buckets, Keys,
    Kind,              \* event -> its type, bucket and key
    RuleIds,           \* ids of notification rules
    Configs,           \* rule lists clients may try to store for a bucket
    None,
    channel_capacity, max_retries,  \* DispatcherConfig
    Faults,            \* "log": a delivery record may fail to persist
    MaxCrashes         \* bound on the number of crashes

Created == {"ObjectCreatedPut", "ObjectCreatedPost", "ObjectCreatedCopy",
            "ObjectCreatedCompleteMultipartUpload"}
Removed == {"ObjectRemovedDelete", "ObjectRemovedDeleteMarkerCreated"}
EventTypes == Created \cup Removed \cup {"ObjectCreatedAll", "ObjectRemovedAll"}

Rule == [id : RuleIds, events : SUBSET EventTypes, keys : SUBSET Keys,
         destination : {"webhook", "other"}]

ASSUME DispatcherConstants ==
    /\ Kind \in [Events -> [type : Created \cup Removed, bucket : Buckets, key : Keys]]
    /\ Configs \subseteq Seq(Rule)
    /\ channel_capacity \in Nat \ {0} /\ max_retries \in Nat /\ MaxCrashes \in Nat
    /\ None \notin Events \cup Configs

VARIABLES
    configs,   \* bucket_notification: bucket -> list of rules, or None
    channel,   \* events sent and not yet received
    emitted,   \* events emitted so far
    task,      \* the dispatcher task: pc and local variables
    received,  \* how often an endpoint got an event: <<event, rule id>> -> Nat
    log,       \* notification_delivery
    alerted,   \* <<event, rule id>> handed to the DeliveryFailureAlerter
    crashes

vars == <<configs, channel, emitted, task, received, log, alerted, crashes>>

Waiting == [pc |-> "recv", event |-> None, rules |-> <<>>, attempt |-> 0,
            status |-> "none", code |-> None]

Statuses == {"none", "success", "failed", "unsupported"}

Task == [pc : {"recv", "load", "match", "post", "backoff", "record", "alert"},
         event : Events \cup {None}, rules : Seq(Rule), attempt : Nat,
         status : Statuses, code : {200, 500, None}]

Attempt == [event : Events, rule : RuleIds, status : Statuses \ {"none"},
            attempts : Nat, code : {200, 500, None}]

TypeOK ==
    /\ configs \in [Buckets -> Configs \cup {None}]
    /\ channel \in Seq(Events) /\ Len(channel) <= channel_capacity
    /\ emitted \subseteq Events
    /\ task \in Task
    /\ received \in [Events \X RuleIds -> Nat]
    /\ log \in Seq(Attempt)
    /\ alerted \subseteq Events \X RuleIds
    /\ crashes \in Nat

Init ==
    /\ configs = [b \in Buckets |-> None]
    /\ channel = <<>>
    /\ emitted = {}
    /\ task = Waiting
    /\ received = [p \in Events \X RuleIds |-> 0]
    /\ log = <<>>
    /\ alerted = {}
    /\ crashes = 0

-----------------------------------------------------------------------------
(* The rules of a bucket.                                                  *)

\* Mutant: rule ids are not checked.
AnyIds(rules) == TRUE

UniqueIds(rules) ==
    \A i, j \in DOMAIN rules : rules[i].id = rules[j].id => i = j

PutBucketNotification(b, rules) ==
    /\ UniqueIds(rules)
    /\ configs' = [configs EXCEPT ![b] = rules]
    /\ UNCHANGED <<channel, emitted, task, received, log, alerted, crashes>>

\* The row goes with its bucket.
DeleteBucket(b) ==
    /\ configs' = [configs EXCEPT ![b] = None]
    /\ UNCHANGED <<channel, emitted, task, received, log, alerted, crashes>>

-----------------------------------------------------------------------------
\* Mutant: the event is sent whatever the channel holds.
EmitUnbounded(e) ==
    /\ e \notin emitted
    /\ emitted' = emitted \cup {e}
    /\ channel' = Append(channel, e)
    /\ UNCHANGED <<configs, task, received, log, alerted, crashes>>

\* try_send: a full channel drops the event.
Emit(e) ==
    /\ e \notin emitted
    /\ emitted' = emitted \cup {e}
    /\ channel' = IF Len(channel) < channel_capacity THEN Append(channel, e) ELSE channel
    /\ UNCHANGED <<configs, task, received, log, alerted, crashes>>

EventMatches(re, type) ==
    \/ re = type
    \/ re = "ObjectCreatedAll" /\ type \in Created
    \/ re = "ObjectRemovedAll" /\ type \in Removed

MatchesRule(rule, e) ==
    /\ \E re \in rule.events : EventMatches(re, Kind[e].type)
    /\ Kind[e].key \in rule.keys

-----------------------------------------------------------------------------
(* The background task.                                                    *)

Recv ==
    /\ task.pc = "recv"
    /\ channel # <<>>
    /\ channel' = Tail(channel)
    /\ task' = [Waiting EXCEPT !.pc = "load", !.event = Head(channel)]
    /\ UNCHANGED <<configs, emitted, received, log, alerted, crashes>>

\* Mutant: the task waits for a configuration.
LoadRulesWait ==
    /\ task.pc = "load"
    /\ LET rules == configs[Kind[task.event].bucket] IN
        /\ rules # None
        /\ task' = [task EXCEPT !.pc = "match", !.rules = rules]
    /\ UNCHANGED <<configs, channel, emitted, received, log, alerted, crashes>>

\* No configuration, or an error because the bucket is gone: next event.
LoadRules ==
    /\ task.pc = "load"
    /\ LET rules == configs[Kind[task.event].bucket] IN
        task' = IF rules = None THEN Waiting
                ELSE [task EXCEPT !.pc = "match", !.rules = rules]
    /\ UNCHANGED <<configs, channel, emitted, received, log, alerted, crashes>>

NextRule == [Waiting EXCEPT !.pc = "match", !.event = task.event, !.rules = Tail(task.rules)]

MatchRule ==
    /\ task.pc = "match"
    /\ \/ task.rules = <<>> /\ task' = Waiting
       \/ /\ task.rules # <<>>
          /\ LET rule == Head(task.rules) IN
              \/ /\ ~MatchesRule(rule, task.event)
                 /\ task' = NextRule
              \/ /\ MatchesRule(rule, task.event)
                 /\ rule.destination = "webhook"
                 /\ task' = [task EXCEPT !.pc = "post"]
              \/ /\ MatchesRule(rule, task.event)
                 /\ rule.destination # "webhook"
                 /\ task' = [task EXCEPT !.pc = "record", !.status = "unsupported"]
    /\ UNCHANGED <<configs, channel, emitted, received, log, alerted, crashes>>

Delivery == <<task.event, Head(task.rules).id>>

Arrived == received' = [received EXCEPT ![Delivery] = @ + 1]

\* One answer of the endpoint, or none within delivery_timeout, in which case
\* the request may have arrived or not.
PostSucceeds ==
    /\ task.pc = "post"
    /\ Arrived
    /\ task' = [task EXCEPT !.pc = "record", !.status = "success", !.code = 200,
                            !.attempt = @ + 1]
    /\ UNCHANGED <<configs, channel, emitted, log, alerted, crashes>>

\* Mutant: one attempt too few.
PostFailedEarly(code) ==
    task' = [task EXCEPT !.pc = IF task.attempt + 1 < max_retries THEN "backoff" ELSE "record",
                         !.status = IF task.attempt + 1 < max_retries THEN "none" ELSE "failed",
                         !.attempt = @ + 1, !.code = code]

\* After the last attempt the delivery has failed; before it, a pause.
PostFailed(code) ==
    task' = [task EXCEPT !.pc = IF task.attempt < max_retries THEN "backoff" ELSE "record",
                         !.status = IF task.attempt < max_retries THEN "none" ELSE "failed",
                         !.attempt = @ + 1, !.code = code]

PostRejected ==
    /\ task.pc = "post"
    /\ Arrived
    /\ PostFailed(500)
    /\ UNCHANGED <<configs, channel, emitted, log, alerted, crashes>>

PostTimesOut ==
    /\ task.pc = "post"
    /\ Arrived \/ UNCHANGED received
    /\ PostFailed(task.code)
    /\ UNCHANGED <<configs, channel, emitted, log, alerted, crashes>>

Backoff ==
    /\ task.pc = "backoff"
    /\ task' = [task EXCEPT !.pc = "post"]
    /\ UNCHANGED <<configs, channel, emitted, received, log, alerted, crashes>>

Record == [event |-> task.event, rule |-> Head(task.rules).id, status |-> task.status,
           attempts |-> task.attempt, code |-> task.code]

\* Mutant: only failed webhooks are alerted, unsupported destinations are not.
AfterRecordFailedOnly ==
    task' = IF task.status # "failed" THEN NextRule ELSE [task EXCEPT !.pc = "alert"]

AfterRecord ==
    task' = IF task.status = "success" THEN NextRule ELSE [task EXCEPT !.pc = "alert"]

\* log_notification_delivery
LogDelivery ==
    /\ task.pc = "record"
    /\ log' = Append(log, Record)
    /\ AfterRecord
    /\ UNCHANGED <<configs, channel, emitted, received, alerted, crashes>>

LogFails ==
    /\ "log" \in Faults
    /\ task.pc = "record"
    /\ AfterRecord
    /\ UNCHANGED <<configs, channel, emitted, received, log, alerted, crashes>>

Alert ==
    /\ task.pc = "alert"
    /\ alerted' = alerted \cup {Delivery}
    /\ task' = NextRule
    /\ UNCHANGED <<configs, channel, emitted, received, log, crashes>>

\* The channel and the task live in memory; the tables survive.
Crash ==
    /\ crashes < MaxCrashes
    /\ crashes' = crashes + 1
    /\ channel' = <<>>
    /\ task' = Waiting
    /\ UNCHANGED <<configs, emitted, received, log, alerted>>

-----------------------------------------------------------------------------
Dispatch ==
    \/ Recv \/ LoadRules \/ MatchRule
    \/ PostSucceeds \/ PostRejected \/ PostTimesOut \/ Backoff
    \/ LogDelivery \/ LogFails \/ Alert

Next ==
    \/ \E b \in Buckets :
        DeleteBucket(b) \/ \E rules \in Configs : PutBucketNotification(b, rules)
    \/ \E e \in Events : Emit(e)
    \/ Dispatch
    \/ Crash

Spec == Init /\ [][Next]_vars

\* The spawned task is scheduled whenever it can go on; every post ends by
\* an answer or by delivery_timeout.
FairSpec == Spec /\ WF_vars(Dispatch)

-----------------------------------------------------------------------------
(* Properties.                                                             *)

\* An event has at most one record per rule, whatever is changed in the
\* configuration while it is delivered: the rules are a snapshot with unique
\* ids and an event is received once.
OneRecordPerRule ==
    \A i, j \in DOMAIN log :
        log[i].event = log[j].event /\ log[i].rule = log[j].rule => i = j

\* The log tells what the endpoints saw: a success arrived, no event arrived
\* more often than its record admits, a failure used up every retry, and an
\* unsupported destination got nothing.
LogIsTruthful ==
    \A i \in DOMAIN log :
        LET a == log[i]
            n == received[<<a.event, a.rule>>]
        IN  /\ n <= a.attempts
            /\ a.status = "success" => n >= 1 /\ a.code = 200
            /\ a.status = "failed" => a.attempts = max_retries + 1
            /\ a.status = "unsupported" => n = 0

\* Every event the channel accepted is dealt with, however its endpoints and
\* those of the events before it behave, unless the process dies.
AcceptedIsHandled ==
    \A e \in Events :
        (\E i \in DOMAIN channel : channel[i] = e)
            ~> (task.event # e /\ \A i \in DOMAIN channel : channel[i] # e)

\* A recorded delivery that did not succeed and is not alerted yet.
AlertPending ==
    \E i \in DOMAIN log :
        log[i].status # "success" /\ <<log[i].event, log[i].rule>> \notin alerted

\* Such a delivery reaches the alerter, unless the process dies in between.
FailuresAlerted == AlertPending ~> (~AlertPending \/ crashes > 0)
=============================================================================
