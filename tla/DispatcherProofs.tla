-------------------------- MODULE DispatcherProofs --------------------------
(***************************************************************************)
(* Theorems about Dispatcher for every value of its constants: any events, *)
(* buckets, rule lists, channel capacity and retry limit.                  *)
(*                                                                         *)
(* The argument: an event lies in at most one place, before the channel,   *)
(* in the channel or in the task.  Until the task takes it nothing was     *)
(* posted or logged for it, and the task walks down a snapshot of rules    *)
(* with distinct ids, so nothing was logged for the rules it still holds.  *)
(***************************************************************************)
EXTENDS Dispatcher, TLAPS

InChannel(e) == \E i \in 1..Len(channel) : channel[i] = e

Logged(e, id) == \E i \in 1..Len(log) : log[i].event = e /\ log[i].rule = id

\* The task has not looked at any rule of the event.
Fresh(e) == e \notin emitted \/ InChannel(e) \/ (task.pc = "load" /\ task.event = e)

\* An event is at most once in the channel, and was emitted.
ChannelInv ==
    /\ \A i, j \in 1..Len(channel) : channel[i] = channel[j] => i = j
    /\ \A i \in 1..Len(channel) : channel[i] \in emitted /\ channel[i] # task.event

\* Nothing happened for an event that the task did not start on.
FreshInv ==
    \A e \in Events, id \in RuleIds :
        Fresh(e) => ~Logged(e, id) /\ received[<<e, id>>] = 0

ConfigInv == \A b \in Buckets : configs[b] # None => UniqueIds(configs[b])

\* The rules the task still holds have no record; those after the first got
\* nothing, nor did the first before it is matched.
RulesInv ==
    /\ UniqueIds(task.rules)
    /\ \A i \in 1..Len(task.rules) :
        /\ i > 1 \/ task.pc # "alert" => ~Logged(task.event, task.rules[i].id)
        /\ i > 1 \/ task.pc = "match" => received[<<task.event, task.rules[i].id>>] = 0

\* What the local variables of the task say at each of its steps.
TaskInv ==
    /\ task.pc = "recv" => task.event = None /\ task.rules = <<>>
    /\ task.pc # "recv" => task.event \in emitted
    /\ task.pc \in {"recv", "load", "match"} => task.attempt = 0 /\ task.status = "none"
    /\ task.pc = "load" => task.rules = <<>>
    /\ task.pc \in {"post", "backoff", "record", "alert"} => task.rules # <<>>
    /\ task.pc \in {"post", "backoff"} => task.attempt <= max_retries
    /\ task.pc \in {"post", "backoff", "record"} => received[Delivery] <= task.attempt
    /\ task.pc = "record" =>
        /\ task.status # "none"
        /\ task.status = "success" => received[Delivery] >= 1 /\ task.code = 200
        /\ task.status = "failed" => task.attempt = max_retries + 1
        /\ task.status = "unsupported" => received[Delivery] = 0

IInv ==
    /\ TypeOK /\ ChannelInv /\ FreshInv /\ ConfigInv /\ RulesInv /\ TaskInv
    /\ OneRecordPerRule /\ LogIsTruthful

-----------------------------------------------------------------------------
(* Facts about sequences.                                                  *)

\* What Append leaves at each place.
LEMMA AppendFacts ==
    ASSUME NEW S, NEW s \in Seq(S), NEW x \in S
    PROVE  /\ Append(s, x) \in Seq(S) /\ Len(Append(s, x)) = Len(s) + 1
           /\ \A i \in 1..Len(s) : Append(s, x)[i] = s[i]
           /\ Append(s, x)[Len(s) + 1] = x
    OBVIOUS

\* What Head and Tail return.
LEMMA TailFacts ==
    ASSUME NEW S, NEW s \in Seq(S), s # <<>>
    PROVE  /\ Len(s) \in Nat /\ Len(s) > 0
           /\ Head(s) = s[1] /\ Head(s) \in S
           /\ Tail(s) \in Seq(S) /\ Len(Tail(s)) = Len(s) - 1
           /\ \A i \in 1..Len(Tail(s)) : Tail(s)[i] = s[i + 1]
    OBVIOUS

\* The domain of a sequence, as the invariants index it.
LEMMA DomainOfSeq ==
    ASSUME NEW S, NEW s \in Seq(S)
    PROVE  DOMAIN s = 1..Len(s) /\ Len(s) \in Nat
    OBVIOUS

\* A list without repeated rule ids has none in its tail.
LEMMA UniqueTail ==
    ASSUME NEW s \in Seq(Rule), s # <<>>, UniqueIds(s)
    PROVE  UniqueIds(Tail(s))
<1>1. /\ Tail(s) \in Seq(Rule) /\ Len(s) \in Nat /\ Len(Tail(s)) = Len(s) - 1
      /\ \A i \in 1..Len(Tail(s)) : Tail(s)[i] = s[i + 1]
    BY TailFacts
<1>2. DOMAIN s = 1..Len(s) /\ DOMAIN Tail(s) = 1..Len(Tail(s))
    BY <1>1, DomainOfSeq
<1> QED
    BY <1>1, <1>2 DEF UniqueIds

-----------------------------------------------------------------------------
(* The initial state and the steps that touch no delivery.                 *)

\* A task at rest is a task.
LEMMA WaitingType == Waiting \in Task
    BY DEF Waiting, Task, Statuses

\* The updates of a task that the dispatcher makes.
LEMMA TaskType ==
    ASSUME NEW t \in Task
    PROVE  /\ \A rules \in Seq(Rule) : [t EXCEPT !.pc = "match", !.rules = rules] \in Task
           /\ \A e \in Events : [t EXCEPT !.pc = "load", !.event = e] \in Task
           /\ [t EXCEPT !.pc = "post"] \in Task
           /\ [t EXCEPT !.pc = "record", !.status = "unsupported"] \in Task
<1>1. \A rules \in Seq(Rule) : [t EXCEPT !.pc = "match", !.rules = rules] \in Task
    BY Zenon DEF Task
<1>2. [t EXCEPT !.pc = "post"] \in Task
    BY DEF Task
<1>3. [t EXCEPT !.pc = "record", !.status = "unsupported"] \in Task
    BY Zenon DEF Task, Statuses
<1>4. \A e \in Events : [t EXCEPT !.pc = "load", !.event = e] \in Task
    BY Zenon DEF Task
<1> QED
    BY <1>1, <1>2, <1>3, <1>4

\* The dispatcher starts with nothing emitted.
LEMMA InitInv == Init => IInv
<1> SUFFICES ASSUME Init PROVE IInv
    OBVIOUS
<1>1. TypeOK
    BY WaitingType, DispatcherConstants DEF Init, TypeOK
<1>2. ChannelInv /\ ConfigInv /\ OneRecordPerRule /\ LogIsTruthful
    BY DEF Init, ChannelInv, ConfigInv, OneRecordPerRule, LogIsTruthful
<1>3. FreshInv
    BY DEF Init, FreshInv, Logged
<1>4. RulesInv /\ TaskInv
    BY DEF Init, RulesInv, TaskInv, Waiting, UniqueIds, Logged
<1> QED
    BY <1>1, <1>2, <1>3, <1>4 DEF IInv

\* A step that only changes the stored rules.
LEMMA ConfigStep ==
    ASSUME IInv, configs' \in [Buckets -> Configs \cup {None}], ConfigInv',
           UNCHANGED <<channel, emitted, task, received, log, alerted, crashes>>
    PROVE  IInv'
<1>1. TypeOK' /\ ChannelInv'
    BY DEF IInv, TypeOK, ChannelInv
<1>2. FreshInv'
    BY DEF IInv, FreshInv, Fresh, InChannel, Logged
<1>3. RulesInv' /\ TaskInv'
    BY DEF IInv, RulesInv, TaskInv, Logged, Delivery, UniqueIds
<1>4. OneRecordPerRule' /\ LogIsTruthful'
    BY DEF IInv, OneRecordPerRule, LogIsTruthful
<1> QED
    BY <1>1, <1>2, <1>3, <1>4 DEF IInv

\* Rules are stored only with unique ids, and go with the bucket.
LEMMA PutBucketNotificationInv ==
    ASSUME IInv, NEW b \in Buckets, NEW rules \in Configs, PutBucketNotification(b, rules)
    PROVE  IInv'
<1>1. configs \in [Buckets -> Configs \cup {None}] /\ ConfigInv
    BY DEF IInv, TypeOK
<1>2. configs' \in [Buckets -> Configs \cup {None}] /\ ConfigInv'
    BY <1>1 DEF PutBucketNotification, ConfigInv
<1> QED
    BY <1>2, ConfigStep DEF PutBucketNotification

\* Deleting a bucket's row.
LEMMA DeleteBucketInv ==
    ASSUME IInv, NEW b \in Buckets, DeleteBucket(b)
    PROVE  IInv'
<1>1. configs \in [Buckets -> Configs \cup {None}] /\ ConfigInv
    BY DEF IInv, TypeOK
<1>2. configs' \in [Buckets -> Configs \cup {None}] /\ ConfigInv'
    BY <1>1 DEF DeleteBucket, ConfigInv
<1> QED
    BY <1>2, ConfigStep DEF DeleteBucket

\* A new event goes to the end of the channel or is dropped.
LEMMA EmitInv ==
    ASSUME IInv, NEW e \in Events, Emit(e)
    PROVE  IInv'
<1>1. /\ e \notin emitted /\ emitted' = emitted \cup {e}
      /\ UNCHANGED <<configs, task, received, log, alerted, crashes>>
    BY DEF Emit
<1>2. /\ channel \in Seq(Events) /\ Len(channel) \in Nat /\ Len(channel) <= channel_capacity
      /\ channel_capacity \in Nat
    BY DispatcherConstants DEF IInv, TypeOK
<1>3. \/ channel' = channel
      \/ Len(channel) < channel_capacity /\ channel' = Append(channel, e)
    BY DEF Emit
<1>4. /\ channel' \in Seq(Events) /\ Len(channel') <= channel_capacity
      /\ Len(channel') \in Nat /\ Len(channel') >= Len(channel)
      /\ \A i \in 1..Len(channel) : channel'[i] = channel[i]
      /\ \A i \in 1..Len(channel') : i <= Len(channel) \/ channel'[i] = e
      /\ Len(channel') <= Len(channel) + 1
    BY <1>2, <1>3, AppendFacts
<1>5. TypeOK'
    BY <1>1, <1>4 DEF IInv, TypeOK
<1>6. ChannelInv'
  <2>1. \A i \in 1..Len(channel') : channel'[i] \in emitted' /\ channel'[i] # task'.event
    BY <1>1, <1>2, <1>4, DispatcherConstants DEF IInv, ChannelInv, TaskInv
  <2>2. \A i, j \in 1..Len(channel') : channel'[i] = channel'[j] => i = j
    BY <1>1, <1>2, <1>4 DEF IInv, ChannelInv
  <2> QED
    BY <2>1, <2>2 DEF ChannelInv
<1>7. \A d \in Events : Fresh(d)' => Fresh(d)
  <2> SUFFICES ASSUME NEW d \in Events, Fresh(d)' PROVE Fresh(d)
    OBVIOUS
  <2>1. CASE d \notin emitted' \/ (task'.pc = "load" /\ task'.event = d)
    BY <1>1, <2>1 DEF Fresh
  <2>2. CASE \E i \in 1..Len(channel') : channel'[i] = d
    BY <1>1, <1>2, <1>4, <2>2 DEF Fresh, InChannel
  <2> QED
    BY <2>1, <2>2 DEF Fresh, InChannel
<1>8. FreshInv'
    BY <1>1, <1>7 DEF IInv, FreshInv, Logged
<1>9. RulesInv' /\ TaskInv'
    BY <1>1 DEF IInv, RulesInv, TaskInv, Logged, Delivery, UniqueIds
<1>10. ConfigInv' /\ OneRecordPerRule' /\ LogIsTruthful'
    BY <1>1 DEF IInv, ConfigInv, OneRecordPerRule, LogIsTruthful, UniqueIds
<1> QED
    BY <1>5, <1>6, <1>8, <1>9, <1>10 DEF IInv

\* A crash forgets the channel and the task.
LEMMA CrashInv ==
    ASSUME IInv, Crash
    PROVE  IInv'
<1>1. /\ channel' = <<>> /\ task' = Waiting /\ crashes' = crashes + 1
      /\ UNCHANGED <<configs, emitted, received, log, alerted>>
    BY DEF Crash
<1>2. TypeOK'
    BY <1>1, WaitingType, DispatcherConstants DEF IInv, TypeOK
<1>3. ChannelInv' /\ ConfigInv' /\ OneRecordPerRule' /\ LogIsTruthful'
    BY <1>1 DEF IInv, ChannelInv, ConfigInv, UniqueIds, OneRecordPerRule, LogIsTruthful
<1>4. FreshInv'
    BY <1>1 DEF IInv, FreshInv, Fresh, InChannel, Waiting, Logged
<1>5. RulesInv' /\ TaskInv'
    BY <1>1 DEF RulesInv, TaskInv, Waiting, UniqueIds
<1> QED
    BY <1>2, <1>3, <1>4, <1>5 DEF IInv

-----------------------------------------------------------------------------
(* The steps of the background task.                                       *)

\* A step of the task that neither posts nor logs.
LEMMA TaskStep ==
    ASSUME IInv, task' \in Task, RulesInv', TaskInv', alerted' \subseteq Events \X RuleIds,
           UNCHANGED <<configs, channel, emitted, received, log, crashes>>,
           task'.event \in {task.event, None},
           task'.pc = "load" => task.pc = "load"
    PROVE  IInv'
<1>1. TypeOK' /\ ConfigInv'
    BY DEF IInv, TypeOK, ConfigInv, UniqueIds
<1>2. ChannelInv'
    BY DispatcherConstants DEF IInv, ChannelInv, TypeOK
<1>3. \A e \in Events : Fresh(e)' => Fresh(e)
    BY DispatcherConstants DEF Fresh, InChannel
<1>4. FreshInv'
    BY <1>3 DEF IInv, FreshInv, Logged
<1>5. OneRecordPerRule' /\ LogIsTruthful'
    BY DEF IInv, OneRecordPerRule, LogIsTruthful
<1> QED
    BY <1>1, <1>2, <1>4, <1>5 DEF IInv

\* The loop goes on to the next event.
LEMMA WaitingInv ==
    ASSUME IInv, task' = Waiting,
           UNCHANGED <<configs, channel, emitted, received, log, alerted, crashes>>
    PROVE  IInv'
<1>1. RulesInv' /\ TaskInv'
    BY DEF RulesInv, TaskInv, Waiting, UniqueIds
<1>2. task' \in Task /\ task'.event = None /\ task'.pc # "load"
    BY WaitingType DEF Waiting
<1> QED
    BY <1>1, <1>2, TaskStep DEF IInv, TypeOK

\* The loop goes on to the next rule.
LEMMA NextRuleInv ==
    ASSUME IInv, task.rules # <<>>, task.pc # "load", task' = NextRule,
           alerted' \subseteq Events \X RuleIds,
           UNCHANGED <<configs, channel, emitted, received, log, crashes>>
    PROVE  IInv'
<1>1. task.rules \in Seq(Rule) /\ task.event \in Events \cup {None}
    BY DEF IInv, TypeOK, Task
<1>2. /\ Tail(task.rules) \in Seq(Rule) /\ Len(task.rules) \in Nat /\ Len(task.rules) > 0
      /\ Len(Tail(task.rules)) = Len(task.rules) - 1
      /\ \A i \in 1..Len(Tail(task.rules)) : Tail(task.rules)[i] = task.rules[i + 1]
    BY <1>1, TailFacts
<1>3. /\ task'.rules = Tail(task.rules) /\ task'.event = task.event /\ task'.pc = "match"
      /\ task'.attempt = 0 /\ task'.status = "none" /\ task' \in Task
    BY <1>1, <1>2 DEF NextRule, Waiting, Task, Statuses
<1>4. UniqueIds(task'.rules)
    BY <1>1, <1>3, UniqueTail DEF IInv, RulesInv
<1>5. ASSUME NEW i \in 1..Len(task'.rules)
      PROVE  /\ ~Logged(task.event, task'.rules[i].id)
             /\ received[<<task.event, task'.rules[i].id>>] = 0
  <2>1. i + 1 \in 1..Len(task.rules) /\ i + 1 > 1 /\ task'.rules[i] = task.rules[i + 1]
    BY <1>2, <1>3
  <2> QED
    BY <2>1 DEF IInv, RulesInv
<1>6. RulesInv'
    BY <1>3, <1>4, <1>5 DEF RulesInv, Logged
<1>7. TaskInv'
    BY <1>3 DEF IInv, TaskInv
<1> QED
    BY <1>3, <1>6, <1>7, TaskStep DEF IInv, TypeOK

\* The rules are read once; they have distinct ids and nothing was logged.
LEMMA LoadRulesInv ==
    ASSUME IInv, LoadRules
    PROVE  IInv'
<1> DEFINE rules == configs[Kind[task.event].bucket]
<1>1. CASE rules = None
    BY <1>1, WaitingInv DEF LoadRules
<1>2. CASE rules # None
  <2>1. /\ task.pc = "load" /\ task' = [task EXCEPT !.pc = "match", !.rules = rules]
        /\ UNCHANGED <<configs, channel, emitted, received, log, alerted, crashes>>
    BY <1>2 DEF LoadRules
  <2>2. task \in Task /\ task.event \in Events /\ task.attempt = 0 /\ task.status = "none"
    BY <2>1 DEF IInv, TypeOK, TaskInv
  <2>3. Kind[task.event].bucket \in Buckets
    BY <2>2, DispatcherConstants
  <2>4. rules \in Configs /\ rules \in Seq(Rule) /\ UniqueIds(rules)
    BY <1>2, <2>3, DispatcherConstants DEF IInv, TypeOK, ConfigInv
  <2> HIDE DEF rules
  <2>5. /\ task' \in Task /\ task'.pc = "match" /\ task'.rules = rules
        /\ task'.event = task.event /\ task'.attempt = 0 /\ task'.status = "none"
    <3>1. task' \in Task
      BY <2>1, <2>2, <2>4, TaskType
    <3> QED
      BY <2>1, <2>2, <3>1 DEF Task
  <2>6. ASSUME NEW i \in 1..Len(rules)
        PROVE  ~Logged(task.event, rules[i].id) /\ received[<<task.event, rules[i].id>>] = 0
    <3>1. rules[i] \in Rule
      BY <2>4
    <3>2. rules[i].id \in RuleIds
      BY <3>1 DEF Rule
    <3> QED
      BY <2>1, <2>2, <3>2 DEF IInv, FreshInv, Fresh
  <2>7. RulesInv'
    BY <2>1, <2>4, <2>5, <2>6 DEF RulesInv, Logged
  <2>8. TaskInv'
    BY <2>1, <2>5 DEF IInv, TaskInv
  <2> QED
    BY <2>1, <2>5, <2>7, <2>8, TaskStep DEF IInv, TypeOK
<1> QED
    BY <1>1, <1>2

\* A step that leaves the rules alone and does not leave the current one.
LEMMA SameRules ==
    ASSUME IInv, task.pc # "alert", UNCHANGED <<received, log>>,
           task'.rules = task.rules, task'.event = task.event,
           task'.pc = "match" => task.pc = "match"
    PROVE  RulesInv'
    BY DEF IInv, RulesInv, Logged, UniqueIds

\* A rule is skipped, posted or recorded as unsupported.
LEMMA MatchRuleInv ==
    ASSUME IInv, MatchRule
    PROVE  IInv'
<1>1. task.pc = "match" /\ UNCHANGED <<configs, channel, emitted, received, log, alerted, crashes>>
    BY DEF MatchRule
<1>2. task \in Task /\ task.attempt = 0 /\ task.status = "none" /\ task.event \in emitted
    BY <1>1 DEF IInv, TypeOK, TaskInv
<1>3. CASE task' = Waiting
    BY <1>1, <1>3, WaitingInv
<1>4. CASE task.rules # <<>> /\ task' = NextRule
    BY <1>1, <1>4, NextRuleInv DEF IInv, TypeOK
<1>5. ASSUME task.rules # <<>>, task' \in Task, task'.pc \in {"post", "record"},
             task'.rules = task.rules, task'.event = task.event, task'.attempt = 0,
             task'.pc = "record" => task'.status = "unsupported"
      PROVE  IInv'
  <2>1. received[<<task.event, Head(task.rules).id>>] = 0
    <3>1. task.rules \in Seq(Rule)
      BY <1>2 DEF Task
    <3>2. Head(task.rules) = task.rules[1] /\ Len(task.rules) \in Nat /\ Len(task.rules) > 0
      BY <1>5, <3>1, TailFacts
    <3>3. 1 \in 1..Len(task.rules)
      BY <3>2
    <3> QED
      BY <1>1, <3>2, <3>3 DEF IInv, RulesInv
  <2>2. RulesInv'
    BY <1>1, <1>5, SameRules
  <2>3. received'[Delivery'] = 0
    BY <1>1, <1>5, <2>1 DEF Delivery
  <2>4. TaskInv'
    BY <1>1, <1>2, <1>5, <2>3, DispatcherConstants DEF TaskInv
  <2> QED
    BY <1>1, <1>5, <2>2, <2>4, TaskStep DEF IInv, TypeOK
<1>6. CASE task.rules # <<>> /\ task' = [task EXCEPT !.pc = "post"]
  <2>1. task' \in Task
    BY <1>2, <1>6, TaskType
  <2> QED
    BY <1>2, <1>5, <1>6, <2>1 DEF Task
<1>7. CASE task.rules # <<>> /\ task' = [task EXCEPT !.pc = "record", !.status = "unsupported"]
  <2>1. task' \in Task
    BY <1>2, <1>7, TaskType
  <2> QED
    BY <1>2, <1>5, <1>7, <2>1 DEF Task
<1> QED
    BY <1>3, <1>4, <1>6, <1>7 DEF MatchRule

\* The event at the head of the channel moves into the task.
LEMMA RecvInv ==
    ASSUME IInv, Recv
    PROVE  IInv'
<1>1. /\ task.pc = "recv" /\ channel # <<>> /\ channel' = Tail(channel)
      /\ task' = [Waiting EXCEPT !.pc = "load", !.event = Head(channel)]
      /\ UNCHANGED <<configs, emitted, received, log, alerted, crashes>>
    BY DEF Recv
<1>2. /\ Len(channel) \in Nat /\ Len(channel) > 0 /\ Len(channel) <= channel_capacity
      /\ Head(channel) = channel[1] /\ Head(channel) \in Events
      /\ Tail(channel) \in Seq(Events) /\ Len(Tail(channel)) = Len(channel) - 1
      /\ \A i \in 1..Len(Tail(channel)) : Tail(channel)[i] = channel[i + 1]
    BY <1>1, TailFacts DEF IInv, TypeOK
<1>3. /\ task' \in Task /\ task'.pc = "load" /\ task'.event = Head(channel)
      /\ task'.rules = <<>> /\ task'.attempt = 0 /\ task'.status = "none"
  <2>1. task' \in Task
    BY <1>1, <1>2, WaitingType, TaskType
  <2> QED
    BY <1>1, <2>1 DEF Waiting
<1>4. \A i \in 1..Len(channel') : channel'[i] = channel[i + 1] /\ i + 1 \in 1..Len(channel)
    BY <1>1, <1>2
<1>5. 1 \in 1..Len(channel) /\ channel[1] = task'.event /\ task'.event \in emitted
    BY <1>2, <1>3 DEF IInv, ChannelInv
<1>6. TypeOK' /\ ConfigInv'
  <2>1. channel' \in Seq(Events) /\ Len(channel') <= channel_capacity
    BY <1>1, <1>2, DispatcherConstants
  <2> QED
    BY <1>1, <1>3, <2>1 DEF IInv, TypeOK, ConfigInv, UniqueIds
<1>7. ChannelInv'
  <2>1. ASSUME NEW i \in 1..Len(channel'), NEW j \in 1..Len(channel'), channel'[i] = channel'[j]
        PROVE  i = j
    <3>1. i + 1 = j + 1
      BY <1>4, <2>1 DEF IInv, ChannelInv
    <3> QED
      BY <3>1, <1>1, <1>2
  <2>2. ASSUME NEW i \in 1..Len(channel')
        PROVE  channel'[i] \in emitted' /\ channel'[i] # task'.event
    <3>1. i + 1 # 1
      BY <1>1, <1>2
    <3> QED
      BY <1>1, <1>4, <1>5, <3>1 DEF IInv, ChannelInv
  <2> QED
    BY <2>1, <2>2 DEF ChannelInv
<1>8. \A e \in Events : Fresh(e)' => Fresh(e)
    BY <1>1, <1>3, <1>4, <1>5 DEF Fresh, InChannel
<1>9. FreshInv'
    BY <1>1, <1>8 DEF IInv, FreshInv, Logged
<1>10. RulesInv' /\ TaskInv'
    BY <1>1, <1>3, <1>5 DEF RulesInv, TaskInv, UniqueIds
<1>11. OneRecordPerRule' /\ LogIsTruthful'
    BY <1>1 DEF IInv, OneRecordPerRule, LogIsTruthful
<1> QED
    BY <1>6, <1>7, <1>9, <1>10, <1>11 DEF IInv

\* The delivery the task works on, once it has picked a rule.
LEMMA DeliveryFacts ==
    ASSUME IInv, task.pc \in {"post", "backoff", "record", "alert"}
    PROVE  /\ task.event \in Events /\ Head(task.rules).id \in RuleIds
           /\ Head(task.rules) = task.rules[1] /\ 1 \in 1..Len(task.rules)
           /\ Delivery = <<task.event, task.rules[1].id>>
           /\ Delivery \in Events \X RuleIds
           /\ ~Fresh(task.event)
           /\ task.pc # "alert" => ~Logged(task.event, Head(task.rules).id)
           /\ \A i \in 1..Len(task.rules) : i > 1 => task.rules[i].id # Head(task.rules).id
<1>1. task.rules \in Seq(Rule) /\ task.rules # <<>> /\ task.event \in emitted
    BY DEF IInv, TypeOK, Task, TaskInv
<1>2. /\ Head(task.rules) = task.rules[1] /\ Head(task.rules) \in Rule
      /\ Len(task.rules) \in Nat /\ Len(task.rules) > 0
    BY <1>1, TailFacts
<1>3. 1 \in 1..Len(task.rules)
    BY <1>2
<1>4. Head(task.rules).id \in RuleIds
    BY <1>2 DEF Rule
<1>5. task.event \in Events
    BY <1>1 DEF IInv, TypeOK
<1>6. Delivery = <<task.event, task.rules[1].id>> /\ Delivery \in Events \X RuleIds
    BY <1>2, <1>4, <1>5 DEF Delivery
<1>7. ~Fresh(task.event)
    BY <1>1 DEF IInv, Fresh, InChannel, ChannelInv
<1>8. task.pc # "alert" => ~Logged(task.event, Head(task.rules).id)
    BY <1>2, <1>3 DEF IInv, RulesInv
<1>9. \A i \in 1..Len(task.rules) : i > 1 => task.rules[i].id # Head(task.rules).id
    BY <1>1, <1>2, <1>3, DomainOfSeq DEF IInv, RulesInv, UniqueIds
<1> QED
    BY <1>2, <1>3, <1>4, <1>5, <1>6, <1>7, <1>8, <1>9

\* A post: only the current delivery's count may rise, and it has no record.
LEMMA PostInv ==
    ASSUME IInv, task.pc = "post",
           Arrived \/ UNCHANGED received,
           UNCHANGED <<configs, channel, emitted, log, alerted, crashes>>,
           task' \in Task, task'.event = task.event, task'.rules = task.rules,
           task'.attempt = task.attempt + 1,
           \/ task'.pc = "backoff" /\ task.attempt < max_retries
           \/ /\ task'.pc = "record"
              /\ \/ task'.status = "success" /\ task'.code = 200 /\ Arrived
                 \/ task'.status = "failed" /\ task.attempt >= max_retries
    PROVE  IInv'
<1> USE DispatcherConstants
<1>1. /\ task.event \in Events /\ Head(task.rules).id \in RuleIds
      /\ Head(task.rules) = task.rules[1] /\ 1 \in 1..Len(task.rules)
      /\ Delivery = <<task.event, task.rules[1].id>> /\ Delivery \in Events \X RuleIds
      /\ ~Fresh(task.event) /\ ~Logged(task.event, Head(task.rules).id)
      /\ \A i \in 1..Len(task.rules) : i > 1 => task.rules[i].id # Head(task.rules).id
    BY DeliveryFacts
<1>2. received \in [Events \X RuleIds -> Nat] /\ received[Delivery] \in Nat
    BY <1>1 DEF IInv, TypeOK
<1>3. /\ received' \in [Events \X RuleIds -> Nat]
      /\ \A p \in Events \X RuleIds : p # Delivery => received'[p] = received[p]
      /\ received'[Delivery] <= received[Delivery] + 1
      /\ Arrived => received'[Delivery] >= 1
  <2>1. CASE Arrived
    <3> DEFINE n == received[Delivery]
    <3>1. received' = [received EXCEPT ![Delivery] = n + 1] /\ n + 1 \in Nat
      BY <1>2, <2>1 DEF Arrived
    <3>2. received' \in [Events \X RuleIds -> Nat] /\ received'[Delivery] = n + 1
      BY <1>1, <1>2, <3>1
    <3>3. \A p \in Events \X RuleIds : p # Delivery => received'[p] = received[p]
      BY <1>2, <3>1
    <3> QED
      BY <1>2, <3>2, <3>3
  <2>2. CASE ~Arrived
    BY <1>2, <2>2
  <2> QED
    BY <2>1, <2>2
<1>4. TypeOK' /\ ConfigInv'
    BY <1>3 DEF IInv, TypeOK, ConfigInv, UniqueIds
<1>5. ChannelInv' /\ OneRecordPerRule'
    BY DEF IInv, ChannelInv, OneRecordPerRule
<1>6. FreshInv'
  <2> SUFFICES ASSUME NEW e \in Events, NEW id \in RuleIds, Fresh(e)'
               PROVE  ~Logged(e, id)' /\ received'[<<e, id>>] = 0
    BY DEF FreshInv
  <2>1. Fresh(e)
    BY DEF Fresh, InChannel
  <2>2. <<e, id>> # Delivery
    BY <1>1, <2>1
  <2> QED
    BY <1>3, <2>1, <2>2 DEF IInv, FreshInv, Logged
<1>7. RulesInv'
  <2>1. UniqueIds(task'.rules) /\ \A i \in 1..Len(task.rules) : ~Logged(task.event, task.rules[i].id)
    BY DEF IInv, RulesInv
  <2>2. ASSUME NEW i \in 1..Len(task.rules), i > 1
        PROVE  received'[<<task.event, task.rules[i].id>>] = 0
    <3>1. task.rules[i].id \in RuleIds
      <4>1. task.rules[i] \in Rule
        BY DEF IInv, TypeOK, Task
      <4> QED
        BY <4>1 DEF Rule
    <3>2. <<task.event, task.rules[i].id>> # Delivery
      BY <1>1, <2>2
    <3> QED
      BY <1>1, <1>3, <2>2, <3>1, <3>2 DEF IInv, RulesInv
  <2> QED
    BY <2>1, <2>2 DEF RulesInv, Logged
<1>8. TaskInv'
  <2>1. /\ task.event \in emitted /\ task.rules # <<>> /\ task.attempt <= max_retries
        /\ received[Delivery] <= task.attempt /\ task.attempt \in Nat
    BY DEF IInv, TaskInv, TypeOK, Task
  <2>2. received'[Delivery] <= task'.attempt /\ Delivery' = Delivery /\ received'[Delivery] \in Nat
    BY <1>1, <1>2, <1>3, <2>1 DEF Delivery
  <2> QED
    BY <1>3, <2>1, <2>2 DEF TaskInv
<1>9. LogIsTruthful'
  <2>1. log \in Seq(Attempt)
    BY DEF IInv, TypeOK
  <2> SUFFICES ASSUME NEW i \in 1..Len(log)
               PROVE  received'[<<log[i].event, log[i].rule>>] = received[<<log[i].event, log[i].rule>>]
    BY <2>1, DomainOfSeq DEF IInv, LogIsTruthful
  <2>2. log[i] \in Attempt
    BY <2>1
  <2>3. log[i].event \in Events /\ log[i].rule \in RuleIds
    BY <2>2 DEF Attempt
  <2>4. <<log[i].event, log[i].rule>> # Delivery
    BY <1>1 DEF Logged
  <2> QED
    BY <1>3, <2>3, <2>4
<1> QED
    BY <1>4, <1>5, <1>6, <1>7, <1>8, <1>9 DEF IInv

\* The endpoint answers 2xx.
LEMMA PostSucceedsInv ==
    ASSUME IInv, PostSucceeds
    PROVE  IInv'
<1>0. task \in Task /\ task.attempt + 1 \in Nat /\ "success" \in Statuses
    BY DEF IInv, TypeOK, Task, Statuses
<1>1. task' = [task EXCEPT !.pc = "record", !.status = "success", !.attempt = task.attempt + 1,
                           !.code = 200]
    BY DEF PostSucceeds, IInv, TypeOK, Task
<1>2. /\ task' \in Task /\ task'.event = task.event /\ task'.rules = task.rules
      /\ task'.attempt = task.attempt + 1 /\ task'.pc = "record" /\ task'.status = "success"
      /\ task'.code = 200
  <2>1. task' \in Task
    BY <1>0, <1>1, ZenonT(30) DEF Task
  <2> QED
    BY <1>0, <1>1, <2>1 DEF Task
<1> QED
    BY <1>2, PostInv DEF PostSucceeds

\* The endpoint rejects or does not answer.
LEMMA PostFailedInv ==
    ASSUME IInv, task.pc = "post", NEW code \in {200, 500, None}, PostFailed(code),
           Arrived \/ UNCHANGED received,
           UNCHANGED <<configs, channel, emitted, log, alerted, crashes>>
    PROVE  IInv'
<1>0. task \in Task /\ task.attempt \in Nat /\ task.attempt + 1 \in Nat /\ max_retries \in Nat
    BY DispatcherConstants DEF IInv, TypeOK, Task
<1> "none" \in Statuses /\ "failed" \in Statuses
    BY DEF Statuses
<1>1. CASE task.attempt < max_retries
  <2>1. task' = [task EXCEPT !.pc = "backoff", !.status = "none", !.attempt = task.attempt + 1,
                             !.code = code]
    BY <1>1 DEF PostFailed, IInv, TypeOK, Task
  <2>2. /\ task' \in Task /\ task'.event = task.event /\ task'.rules = task.rules
        /\ task'.attempt = task.attempt + 1 /\ task'.pc = "backoff"
    <3>1. task' \in Task
      BY <1>0, <2>1, ZenonT(30) DEF Task
    <3> QED
      BY <1>0, <2>1, <3>1 DEF Task
  <2> QED
    BY <1>1, <2>2, PostInv
<1>2. CASE ~(task.attempt < max_retries)
  <2>1. task' = [task EXCEPT !.pc = "record", !.status = "failed", !.attempt = task.attempt + 1,
                             !.code = code]
    BY <1>2 DEF PostFailed, IInv, TypeOK, Task
  <2>2. /\ task' \in Task /\ task'.event = task.event /\ task'.rules = task.rules
        /\ task'.attempt = task.attempt + 1 /\ task'.pc = "record" /\ task'.status = "failed"
    <3>1. task' \in Task
      BY <1>0, <2>1, ZenonT(30) DEF Task
    <3> QED
      BY <1>0, <2>1, <3>1 DEF Task
  <2>3. task.attempt >= max_retries
    BY <1>0, <1>2
  <2> QED
    BY <2>2, <2>3, PostInv
<1> QED
    BY <1>1, <1>2

\* The pause before a retry.
LEMMA BackoffInv ==
    ASSUME IInv, Backoff
    PROVE  IInv'
<1>1. /\ task.pc = "backoff" /\ task' = [task EXCEPT !.pc = "post"] /\ task \in Task
      /\ UNCHANGED <<configs, channel, emitted, received, log, alerted, crashes>>
    BY DEF Backoff, IInv, TypeOK
<1>2. task' \in Task
    BY <1>1, TaskType
<1>3. /\ task'.pc = "post" /\ task'.rules = task.rules /\ task'.event = task.event
      /\ task'.attempt = task.attempt
    BY <1>1, <1>2 DEF Task
<1>4. RulesInv'
    BY <1>1, <1>3, SameRules
<1>5. TaskInv'
    BY <1>1, <1>3 DEF IInv, TaskInv, Delivery
<1> QED
    BY <1>1, <1>2, <1>3, <1>4, <1>5, TaskStep DEF IInv, TypeOK

\* After the record: the next rule after a success, else the alerter.
LEMMA AfterRecordInv ==
    ASSUME IInv, task.pc = "record", AfterRecord,
           UNCHANGED <<configs, channel, emitted, received, log, alerted, crashes>>
    PROVE  IInv'
<1>1. task.rules # <<>> /\ task \in Task
    BY DEF IInv, TaskInv, TypeOK
<1>2. CASE task' = NextRule
    BY <1>1, <1>2, NextRuleInv DEF IInv, TypeOK
<1>3. CASE task' = [task EXCEPT !.pc = "alert"]
  <2>1. /\ task' \in Task /\ task'.pc = "alert" /\ task'.rules = task.rules
        /\ task'.event = task.event
    BY <1>1, <1>3 DEF Task
  <2>2. RulesInv'
    BY <2>1, SameRules
  <2>3. TaskInv'
    BY <1>1, <2>1 DEF IInv, TaskInv
  <2> QED
    BY <2>1, <2>2, <2>3, TaskStep DEF IInv, TypeOK
<1> QED
    BY <1>2, <1>3 DEF AfterRecord

\* The delivery record: the first for this event and rule, and true.
LEMMA LogDeliveryInv ==
    ASSUME IInv, LogDelivery
    PROVE  IInv'
<1>1. /\ task.pc = "record" /\ log' = Append(log, Record) /\ AfterRecord
      /\ UNCHANGED <<configs, channel, emitted, received, alerted, crashes>>
    BY DEF LogDelivery
<1>2. /\ task.event \in Events /\ Head(task.rules).id \in RuleIds
      /\ Head(task.rules) = task.rules[1] /\ 1 \in 1..Len(task.rules)
      /\ Delivery = <<task.event, task.rules[1].id>> /\ Delivery \in Events \X RuleIds
      /\ ~Fresh(task.event) /\ ~Logged(task.event, Head(task.rules).id)
      /\ \A i \in 1..Len(task.rules) : i > 1 => task.rules[i].id # Head(task.rules).id
    BY <1>1, DeliveryFacts
<1>3. task \in Task /\ task.rules # <<>> /\ task.status # "none" /\ log \in Seq(Attempt)
    BY <1>1 DEF IInv, TypeOK, TaskInv
<1>4. Record \in Attempt /\ Record.event = task.event /\ Record.rule = Head(task.rules).id
      /\ Record.status = task.status /\ Record.attempts = task.attempt /\ Record.code = task.code
    BY <1>2, <1>3 DEF Record, Attempt, Task
<1>5. /\ log' \in Seq(Attempt) /\ Len(log') = Len(log) + 1 /\ Len(log) \in Nat
      /\ \A i \in 1..Len(log) : log'[i] = log[i]
      /\ log'[Len(log) + 1] = Record
    BY <1>1, <1>3, <1>4, AppendFacts
<1>6. DOMAIN log' = 1..Len(log') /\ DOMAIN log = 1..Len(log)
    BY <1>3, <1>5, DomainOfSeq
<1>7. \A i \in 1..Len(log') : i \in 1..Len(log) \/ i = Len(log) + 1
    BY <1>5
<1> DEFINE Now(e, id) == \E k \in 1..Len(log') : log'[k].event = e /\ log'[k].rule = id
<1>8. \A e, id : Now(e, id) => Logged(e, id) \/ (e = task.event /\ id = Head(task.rules).id)
    BY <1>4, <1>5, <1>7 DEF Logged
<1>9. OneRecordPerRule'
  <2> SUFFICES ASSUME NEW i \in 1..Len(log'), NEW j \in 1..Len(log'),
                      log'[i].event = log'[j].event, log'[i].rule = log'[j].rule
               PROVE  i = j
    BY <1>6 DEF OneRecordPerRule
  <2>1. CASE i \in 1..Len(log) /\ j \in 1..Len(log)
    BY <1>5, <1>6, <2>1 DEF IInv, OneRecordPerRule
  <2>2. CASE i \in 1..Len(log) /\ j = Len(log) + 1
    BY <1>2, <1>4, <1>5, <2>2 DEF Logged
  <2>3. CASE i = Len(log) + 1 /\ j \in 1..Len(log)
    BY <1>2, <1>4, <1>5, <2>3 DEF Logged
  <2> QED
    BY <1>7, <2>1, <2>2, <2>3
<1>10. LogIsTruthful'
  <2> DEFINE True(a) ==
        /\ received[<<a.event, a.rule>>] <= a.attempts
        /\ a.status = "success" => received[<<a.event, a.rule>>] >= 1 /\ a.code = 200
        /\ a.status = "failed" => a.attempts = max_retries + 1
        /\ a.status = "unsupported" => received[<<a.event, a.rule>>] = 0
  <2>1. \A i \in 1..Len(log) : True(log[i])
    BY <1>6 DEF IInv, LogIsTruthful
  <2>2. True(Record)
    BY <1>1, <1>2, <1>4 DEF IInv, TaskInv
  <2> HIDE DEF True
  <2>3. \A i \in 1..Len(log') : True(log'[i])
    BY <1>5, <1>7, <2>1, <2>2
  <2> QED
    BY <1>1, <1>6, <2>3 DEF LogIsTruthful, True
<1>11. task' = NextRule \/ task' = [task EXCEPT !.pc = "alert"]
    BY <1>1 DEF AfterRecord
<1>12. /\ task' \in Task /\ task'.event = task.event /\ task'.pc \in {"match", "alert"}
       /\ TaskInv'
  <2>1. CASE task' = NextRule
    <3>1. Tail(task.rules) \in Seq(Rule)
      BY <1>3, TailFacts DEF Task
    <3>2. /\ task'.rules = Tail(task.rules) /\ task'.event = task.event /\ task'.pc = "match"
          /\ task'.attempt = 0 /\ task'.status = "none" /\ task' \in Task
      BY <1>2, <2>1, <3>1 DEF NextRule, Waiting, Task, Statuses
    <3> QED
      BY <1>1, <3>2 DEF IInv, TaskInv
  <2>2. CASE task' = [task EXCEPT !.pc = "alert"]
    <3>1. /\ task' \in Task /\ task'.pc = "alert" /\ task'.rules = task.rules
          /\ task'.event = task.event
      BY <1>3, <2>2 DEF Task
    <3> QED
      BY <1>1, <1>3, <3>1 DEF IInv, TaskInv
  <2> QED
    BY <1>11, <2>1, <2>2
<1>13. RulesInv'
  <2>1. \A i \in 1..Len(task.rules) : i > 1 =>
          /\ ~Now(task.event, task.rules[i].id)
          /\ received'[<<task.event, task.rules[i].id>>] = 0
    BY <1>1, <1>2, <1>8 DEF IInv, RulesInv
  <2>2. CASE task' = NextRule
    <3>1. /\ Tail(task.rules) \in Seq(Rule) /\ Len(task.rules) \in Nat
          /\ Len(Tail(task.rules)) = Len(task.rules) - 1
          /\ \A i \in 1..Len(Tail(task.rules)) : Tail(task.rules)[i] = task.rules[i + 1]
      BY <1>3, TailFacts DEF Task
    <3>2. task'.rules = Tail(task.rules)
      BY <2>2 DEF NextRule, Waiting
    <3>3. UniqueIds(task'.rules)
      BY <1>3, <3>2, UniqueTail DEF IInv, RulesInv, Task
    <3>4. ASSUME NEW i \in 1..Len(task'.rules)
          PROVE  /\ ~Now(task.event, task'.rules[i].id)
                 /\ received'[<<task.event, task'.rules[i].id>>] = 0
      <4>1. i + 1 \in 1..Len(task.rules) /\ i + 1 > 1 /\ task'.rules[i] = task.rules[i + 1]
        BY <3>1, <3>2
      <4> QED
        BY <2>1, <4>1 DEF Logged
    <3> QED
      BY <1>12, <3>3, <3>4 DEF RulesInv, Logged
  <2>3. CASE task' = [task EXCEPT !.pc = "alert"]
    <3>1. task'.rules = task.rules /\ task'.pc = "alert"
      BY <1>3, <2>3 DEF Task
    <3> QED
      BY <1>12, <2>1, <3>1 DEF IInv, RulesInv, Logged
  <2> QED
    BY <1>11, <2>2, <2>3
<1>14. FreshInv'
  <2> SUFFICES ASSUME NEW e \in Events, NEW id \in RuleIds, Fresh(e)'
               PROVE  ~Logged(e, id)' /\ received'[<<e, id>>] = 0
    BY DEF FreshInv
  <2>1. Fresh(e)
    BY <1>1, <1>12 DEF Fresh, InChannel
  <2>2. e # task.event
    BY <1>2, <2>1
  <2> QED
    BY <1>1, <1>8, <2>1, <2>2 DEF IInv, FreshInv, Logged
<1>15. TypeOK' /\ ConfigInv'
    BY <1>1, <1>5, <1>12 DEF IInv, TypeOK, ConfigInv, UniqueIds
<1>16. ChannelInv'
    BY <1>1, <1>12 DEF IInv, ChannelInv
<1> QED
    BY <1>9, <1>10, <1>12, <1>13, <1>14, <1>15, <1>16 DEF IInv

\* The alerter is told about a delivery of an event and a rule that exist.
LEMMA AlertInv ==
    ASSUME IInv, Alert
    PROVE  IInv'
<1>1. /\ task.pc = "alert" /\ alerted' = alerted \cup {Delivery} /\ task' = NextRule
      /\ UNCHANGED <<configs, channel, emitted, received, log, crashes>>
    BY DEF Alert
<1>2. Delivery \in Events \X RuleIds
    BY <1>1, DeliveryFacts
<1>3. alerted' \subseteq Events \X RuleIds /\ task.rules # <<>>
    BY <1>1, <1>2 DEF IInv, TypeOK, TaskInv
<1> QED
    BY <1>1, <1>3, NextRuleInv

-----------------------------------------------------------------------------
(* The theorems.                                                           *)

\* Every step keeps the inductive invariant.
LEMMA NextInv == IInv /\ [Next]_vars => IInv'
<1> SUFFICES ASSUME IInv, [Next]_vars PROVE IInv'
    OBVIOUS
<1>1. CASE \E b \in Buckets : DeleteBucket(b)
    BY <1>1, DeleteBucketInv
<1>2. CASE \E b \in Buckets, rules \in Configs : PutBucketNotification(b, rules)
    BY <1>2, PutBucketNotificationInv
<1>3. CASE \E e \in Events : Emit(e)
    BY <1>3, EmitInv
<1>4. CASE Recv \/ LoadRules \/ MatchRule
    BY <1>4, RecvInv, LoadRulesInv, MatchRuleInv
<1>5. CASE PostSucceeds
    BY <1>5, PostSucceedsInv
<1>6. CASE PostRejected
    BY <1>6, PostFailedInv DEF PostRejected
<1>7. CASE PostTimesOut
  <2>1. task.code \in {200, 500, None}
    BY DEF IInv, TypeOK, Task
  <2> QED
    BY <1>7, <2>1, PostFailedInv DEF PostTimesOut
<1>8. CASE Backoff
    BY <1>8, BackoffInv
<1>9. CASE LogDelivery
    BY <1>9, LogDeliveryInv
<1>10. CASE LogFails
    BY <1>10, AfterRecordInv DEF LogFails
<1>11. CASE Alert
    BY <1>11, AlertInv
<1>12. CASE Crash
    BY <1>12, CrashInv
<1>13. CASE UNCHANGED vars
  <2>1. configs' \in [Buckets -> Configs \cup {None}] /\ ConfigInv'
    BY <1>13 DEF vars, IInv, TypeOK, ConfigInv, UniqueIds
  <2> QED
    BY <1>13, <2>1, ConfigStep DEF vars
<1> QED
    BY <1>1, <1>2, <1>3, <1>4, <1>5, <1>6, <1>7, <1>8, <1>9, <1>10, <1>11, <1>12, <1>13
    DEF Next, Dispatch

\* Every reachable state satisfies the inductive invariant.
THEOREM Invariance == Spec => []IInv
    BY InitInv, NextInv, PTL DEF Spec

\* The dispatcher's state is well typed; in particular try_send never holds
\* more than channel_capacity events.
THEOREM TypeCorrect == Spec => []TypeOK
<1>1. IInv => TypeOK
    BY DEF IInv
<1> QED
    BY <1>1, Invariance, PTL

\* An event has at most one delivery record per rule, however its bucket's
\* configuration changes and however often posts are retried.
THEOREM RecordsAreUnique == Spec => []OneRecordPerRule
<1>1. IInv => OneRecordPerRule
    BY DEF IInv
<1> QED
    BY <1>1, Invariance, PTL

\* The delivery log never claims more than the endpoints saw.
THEOREM LogTellsTheTruth == Spec => []LogIsTruthful
<1>1. IInv => LogIsTruthful
    BY DEF IInv
<1> QED
    BY <1>1, Invariance, PTL
=============================================================================
