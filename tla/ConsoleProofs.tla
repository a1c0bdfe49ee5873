---------------------------- MODULE ConsoleProofs ---------------------------
(* Theorems about Console: a single sign-on flow is used once and provisions *)
(* only new users, and the settings are root's, over restarts, deliveries in *)
(* any order and changes of the tables under the logins in flight; and the   *)
(* rate limit, with the check and the record of a failure apart, lets only   *)
(* so many wrong guesses through.                                            *)
EXTENDS Console, IamStoreProofs

-----------------------------------------------------------------------------
(* The inductive invariant, part by part.                                    *)
TaskFields == {"pc", "ip", "kind", "user", "provider", "flow", "config", "doc"}

Configs == [enabled: BOOLEAN, auto: BOOLEAN, policy: PolicyNames \cup {None}, secret: Secrets \cup {Empty}]

Provisioning == {"provision", "get_policy", "attach", "attach_insert"}
Resolving == {"resolve"} \cup Provisioning
CallingBack == {"provider", "exchange"} \cup Resolving

(* What a request knows by the time it gets where it is.                     *)
TaskOK(k) ==
    /\ DOMAIN k = TaskFields
    /\ k.pc \in {"get_user", "clear"} \cup Resolving => k.user \in Users \cup {Root}
    /\ k.pc \in CallingBack => k.flow \in FlowIds
    /\ k.pc \in {"exchange"} \cup Resolving => k.config \in Configs
    /\ k.pc \in {"get_policy", "attach", "attach_insert"} => k.config.policy # None
    /\ k.pc \in {"attach", "attach_insert"} => k.doc \in Documents

TasksOK == /\ DOMAIN task = Tasks /\ task = [t \in Tasks |-> task[t]]
           /\ \A t \in Tasks : TaskOK(task[t])

SettingsOK ==
    /\ DOMAIN providers \subseteq Providers
    /\ providers \in [DOMAIN providers -> Configs]
    /\ smtp \in Secrets \cup {None, Empty}

(* An address whose attempts are used up is locked out for the rest of the   *)
(* window at least, so that no failure is counted beyond MaxAttempts.        *)
LimitsOK ==
    /\ limits \in [Ips -> [attempts: 0 .. MaxAttempts, age: 0 .. Window + 1, locked: 0 .. Lockout]]
    /\ \A ip \in Ips :
        limits[ip].attempts = MaxAttempts /\ limits[ip].age <= Window =>
            limits[ip].locked + limits[ip].age >= Lockout

(* A session of root's has no more time left than remains of the time since  *)
(* root's last login.                                                        *)
SessionsOK ==
    /\ sessions \subseteq [sub: Users \cup {Root}, root: BOOLEAN, left: 0 .. SessionTtl]
    /\ sinceRoot \in 0 .. SessionTtl + 1
    /\ \A s \in sessions : s.root => s.left + sinceRoot <= SessionTtl

(* A flow waits for its callback, or one callback has it, or it led to a     *)
(* session.                                                                  *)
FlowsOK ==
    /\ DOMAIN flows \subseteq FlowIds
    /\ DOMAIN minted = FlowIds
    /\ \A f \in FlowIds :
        /\ minted[f] \in {0, 1}
        /\ f \in DOMAIN flows => minted[f] = 0 /\ \A t \in Tasks : task[t].flow # f
        /\ \A t \in Tasks : task[t].flow = f => minted[f] = 0 /\ \A x \in Tasks : task[x].flow = f => x = t

(* A callback in flight remembers everybody who is not there.                *)
AbsentOK ==
    /\ DOMAIN absent = Tasks
    /\ \A t \in Tasks :
        /\ task[t].flow # None => Users \ DOMAIN db.users \subseteq absent[t]
        /\ task[t].pc \in Provisioning => task[t].user \in absent[t]

BootOK == boot \in {"smtp", "oidc", "up"}

Inv == /\ Good(db) /\ TasksOK /\ SettingsOK /\ LimitsOK /\ SessionsOK /\ FlowsOK /\ AbsentOK /\ BootOK

-----------------------------------------------------------------------------
(* Steps of one request.                                                     *)
LEMMA IdleOK == TaskOK(Idle) /\ Idle.flow = None /\ Idle.pc = "idle"
BY DEF Idle, TaskOK, TaskFields, CallingBack, Resolving, Provisioning

Move(t) ==
    /\ task' = [task EXCEPT ![t] = task'[t]]
    /\ TaskOK(task'[t])
    /\ task'[t].flow \in {task[t].flow, None}

LEMMA Moved ==
    ASSUME TasksOK, NEW t \in Tasks, task' = [task EXCEPT ![t] = task'[t]], TaskOK(task'[t])
    PROVE  TasksOK' /\ \A x \in Tasks \ {t} : task'[x] = task[x]
BY DEF TasksOK

LEMMA StayedMoves ==
    ASSUME TasksOK, NEW t \in Tasks, UNCHANGED task
    PROVE  Move(t) /\ task'[t] = task[t]
<1>1. task' = [task EXCEPT ![t] = task'[t]]
    BY DEF TasksOK
<1>2. TaskOK(task[t])
    BY DEF TasksOK
<1>3. TaskOK(task'[t])
    BY <1>2, Zenon
<1> QED
    BY <1>1, <1>3 DEF Move

LEMMA FinishMoves ==
    ASSUME TasksOK, NEW t \in Tasks, Finish(t)
    PROVE  Move(t) /\ task'[t] = Idle
<1>1. task'[t] = Idle /\ task' = [task EXCEPT ![t] = task'[t]]
    BY DEF Finish, TasksOK
<1> QED
    BY <1>1, IdleOK DEF Move

(* The task after a step that changes pc and perhaps user.                   *)
LEMMA GotoFields ==
    ASSUME TasksOK, NEW t \in Tasks, NEW pc, Goto(t, pc)
    PROVE  /\ task' = [task EXCEPT ![t] = task'[t]] /\ DOMAIN task'[t] = TaskFields
           /\ task'[t].pc = pc /\ task'[t].user = task[t].user /\ task'[t].flow = task[t].flow
           /\ task'[t].config = task[t].config /\ task'[t].doc = task[t].doc
BY DEF Goto, TasksOK, TaskOK, TaskFields

LEMMA ProvedMoves ==
    ASSUME TasksOK, NEW t \in Tasks, NEW u \in Users \cup {Root}, NEW pc \in {"clear", "get_user"},
           task' = [task EXCEPT ![t].pc = pc, ![t].user = u]
    PROVE  Move(t) /\ task'[t].pc = pc
<1>1. /\ task' = [task EXCEPT ![t] = task'[t]] /\ DOMAIN task'[t] = TaskFields
      /\ task'[t].pc = pc /\ task'[t].user = u /\ task'[t].flow = task[t].flow
    BY DEF TasksOK, TaskOK, TaskFields
<1>2. TaskOK(task'[t])
    BY <1>1 DEF TaskOK, CallingBack, Resolving, Provisioning
<1> QED
    BY <1>1, <1>2 DEF Move

(* Flows only go, and no request gets another one.                           *)
LEMMA FlowsKept ==
    ASSUME FlowsOK, \A x \in Tasks : task'[x].flow \in {task[x].flow, None},
           DOMAIN flows' \subseteq DOMAIN flows, minted' = minted
    PROVE  FlowsOK'
BY ConsoleAssumption DEF FlowsOK

(* Nobody goes, and whoever is to be provisioned was seen absent.            *)
LEMMA AbsentKept ==
    ASSUME AbsentOK, absent' = absent, DOMAIN db.users \subseteq DOMAIN db'.users,
           \A x \in Tasks : task'[x].flow \in {task[x].flow, None},
           \A x \in Tasks : task'[x].pc \in Provisioning => task'[x].user \in absent[x]
    PROVE  AbsentOK'
BY DEF AbsentOK

(* The logins with a key or a password.                                      *)
LoginStep(t) ==
    \/ Login(t) \/ LoginWithKey(t) \/ LoginWithPassword(t) \/ PasswordUser(t)
    \/ RecordFailure(t) \/ LoginSucceeds(t)

LEMMA WrongGuessMoves ==
    ASSUME TasksOK, NEW t \in Tasks, WrongGuess(t)
    PROVE  Move(t) /\ task'[t].pc = "record"
<1>1. Goto(t, "record")
    BY DEF WrongGuess
<1> QED
    BY <1>1, GotoFields DEF Move, TaskOK, CallingBack, Resolving, Provisioning

LEMMA LoginStepMoves ==
    ASSUME Good(db), TasksOK, NEW t \in Tasks, LoginStep(t)
    PROVE  Move(t) /\ task'[t].pc \notin Provisioning /\ UNCHANGED <<db, settings, flows, minted, absent>>
<1>0. DOMAIN task = Tasks /\ TaskOK(task[t])
    BY DEF TasksOK
<1>1. CASE Login(t)
    <2>1. PICK ip \in Ips, kind \in {"key", "password"} :
            task' = [task EXCEPT ![t] = [Idle EXCEPT !.pc = "credentials", !.ip = ip, !.kind = kind]]
        BY <1>1 DEF Login
    <2>2. /\ task'[t].pc = "credentials" /\ task'[t].flow = None /\ DOMAIN task'[t] = TaskFields
          /\ task' = [task EXCEPT ![t] = task'[t]]
        BY <1>0, <2>1 DEF Idle, TaskFields
    <2> QED
        BY <1>1, <2>2 DEF Login, Move, TaskOK, CallingBack, Resolving, Provisioning, history
<1>2. CASE LoginWithKey(t)
    <2>0. UNCHANGED <<db, settings, flows>>
        BY <1>2 DEF LoginWithKey
    <2>1. CASE WrongGuess(t)
        <3>1. UNCHANGED <<minted, absent>>
            BY <2>1 DEF WrongGuess
        <3> QED
            BY <2>0, <2>1, <3>1, WrongGuessMoves DEF Provisioning
    <2>2. CASE \E k \in KeyIds \cup {Root} : GetCredentials(db, k) # None /\ Proved(t, GetCredentials(db, k), "clear")
        <3>1. PICK k \in KeyIds \cup {Root} : GetCredentials(db, k) # None /\ Proved(t, GetCredentials(db, k), "clear")
            BY <2>2
        <3>2. GetCredentials(db, k) \in Users \cup {Root}
            BY <3>1 DEF GetCredentials, Good, Typed
        <3>3. task' = [task EXCEPT ![t].pc = "clear", ![t].user = GetCredentials(db, k)] /\ UNCHANGED history
            BY <3>1 DEF Proved
        <3> DEFINE u == GetCredentials(db, k)
        <3> HIDE DEF u
        <3>4. Move(t) /\ task'[t].pc = "clear"
            BY <3>2, <3>3, ProvedMoves DEF u
        <3> QED
            BY <2>0, <3>3, <3>4 DEF history, Provisioning
    <2> QED
        BY <1>2, <2>1, <2>2 DEF LoginWithKey
<1>3. CASE LoginWithPassword(t)
    <2>0. UNCHANGED <<db, settings, flows>>
        BY <1>3 DEF LoginWithPassword
    <2>1. CASE WrongGuess(t)
        <3>1. UNCHANGED <<minted, absent>>
            BY <2>1 DEF WrongGuess
        <3> QED
            BY <2>0, <2>1, <3>1, WrongGuessMoves DEF Provisioning
    <2>2. CASE Finish(t) /\ UNCHANGED history
        BY <2>0, <2>2, FinishMoves, IdleOK DEF history, Provisioning
    <2>3. ASSUME NEW u \in Users \cup {Root}, Proved(t, u, "get_user")
          PROVE  Move(t) /\ task'[t].pc \notin Provisioning /\ UNCHANGED <<db, settings, flows, minted, absent>>
        <3>1. task' = [task EXCEPT ![t].pc = "get_user", ![t].user = u] /\ UNCHANGED history
            BY <2>3 DEF Proved
        <3>2. Move(t) /\ task'[t].pc = "get_user"
            BY <3>1, ProvedMoves
        <3> QED
            BY <2>0, <3>1, <3>2 DEF history, Provisioning
    <2> QED
        BY <1>3, <2>1, <2>2, <2>3 DEF LoginWithPassword
<1>4. CASE PasswordUser(t)
    <2>0. UNCHANGED <<db, settings, flows, minted, absent>> /\ task[t].pc = "get_user"
        BY <1>4 DEF PasswordUser, history, At
    <2>1. CASE Finish(t)
        BY <2>0, <2>1, FinishMoves, IdleOK DEF Provisioning
    <2>2. ASSUME NEW pc \in {"record", "clear"}, Goto(t, pc)
          PROVE  Move(t) /\ task'[t].pc \notin Provisioning
        BY <1>0, <2>0, <2>2, GotoFields DEF Move, TaskOK, CallingBack, Resolving, Provisioning
    <2> QED
        BY <1>4, <2>0, <2>1, <2>2 DEF PasswordUser
<1>5. CASE RecordFailure(t) \/ LoginSucceeds(t)
    <2>1. Finish(t) /\ UNCHANGED <<db, settings, flows, minted, absent>>
        BY <1>5 DEF RecordFailure, LoginSucceeds, history
    <2> QED
        BY <2>1, FinishMoves, IdleOK DEF Provisioning
<1> QED
    BY <1>1, <1>2, <1>3, <1>4, <1>5 DEF LoginStep

(* The limit.                                                                *)
LEMMA RowCounts ==
    ASSUME NEW row \in [attempts: 0 .. MaxAttempts, age: 0 .. Window + 1, locked: 0 .. Lockout],
           row.attempts = MaxAttempts /\ row.age <= Window => row.locked + row.age >= Lockout
    PROVE  LET r == RecordLoginFailure(row)
           IN  /\ r \in [attempts: 0 .. MaxAttempts, age: 0 .. Window + 1, locked: 0 .. Lockout]
               /\ r.attempts = MaxAttempts /\ r.age <= Window => r.locked + r.age >= Lockout
<1> DEFINE r == RecordLoginFailure(row)
<1>0. MaxAttempts \in Nat /\ MaxAttempts > 1 /\ Window \in Nat /\ Lockout \in Nat /\ Lockout > Window
    BY ConsoleAssumption
<1>1. CASE row = NoLimit \/ (row.locked = 0 /\ row.age > Window)
    <2>1. r = [attempts |-> 1, age |-> 0, locked |-> 0]
        BY <1>1 DEF RecordLoginFailure, NoLimit
    <2> QED
        BY <1>0, <2>1
<1>2. CASE ~(row = NoLimit \/ (row.locked = 0 /\ row.age > Window)) /\ row.locked > 0
    BY <1>2 DEF RecordLoginFailure
<1>3. CASE ~(row = NoLimit \/ (row.locked = 0 /\ row.age > Window)) /\ ~(row.locked > 0)
    <2>1. row.locked = 0 /\ row.age <= Window /\ row.attempts < MaxAttempts
        BY <1>0, <1>3
    <2> DEFINE counted == [row EXCEPT !.attempts = @ + 1]
    <2>2. /\ counted \in [attempts: 0 .. MaxAttempts, age: 0 .. Window + 1, locked: 0 .. Lockout]
          /\ counted.attempts = row.attempts + 1 /\ counted.age = row.age /\ counted.locked = 0
        BY <1>0, <2>1
    <2>3. r = IF counted.attempts >= MaxAttempts THEN [counted EXCEPT !.locked = Lockout] ELSE counted
        BY <1>3 DEF RecordLoginFailure
    <2> HIDE DEF counted, r
    <2>4. CASE counted.attempts >= MaxAttempts
        <3>1. /\ r \in [attempts: 0 .. MaxAttempts, age: 0 .. Window + 1, locked: 0 .. Lockout]
              /\ r.locked = Lockout /\ r.age = row.age
            BY <1>0, <2>2, <2>3, <2>4
        <3> QED
            BY <1>0, <3>1 DEF r
    <2>5. CASE ~(counted.attempts >= MaxAttempts)
        BY <1>0, <2>2, <2>3, <2>5 DEF r
    <2> QED
        BY <2>4, <2>5
<1> QED
    BY <1>1, <1>2, <1>3

LEMMA NoLimitIsFine ==
    /\ NoLimit \in [attempts: 0 .. MaxAttempts, age: 0 .. Window + 1, locked: 0 .. Lockout]
    /\ NoLimit.attempts # MaxAttempts
BY ConsoleAssumption DEF NoLimit

(* A token is handed out.                                                    *)
LEMMA TokenAdded ==
    ASSUME SessionsOK, NEW u \in Users \cup {Root}, NEW root \in BOOLEAN,
           sessions' = sessions \cup {[sub |-> u, root |-> root, left |-> SessionTtl]},
           sinceRoot' \in {sinceRoot, 0}, root => sinceRoot' = 0
    PROVE  SessionsOK'
<1> DEFINE T == [sub: Users \cup {Root}, root: BOOLEAN, left: 0 .. SessionTtl]
           token == [sub |-> u, root |-> root, left |-> SessionTtl]
<1>0. SessionTtl \in Nat
    BY ConsoleAssumption
<1>1. token \in T
    <2>1. SessionTtl \in 0 .. SessionTtl
        BY <1>0
    <2> QED
        BY <2>1, Zenon
<1>2. token.root = root /\ token.left = SessionTtl
    OBVIOUS
<1> HIDE DEF token
<1>3. sessions' \subseteq T
    BY <1>1 DEF SessionsOK, token
<1>4. sinceRoot' \in 0 .. SessionTtl + 1
    BY <1>0 DEF SessionsOK
<1>5. ASSUME NEW s \in sessions', s.root PROVE s.left + sinceRoot' <= SessionTtl
    <2>1. CASE s = token
        BY <1>0, <1>2, <1>5, <2>1
    <2>2. CASE s \in sessions
        <3>1. s.left \in 0 .. SessionTtl /\ s.left + sinceRoot <= SessionTtl /\ sinceRoot \in Nat
            BY <1>0, <1>5, <2>2 DEF SessionsOK
        <3> QED
            BY <1>0, <3>1
    <2> QED
        BY <1>5, <2>1, <2>2 DEF token
<1> QED
    BY <1>3, <1>4, <1>5 DEF SessionsOK

LEMMA LoginStepInv ==
    ASSUME Inv, NEW t \in Tasks, LoginStep(t), UNCHANGED boot
    PROVE  Inv'
<1>0. /\ Good(db) /\ TasksOK /\ SettingsOK /\ LimitsOK /\ SessionsOK /\ FlowsOK /\ AbsentOK /\ BootOK
      /\ DOMAIN task = Tasks /\ TaskOK(task[t])
    BY DEF Inv, TasksOK
<1>1. Move(t) /\ task'[t].pc \notin Provisioning /\ UNCHANGED <<db, settings, flows, minted, absent>>
    BY <1>0, LoginStepMoves
<1>2. TasksOK' /\ \A x \in Tasks \ {t} : task'[x] = task[x]
    BY <1>0, <1>1, Moved DEF Move
<1>3. \A x \in Tasks : task'[x].flow \in {task[x].flow, None}
    BY <1>1, <1>2 DEF Move
<1>4. FlowsOK'
    BY <1>0, <1>1, <1>3, FlowsKept
<1>5. AbsentOK'
    <2>1. \A x \in Tasks : task'[x].pc \in Provisioning => task'[x].user \in absent[x]
        BY <1>0, <1>1, <1>2 DEF AbsentOK
    <2> QED
        BY <1>0, <1>1, <1>3, <2>1, AbsentKept
<1>6. Good(db') /\ SettingsOK' /\ BootOK'
    <2>1. Good(db')
        BY <1>0, <1>1, Zenon
    <2> QED
        BY <1>0, <1>1, <2>1 DEF SettingsOK, settings, BootOK
<1>7. LimitsOK' /\ SessionsOK'
    <2>1. CASE RecordFailure(t)
        <3>1. limits' = [limits EXCEPT ![task[t].ip] = RecordLoginFailure(@)] /\ UNCHANGED <<sessions, sinceRoot>>
            BY <2>1 DEF RecordFailure, history
        <3>2. LimitsOK'
            BY <1>0, <3>1, RowCounts DEF LimitsOK
        <3> QED
            BY <1>0, <3>1, <3>2 DEF SessionsOK
    <2>2. CASE LoginSucceeds(t)
        <3>1. /\ limits' = [limits EXCEPT ![task[t].ip] = NoLimit]
              /\ sessions' = sessions \cup {[sub |-> task[t].user, root |-> task[t].user = Root, left |-> SessionTtl]}
              /\ sinceRoot' = IF task[t].user = Root THEN 0 ELSE sinceRoot
              /\ task[t].pc = "clear"
            BY <2>2 DEF LoginSucceeds, CreateToken, At
        <3>2. task[t].user \in Users \cup {Root}
            BY <1>0, <3>1 DEF TaskOK
        <3>3. LimitsOK'
            BY <1>0, <3>1, NoLimitIsFine DEF LimitsOK
        <3>4. CASE task[t].user = Root
            <4>1. sinceRoot' = 0 /\ sessions' = sessions \cup {[sub |-> task[t].user, root |-> TRUE, left |-> SessionTtl]}
                BY <3>1, <3>4
            <4>2. SessionsOK /\ sinceRoot' \in {sinceRoot, 0}
                BY <1>0, <4>1
            <4> QED
                BY <3>2, <3>3, <4>1, <4>2, TokenAdded
        <3>5. CASE task[t].user # Root
            <4>1. /\ sinceRoot' = sinceRoot
                  /\ sessions' = sessions \cup {[sub |-> task[t].user, root |-> FALSE, left |-> SessionTtl]}
                BY <3>1, <3>5
            <4>2. SessionsOK /\ sinceRoot' \in {sinceRoot, 0}
                BY <1>0, <4>1
            <4> QED
                BY <3>2, <3>3, <4>1, <4>2, TokenAdded
        <3> QED
            BY <3>3, <3>4, <3>5
    <2>3. CASE Login(t) \/ LoginWithKey(t) \/ LoginWithPassword(t) \/ PasswordUser(t)
        <3>1. UNCHANGED <<limits, sessions, sinceRoot>>
            BY <2>3 DEF Login, LoginWithKey, LoginWithPassword, PasswordUser, history, Proved, WrongGuess
        <3> QED
            BY <1>0, <3>1 DEF LimitsOK, SessionsOK
    <2> QED
        BY <2>1, <2>2, <2>3 DEF LoginStep
<1> QED
    BY <1>2, <1>4, <1>5, <1>6, <1>7 DEF Inv

-----------------------------------------------------------------------------
(* Single sign-on.                                                           *)
SsoStep(t) ==
    \/ LoginOidc(t) \/ StartFlow(t) \/ AuthCallback(t) \/ CallbackProvider(t) \/ ExchangeAndVerify(t)
    \/ ResolveUser(t) \/ AttachDefaultPolicy(t)

(* A request goes on, with what it now knows, or is refused.                 *)
LEMMA SsoMoveInv ==
    ASSUME Inv, NEW t \in Tasks, Move(t), UNCHANGED <<boot, limits, settings, sessions, minted, absent, sinceRoot>>,
           DOMAIN flows' \subseteq DOMAIN flows,
           Good(db'), DOMAIN db.users \subseteq DOMAIN db'.users,
           task'[t].pc \in Provisioning => task'[t].user \in absent[t]
    PROVE  Inv'
<1>0. /\ TasksOK /\ SettingsOK /\ LimitsOK /\ SessionsOK /\ FlowsOK /\ AbsentOK /\ BootOK
    BY DEF Inv
<1>1. TasksOK' /\ \A x \in Tasks \ {t} : task'[x] = task[x]
    BY <1>0, Moved DEF Move
<1>2. \A x \in Tasks : task'[x].flow \in {task[x].flow, None}
    BY <1>1 DEF Move
<1>3. FlowsOK'
    BY <1>0, <1>2, FlowsKept
<1>4. \A x \in Tasks : task'[x].pc \in Provisioning => task'[x].user \in absent[x]
    BY <1>0, <1>1 DEF AbsentOK
<1>5. AbsentOK'
    BY <1>0, <1>2, <1>4, AbsentKept
<1>6. SettingsOK' /\ LimitsOK' /\ SessionsOK' /\ BootOK'
    BY <1>0 DEF SettingsOK, settings, LimitsOK, SessionsOK, BootOK
<1> QED
    BY <1>1, <1>3, <1>5, <1>6 DEF Inv

(* A callback ends with a session: its flow is used up.                      *)
LEMMA MintInv ==
    ASSUME Inv, NEW t \in Tasks, Mint(t), task[t].pc \in Resolving, UNCHANGED boot,
           Good(db'), DOMAIN db.users \subseteq DOMAIN db'.users
    PROVE  Inv'
<1>0. /\ TasksOK /\ SettingsOK /\ LimitsOK /\ SessionsOK /\ FlowsOK /\ AbsentOK /\ BootOK
    BY DEF Inv
<1> DEFINE f == task[t].flow
<1>1. /\ sessions' = sessions \cup {[sub |-> task[t].user, root |-> FALSE, left |-> SessionTtl]}
      /\ minted' = [minted EXCEPT ![f] = @ + 1]
      /\ Finish(t) /\ UNCHANGED <<limits, settings, flows, absent, sinceRoot>>
    BY DEF Mint, CreateToken
<1>2. task[t].user \in Users \cup {Root} /\ f \in FlowIds
    BY <1>0 DEF TasksOK, TaskOK, CallingBack
<1>3. /\ TasksOK' /\ \A x \in Tasks \ {t} : task'[x] = task[x]
      /\ task'[t] = Idle
    BY <1>0, <1>1, FinishMoves, Moved DEF Move
<1>4. SessionsOK'
    BY <1>0, <1>1, <1>2, TokenAdded
<1>5. \A x \in Tasks : task'[x].flow \in {task[x].flow, None} /\ task'[x].flow # f
    BY <1>0, <1>2, <1>3, IdleOK, ConsoleAssumption DEF FlowsOK
<1>6. FlowsOK'
    <2>1. minted[f] = 0 /\ f \notin DOMAIN flows /\ DOMAIN minted = FlowIds
        BY <1>0, <1>2 DEF FlowsOK
    <2>2. DOMAIN minted' = FlowIds /\ minted'[f] = 1 /\ \A g \in FlowIds \ {f} : minted'[g] = minted[g]
        BY <1>1, <1>2, <2>1
    <2> HIDE DEF f
    <2> QED
        BY <1>0, <1>1, <1>5, <2>1, <2>2, ConsoleAssumption DEF FlowsOK
<1>7. \A x \in Tasks : task'[x].pc \in Provisioning => task'[x].user \in absent[x]
    BY <1>0, <1>3, IdleOK DEF AbsentOK, Provisioning
<1>8. AbsentOK'
    BY <1>0, <1>1, <1>5, <1>7, AbsentKept
<1>9. SettingsOK' /\ LimitsOK' /\ BootOK'
    BY <1>0, <1>1 DEF SettingsOK, settings, LimitsOK, BootOK
<1> QED
    BY <1>3, <1>4, <1>6, <1>8, <1>9 DEF Inv

LEMMA LoginOidcInv ==
    ASSUME Inv, NEW t \in Tasks, LoginOidc(t), UNCHANGED boot
    PROVE  Inv'
<1>0. TasksOK /\ DOMAIN task = Tasks /\ TaskOK(task[t])
    BY DEF Inv, TasksOK
<1>1. Good(db') /\ DOMAIN db.users \subseteq DOMAIN db'.users
    <2>1. db' = db /\ Good(db)
        BY DEF LoginOidc, Inv
    <2> QED
        BY <2>1, Zenon
<1>2. /\ UNCHANGED <<limits, settings, sessions, minted, absent, sinceRoot>> /\ At(t, "idle")
      /\ DOMAIN flows' \subseteq DOMAIN flows
    BY DEF LoginOidc, history, Unexpired, Restrict
<1>3. CASE UNCHANGED task
    <2>1. Move(t) /\ task'[t].pc \notin Provisioning
        BY <1>0, <1>2, <1>3, StayedMoves DEF At, Provisioning
    <2> QED
        BY <1>1, <1>2, <2>1, SsoMoveInv
<1>4. ASSUME NEW p, task' = [task EXCEPT ![t] = [Idle EXCEPT !.pc = "discover", !.provider = p]]
      PROVE  Inv'
    <2>1. /\ task'[t].pc = "discover" /\ task'[t].flow = None /\ DOMAIN task'[t] = TaskFields
          /\ task' = [task EXCEPT ![t] = task'[t]]
        BY <1>0, <1>4 DEF Idle, TaskFields
    <2>2. Move(t) /\ task'[t].pc \notin Provisioning
        BY <2>1 DEF Move, TaskOK, CallingBack, Resolving, Provisioning
    <2> QED
        BY <1>1, <1>2, <2>2, SsoMoveInv
<1> QED
    BY <1>3, <1>4 DEF LoginOidc

LEMMA StartFlowInv ==
    ASSUME Inv, NEW t \in Tasks, StartFlow(t), UNCHANGED boot
    PROVE  Inv'
<1>0. /\ TasksOK /\ SettingsOK /\ LimitsOK /\ SessionsOK /\ FlowsOK /\ AbsentOK /\ BootOK
    BY DEF Inv
<1>1. Good(db') /\ db' = db
    <2>1. db' = db /\ Good(db)
        BY DEF StartFlow, Inv
    <2> QED
        BY <2>1, Zenon
<1>2. UNCHANGED <<limits, settings, sessions, minted, absent, sinceRoot>> /\ Finish(t)
    BY DEF StartFlow, history
<1>3. Move(t) /\ task'[t] = Idle
    BY <1>0, <1>2, FinishMoves
<1>4. CASE UNCHANGED flows
    BY <1>1, <1>2, <1>3, <1>4, SsoMoveInv, IdleOK DEF Provisioning
<1>5. ASSUME NEW f \in FlowIds \ FlowsInUse, NEW r, flows' = Bind(flows, f, r)
      PROVE  Inv'
    <2>1. TasksOK' /\ \A x \in Tasks \ {t} : task'[x] = task[x]
        BY <1>0, <1>3, Moved DEF Move
    <2>2. \A x \in Tasks : task'[x].flow \in {task[x].flow, None} /\ task'[x].flow # f
        BY <1>3, <1>5, <2>1, IdleOK, ConsoleAssumption DEF FlowsInUse
    <2>3. DOMAIN flows' = DOMAIN flows \cup {f}
        BY <1>5 DEF Bind
    <2>4. minted[f] = 0
        BY <1>0, <1>5 DEF FlowsInUse, FlowsOK
    <2>5. FlowsOK'
        BY <1>0, <1>2, <1>5, <2>2, <2>3, <2>4, ConsoleAssumption DEF FlowsOK
    <2>6. \A x \in Tasks : task'[x].pc \in Provisioning => task'[x].user \in absent[x]
        BY <1>0, <1>3, <2>1, IdleOK DEF AbsentOK, Provisioning
    <2>7. AbsentOK'
        BY <1>0, <1>1, <1>2, <2>2, <2>6, AbsentKept
    <2>8. SettingsOK' /\ LimitsOK' /\ SessionsOK' /\ BootOK'
        BY <1>0, <1>2 DEF SettingsOK, settings, LimitsOK, SessionsOK, BootOK
    <2> QED
        BY <1>1, <2>1, <2>5, <2>7, <2>8 DEF Inv
<1> QED
    BY <1>4, <1>5 DEF StartFlow

(* The callback takes the flow, and nobody else can.                         *)
LEMMA AuthCallbackInv ==
    ASSUME Inv, NEW t \in Tasks, AuthCallback(t), UNCHANGED boot
    PROVE  Inv'
<1>0. /\ TasksOK /\ SettingsOK /\ LimitsOK /\ SessionsOK /\ FlowsOK /\ AbsentOK /\ BootOK
      /\ DOMAIN task = Tasks /\ TaskOK(task[t])
    BY DEF Inv, TasksOK
<1>1. Good(db') /\ db' = db
    <2>1. db' = db /\ Good(db)
        BY DEF AuthCallback, Inv
    <2> QED
        BY <2>1, Zenon
<1>2. UNCHANGED <<limits, settings, sessions, minted, sinceRoot>> /\ task[t].pc = "idle"
    BY DEF AuthCallback, At
<1>3. PICK f \in DOMAIN flows :
        /\ flows' = Without(flows, {f})
        /\ IF flows[f].age >= FlowTtl THEN UNCHANGED <<task, absent>>
           ELSE /\ task' = [task EXCEPT ![t] = [Idle EXCEPT !.pc = "provider", !.flow = f,
                                                            !.provider = flows[f].provider]]
                /\ absent' = [absent EXCEPT ![t] = Users \ DOMAIN db.users]
    BY DEF AuthCallback
<1>4. DOMAIN flows' = DOMAIN flows \ {f} /\ f \in FlowIds
    BY <1>0, <1>3 DEF Without, Restrict, FlowsOK
<1>5. CASE UNCHANGED <<task, absent>>
    <2>1. Move(t) /\ task'[t].pc \notin Provisioning
        BY <1>0, <1>2, <1>5, StayedMoves DEF Provisioning
    <2> QED
        BY <1>1, <1>2, <1>4, <1>5, <2>1, SsoMoveInv
<1>6. CASE /\ task' = [task EXCEPT ![t] = [Idle EXCEPT !.pc = "provider", !.flow = f,
                                                      !.provider = flows[f].provider]]
           /\ absent' = [absent EXCEPT ![t] = Users \ DOMAIN db.users]
    <2>1. /\ task'[t].pc = "provider" /\ task'[t].flow = f /\ DOMAIN task'[t] = TaskFields
          /\ task' = [task EXCEPT ![t] = task'[t]]
        BY <1>0, <1>6 DEF Idle, TaskFields
    <2>2. TaskOK(task'[t])
        BY <1>4, <2>1 DEF TaskOK, CallingBack, Resolving, Provisioning
    <2>3. TasksOK' /\ \A x \in Tasks \ {t} : task'[x] = task[x]
        BY <1>0, <2>1, <2>2, Moved
    <2>4. FlowsOK'
        BY <1>0, <1>2, <1>4, <2>1, <2>3 DEF FlowsOK
    <2>5. AbsentOK'
        BY <1>0, <1>1, <1>6, <2>1, <2>3 DEF AbsentOK, Provisioning
    <2>6. SettingsOK' /\ LimitsOK' /\ SessionsOK' /\ BootOK'
        BY <1>0, <1>2 DEF SettingsOK, settings, LimitsOK, SessionsOK, BootOK
    <2> QED
        BY <1>1, <2>3, <2>4, <2>5, <2>6 DEF Inv
<1> QED
    BY <1>3, <1>5, <1>6

(* A callback in flight goes on or is refused, over tables that only grow.   *)
LEMMA CallbackMoveInv ==
    ASSUME Inv, NEW t \in Tasks, Move(t), UNCHANGED <<limits, settings, flows, sessions, history>>, UNCHANGED boot,
           Good(db'), DOMAIN db.users \subseteq DOMAIN db'.users,
           task'[t].pc \in Provisioning => task'[t].user \in absent[t]
    PROVE  Inv'
BY SsoMoveInv DEF history

LEMMA RefuseInv ==
    ASSUME Inv, NEW t \in Tasks, Refuse(t), UNCHANGED boot, Good(db'), DOMAIN db.users \subseteq DOMAIN db'.users
    PROVE  Inv'
<1>1. Move(t) /\ task'[t] = Idle /\ UNCHANGED <<limits, settings, flows, sessions, history>>
    BY FinishMoves DEF Inv, Refuse
<1>2. task'[t].pc \notin Provisioning
    BY <1>1, IdleOK DEF Provisioning
<1> QED
    BY <1>1, <1>2, CallbackMoveInv

(* Wherever a callback goes on to, it knows what it needs there.             *)
LEMMA ProceedInv ==
    ASSUME Inv, NEW t \in Tasks, NEW pc \in Provisioning, Proceed(t, pc), UNCHANGED boot,
           Good(db'), DOMAIN db.users \subseteq DOMAIN db'.users,
           task[t].pc \in Resolving, task[t].user \in absent[t],
           pc # "provision" => task[t].config.policy # None,
           pc \in {"attach", "attach_insert"} => task[t].doc \in Documents
    PROVE  Inv'
<1>0. TasksOK /\ TaskOK(task[t])
    BY DEF Inv, TasksOK
<1>1. Goto(t, pc) /\ UNCHANGED <<limits, settings, flows, sessions, history>>
    BY DEF Proceed
<1>2. /\ task' = [task EXCEPT ![t] = task'[t]] /\ DOMAIN task'[t] = TaskFields
      /\ task'[t].pc = pc /\ task'[t].user = task[t].user /\ task'[t].flow = task[t].flow
      /\ task'[t].config = task[t].config /\ task'[t].doc = task[t].doc
    BY <1>0, <1>1, GotoFields
<1>3. TaskOK(task'[t])
    BY <1>0, <1>2 DEF TaskOK, CallingBack, Resolving, Provisioning
<1>4. Move(t)
    BY <1>2, <1>3 DEF Move
<1> QED
    BY <1>1, <1>2, <1>4, CallbackMoveInv

LEMMA CallbackProviderInv ==
    ASSUME Inv, NEW t \in Tasks, CallbackProvider(t), UNCHANGED boot
    PROVE  Inv'
<1>0. TasksOK /\ TaskOK(task[t]) /\ SettingsOK /\ DOMAIN task = Tasks
    BY DEF Inv, TasksOK
<1>1. Good(db') /\ db' = db
    <2>1. db' = db /\ Good(db)
        BY DEF CallbackProvider, Inv
    <2> QED
        BY <2>1, Zenon
<1>2. task[t].pc = "provider" /\ UNCHANGED <<limits, settings, flows, sessions, history>>
    BY DEF CallbackProvider, At
<1>3. CASE Finish(t)
    BY <1>1, <1>2, <1>3, RefuseInv DEF Refuse
<1>4. ASSUME NEW p \in DOMAIN providers,
             task' = [task EXCEPT ![t].pc = "exchange", ![t].config = providers[p]]
      PROVE  Inv'
    <2>1. providers[p] \in Configs
        BY <1>0 DEF SettingsOK
    <2>2. /\ task' = [task EXCEPT ![t] = task'[t]] /\ DOMAIN task'[t] = TaskFields
          /\ task'[t].pc = "exchange" /\ task'[t].flow = task[t].flow /\ task'[t].config = providers[p]
        BY <1>0, <1>4 DEF TaskOK, TaskFields
    <2>3. TaskOK(task'[t])
        BY <1>0, <1>2, <2>1, <2>2 DEF TaskOK, CallingBack, Resolving, Provisioning
    <2>4. Move(t) /\ task'[t].pc \notin Provisioning
        BY <2>2, <2>3 DEF Move, Provisioning
    <2> QED
        BY <1>1, <1>2, <2>4, CallbackMoveInv
<1> QED
    BY <1>3, <1>4 DEF CallbackProvider, EnabledProvider

LEMMA ExchangeInv ==
    ASSUME Inv, NEW t \in Tasks, ExchangeAndVerify(t), UNCHANGED boot
    PROVE  Inv'
<1>0. TasksOK /\ TaskOK(task[t]) /\ DOMAIN task = Tasks
    BY DEF Inv, TasksOK
<1>1. Good(db') /\ db' = db
    <2>1. db' = db /\ Good(db)
        BY DEF ExchangeAndVerify, Inv
    <2> QED
        BY <2>1, Zenon
<1>2. task[t].pc = "exchange" /\ UNCHANGED <<limits, settings, flows, sessions, history>>
    BY DEF ExchangeAndVerify, At
<1>3. CASE Finish(t)
    BY <1>1, <1>2, <1>3, RefuseInv DEF Refuse
<1>4. ASSUME NEW u \in Users \cup {Root}, task' = [task EXCEPT ![t].pc = "resolve", ![t].user = u]
      PROVE  Inv'
    <2>1. /\ task' = [task EXCEPT ![t] = task'[t]] /\ DOMAIN task'[t] = TaskFields
          /\ task'[t].pc = "resolve" /\ task'[t].flow = task[t].flow /\ task'[t].config = task[t].config
          /\ task'[t].user = u
        BY <1>0, <1>4 DEF TaskOK, TaskFields
    <2>2. TaskOK(task'[t])
        BY <1>0, <1>2, <2>1 DEF TaskOK, CallingBack, Resolving, Provisioning
    <2>3. Move(t) /\ task'[t].pc \notin Provisioning
        BY <2>1, <2>2 DEF Move, Provisioning
    <2> QED
        BY <1>1, <1>2, <2>3, CallbackMoveInv
<1> QED
    BY <1>3, <1>4 DEF ExchangeAndVerify

LEMMA CreateUserAdds == \A d, u : Good(d) => DOMAIN d.users \subseteq DOMAIN CreateUser(d, u).db.users
BY DEF CreateUser, Ok, Err, Bind, Good, Typed, DbFields

LEMMA ResolveUserInv ==
    ASSUME Inv, NEW t \in Tasks, ResolveUser(t), UNCHANGED boot
    PROVE  Inv'
<1> DEFINE k == task[t]
<1>0. TasksOK /\ TaskOK(k) /\ DOMAIN task = Tasks /\ Good(db) /\ AbsentOK
    BY DEF Inv, TasksOK
<1>1. CASE At(t, "resolve") /\ UNCHANGED db
    <2>1. k.pc = "resolve" /\ k.pc \in Resolving /\ k.user \in Users \cup {Root} /\ k.flow \in FlowIds
        BY <1>0, <1>1 DEF At, TaskOK, CallingBack, Resolving, Provisioning
    <2>2. Good(db') /\ DOMAIN db.users \subseteq DOMAIN db'.users
        BY <1>0, <1>1, Zenon
    <2>3. CASE Mint(t)
        BY <2>1, <2>2, <2>3, MintInv
    <2>4. CASE Refuse(t)
        BY <2>2, <2>4, RefuseInv
    <2>5. CASE ~UserExists(db, k.user) /\ Proceed(t, "provision")
        <3>1. k.user \in absent[t]
            BY <1>0, <2>1, <2>5, ConsoleAssumption DEF AbsentOK, UserExists
        <3>2. "provision" \in Provisioning
            BY DEF Provisioning
        <3> QED
            BY <2>1, <2>2, <2>5, <3>1, <3>2, ProceedInv
    <2> QED
        BY <1>1, <2>1, <2>3, <2>4, <2>5 DEF ResolveUser, At
<1>2. CASE At(t, "provision")
    <2>1. k.pc = "provision" /\ k.pc \in Resolving /\ k.user \in Users \cup {Root} /\ k.user \in absent[t]
        BY <1>0, <1>2 DEF At, TaskOK, Resolving, Provisioning, AbsentOK
    <2>2. db' = CreateUser(db, k.user).db
        BY <1>2 DEF ResolveUser, At
    <2>3. Good(CreateUser(db, k.user).db) /\ DOMAIN db.users \subseteq DOMAIN CreateUser(db, k.user).db.users
        BY <1>0, <2>1, CreateUserIsGood, CreateUserAdds
    <2>4. Good(db') /\ DOMAIN db.users \subseteq DOMAIN db'.users
        BY <2>2, <2>3, Zenon
    <2>5. CASE Mint(t)
        BY <2>1, <2>4, <2>5, MintInv
    <2>6. CASE Refuse(t)
        BY <2>4, <2>6, RefuseInv
    <2>7. CASE k.config.policy # None /\ Proceed(t, "get_policy")
        <3>1. "get_policy" \in Provisioning
            BY DEF Provisioning
        <3> QED
            BY <2>1, <2>4, <2>7, <3>1, ProceedInv
    <2> QED
        BY <1>2, <2>5, <2>6, <2>7 DEF ResolveUser, At
<1>3. CASE At(t, "get_policy") /\ UNCHANGED db
    <2>1. /\ k.pc = "get_policy" /\ k.pc \in Resolving /\ k.user \in absent[t] /\ k.user \in Users \cup {Root}
          /\ k.config \in Configs /\ k.config.policy # None /\ k.flow \in FlowIds /\ DOMAIN k = TaskFields
        BY <1>0, <1>3 DEF At, TaskOK, CallingBack, Resolving, Provisioning, AbsentOK
    <2>2. Good(db') /\ DOMAIN db.users \subseteq DOMAIN db'.users
        BY <1>0, <1>3, Zenon
    <2>3. CASE Mint(t)
        BY <2>1, <2>2, <2>3, MintInv
    <2>4. ASSUME NEW doc \in Documents, task' = [task EXCEPT ![t].pc = "attach", ![t].doc = doc],
                 UNCHANGED <<limits, settings, flows, sessions, history>>
          PROVE  Inv'
        <3>1. /\ task' = [task EXCEPT ![t] = task'[t]] /\ DOMAIN task'[t] = TaskFields
              /\ task'[t].pc = "attach" /\ task'[t].flow = k.flow /\ task'[t].config = k.config
              /\ task'[t].user = k.user /\ task'[t].doc = doc
            BY <1>0, <2>1, <2>4 DEF TaskFields
        <3>2. TaskOK(task'[t])
            BY <2>1, <3>1 DEF TaskOK, CallingBack, Resolving, Provisioning
        <3>3. Move(t) /\ task'[t].user \in absent[t]
            BY <2>1, <3>1, <3>2 DEF Move
        <3> QED
            BY <2>2, <2>4, <3>3, CallbackMoveInv
    <2>5. GetPolicy(db, k.config.policy) = None \/ GetPolicy(db, k.config.policy) \in Documents
        BY <1>0 DEF GetPolicy, Good, Typed
    <2> QED
        BY <1>3, <2>1, <2>3, <2>4, <2>5 DEF ResolveUser, At
<1> QED
    BY <1>1, <1>2, <1>3 DEF ResolveUser

LEMMA AttachInv ==
    ASSUME Inv, NEW t \in Tasks, AttachDefaultPolicy(t), UNCHANGED boot
    PROVE  Inv'
<1> DEFINE k == task[t]
<1>0. TasksOK /\ TaskOK(k) /\ Good(db) /\ AbsentOK
    BY DEF Inv, TasksOK
<1>1. k.pc \in {"attach", "attach_insert"}
    BY DEF AttachDefaultPolicy, At
<1>2. /\ k.pc \in Resolving /\ k.user \in absent[t] /\ k.user \in Users \cup {Root}
      /\ k.config.policy \in PolicyNames /\ k.config.policy # None /\ k.doc \in Documents
    BY <1>0, <1>1 DEF TaskOK, Resolving, Provisioning, AbsentOK, Configs
<1>3. CASE k.pc = "attach"
    <2>1. Good(db') /\ DOMAIN db.users \subseteq DOMAIN db'.users
        <3>1. db' = db
            BY <1>3 DEF AttachDefaultPolicy, At
        <3> QED
            BY <1>0, <3>1, Zenon
    <2>2. CASE Mint(t)
        BY <1>2, <2>1, <2>2, MintInv
    <2>3. CASE Proceed(t, "attach_insert")
        <3>1. "attach_insert" \in Provisioning
            BY DEF Provisioning
        <3> QED
            BY <1>2, <2>1, <2>3, <3>1, ProceedInv
    <2> QED
        BY <1>3, <2>2, <2>3 DEF AttachDefaultPolicy, At
<1>4. CASE k.pc = "attach_insert"
    <2>1. db' = InsertUserPolicy(db, k.user, k.config.policy, k.doc).db /\ Mint(t)
        BY <1>4 DEF AttachDefaultPolicy, At
    <2>2. Good(InsertUserPolicy(db, k.user, k.config.policy, k.doc).db)
        BY <1>0, <1>2, InsertUserPolicyIsGood
    <2>3. Good(db')
        BY <2>1, <2>2, Zenon
    <2>4. DOMAIN db.users \subseteq DOMAIN db'.users
        BY <1>0, <2>1 DEF InsertUserPolicy, Ok, Err, Good, Typed, DbFields
    <2> QED
        BY <1>2, <2>1, <2>3, <2>4, MintInv
<1> QED
    BY <1>1, <1>3, <1>4

LEMMA SsoStepInv ==
    ASSUME Inv, NEW t \in Tasks, SsoStep(t), UNCHANGED boot
    PROVE  Inv'
BY LoginOidcInv, StartFlowInv, AuthCallbackInv, CallbackProviderInv, ExchangeInv, ResolveUserInv, AttachInv
   DEF SsoStep

-----------------------------------------------------------------------------
(* The settings.                                                             *)
LEMMA ProviderAdded ==
    ASSUME SettingsOK, NEW p \in Providers, NEW c \in Configs, providers' = Bind(providers, p, c), UNCHANGED smtp
    PROVE  SettingsOK'
BY DEF Bind, SettingsOK

(* Root's saves, and what the start of the process seeds.                    *)
SettingsStep ==
    CreateOidcProvider \/ UpdateOidcProvider \/ DeleteOidcProvider \/ SetSmtpConfig \/ SeedSmtpConfig \/ SeedOidcProvider

(* A session of root's means that root has logged in within its time.        *)
LEMMA RootWasHere ==
    ASSUME SessionsOK, RootSession
    PROVE  sinceRoot <= SessionTtl
<1>1. PICK s \in sessions : s.root
    BY DEF RootSession
<1>2. s.left \in 0 .. SessionTtl /\ s.left + sinceRoot <= SessionTtl /\ sinceRoot \in 0 .. SessionTtl + 1
    BY <1>1 DEF SessionsOK
<1> QED
    BY <1>2, ConsoleAssumption

(* One save: an empty field keeps a stored secret, and the rest stays as it  *)
(* was.                                                                      *)
Saved ==
    /\ \/ sinceRoot <= SessionTtl
       \/ boot = "smtp" /\ smtp = None /\ UNCHANGED providers
       \/ boot = "oidc" /\ DOMAIN providers = {} /\ UNCHANGED smtp
       \/ UNCHANGED settings
    /\ smtp \in Secrets => smtp' \in Secrets
    /\ \A p \in DOMAIN providers \cap DOMAIN providers' :
        providers[p].secret \in Secrets => providers'[p].secret \in Secrets

LEMMA SettingsStepSaves ==
    ASSUME SettingsOK, SessionsOK, SettingsStep
    PROVE  SettingsOK' /\ Saved
<1>0. SettingsOK /\ SessionsOK /\ providers \in [DOMAIN providers -> Configs]
    BY DEF SettingsOK
<1>1. CASE CreateOidcProvider
    <2>1. PICK p \in Providers \ DOMAIN providers, enabled \in BOOLEAN, auto \in BOOLEAN,
              policy \in PolicyNames \cup {None}, secret \in Secrets :
            providers' = Bind(providers, p, [enabled |-> enabled, auto |-> auto,
                                             policy |-> policy, secret |-> secret])
        BY <1>1 DEF CreateOidcProvider
    <2> DEFINE c == [enabled |-> enabled, auto |-> auto, policy |-> policy, secret |-> secret]
    <2>2. c \in Configs
        BY Zenon DEF Configs
    <2> HIDE DEF c
    <2>3. providers' = Bind(providers, p, c)
        BY <2>1 DEF c
    <2>5. UNCHANGED smtp /\ RootSession
        BY <1>1 DEF CreateOidcProvider
    <2>6. SettingsOK'
        BY <1>0, <2>2, <2>3, <2>5, ProviderAdded
    <2>7. \A x \in DOMAIN providers : providers'[x] = providers[x]
        BY <2>1, <2>3 DEF Bind
    <2> QED
        BY <1>0, <2>5, <2>6, <2>7, RootWasHere DEF Saved
<1>2. CASE UpdateOidcProvider
    <2>1. PICK p \in DOMAIN providers, enabled \in BOOLEAN, auto \in BOOLEAN,
              policy \in PolicyNames \cup {None}, secret \in Secrets \cup {Empty} :
            providers' = [providers EXCEPT ![p] =
                            [enabled |-> enabled, auto |-> auto, policy |-> policy,
                             secret |-> IF secret = Empty THEN @.secret ELSE secret]]
        BY <1>2 DEF UpdateOidcProvider
    <2> DEFINE sent == IF secret = Empty THEN providers[p].secret ELSE secret
               c == [enabled |-> enabled, auto |-> auto, policy |-> policy, secret |-> sent]
    <2>2. sent \in Secrets \cup {Empty} /\ (providers[p].secret \in Secrets => sent \in Secrets)
        BY <1>0 DEF Configs
    <2>3. providers' = [providers EXCEPT ![p] = c]
        BY <2>1
    <2> HIDE DEF sent
    <2>4. c \in Configs
        BY <2>2, Zenon DEF Configs
    <2>5. c.secret = sent
        OBVIOUS
    <2> HIDE DEF c
    <2>6. UNCHANGED smtp /\ RootSession
        BY <1>2 DEF UpdateOidcProvider
    <2>7. SettingsOK'
        BY <1>0, <2>3, <2>4, <2>6 DEF SettingsOK
    <2>8. \A x \in DOMAIN providers : providers[x].secret \in Secrets => providers'[x].secret \in Secrets
        BY <1>0, <2>2, <2>3, <2>5
    <2> QED
        BY <1>0, <2>6, <2>7, <2>8, RootWasHere DEF Saved
<1>3. CASE DeleteOidcProvider
    <2>1. PICK p \in DOMAIN providers : providers' = Without(providers, {p})
        BY <1>3 DEF DeleteOidcProvider
    <2>2. /\ DOMAIN providers' \subseteq DOMAIN providers
          /\ providers' = [x \in DOMAIN providers' |-> providers[x]]
        BY <2>1 DEF Without, Restrict
    <2>3. UNCHANGED smtp /\ RootSession
        BY <1>3 DEF DeleteOidcProvider
    <2>4. SettingsOK'
        BY <1>0, <2>2, <2>3 DEF SettingsOK
    <2>5. \A x \in DOMAIN providers' : providers'[x] = providers[x]
        BY <2>2
    <2> QED
        BY <1>0, <2>3, <2>4, <2>5, RootWasHere DEF Saved
<1>4. CASE SetSmtpConfig
    <2>1. UNCHANGED providers /\ RootSession
        BY <1>4 DEF SetSmtpConfig
    <2>2. smtp' \in Secrets \cup {None, Empty} /\ (smtp \in Secrets => smtp' \in Secrets)
        <3>1. PICK password \in Secrets \cup {Empty} :
                smtp' = CASE password # Empty -> password
                          [] password = Empty /\ smtp # None -> smtp
                          [] OTHER -> Empty
            BY <1>4 DEF SetSmtpConfig
        <3>2. CASE password # Empty
            <4>1. smtp' = password
                BY <3>1, <3>2
            <4> QED
                BY <3>2, <4>1
        <3>3. CASE password = Empty /\ smtp # None
            <4>1. smtp' = smtp
                BY <3>1, <3>3
            <4> QED
                BY <1>0, <4>1 DEF SettingsOK
        <3>4. CASE password = Empty /\ smtp = None
            <4>1. smtp' = Empty
                BY <3>1, <3>4
            <4> QED
                BY <3>4, <4>1, ConsoleAssumption
        <3> QED
            BY <3>2, <3>3, <3>4
    <2> QED
        BY <1>0, <2>1, <2>2, RootWasHere DEF SettingsOK, Saved
<1>5. CASE SeedSmtpConfig
    <2>1. UNCHANGED providers /\ boot = "smtp"
        BY <1>5 DEF SeedSmtpConfig
    <2>2. UNCHANGED smtp \/ (smtp = None /\ smtp' \in Secrets \cup {Empty})
        BY <1>5 DEF SeedSmtpConfig
    <2> QED
        BY <1>0, <2>1, <2>2, ConsoleAssumption DEF SettingsOK, Saved, settings
<1>6. CASE SeedOidcProvider
    <2>1. UNCHANGED smtp /\ boot = "oidc"
        BY <1>6 DEF SeedOidcProvider
    <2>2. CASE UNCHANGED providers
        BY <1>0, <2>1, <2>2 DEF SettingsOK, Saved, settings
    <2>3. ASSUME DOMAIN providers = {}, NEW p \in Providers, NEW c \in EnvOidcProviders,
                 providers' = Bind(providers, p, c)
          PROVE  SettingsOK' /\ Saved
        <3>1. c \in Configs
            BY DEF EnvOidcProviders, Configs
        <3>2. SettingsOK'
            BY <1>0, <2>1, <2>3, <3>1, ProviderAdded
        <3> QED
            BY <1>0, <2>1, <2>3, <3>2 DEF Saved
    <2> QED
        BY <1>6, <2>2, <2>3 DEF SeedOidcProvider
<1> QED
    BY <1>1, <1>2, <1>3, <1>4, <1>5, <1>6 DEF SettingsStep

LEMMA SettingsStepInv ==
    ASSUME Inv, SettingsStep, UNCHANGED boot \/ SeedSmtpConfig \/ SeedOidcProvider
    PROVE  Inv'
<1>0. /\ Good(db) /\ TasksOK /\ SettingsOK /\ LimitsOK /\ SessionsOK /\ FlowsOK /\ AbsentOK /\ BootOK
    BY DEF Inv
<1>1. UNCHANGED <<db, limits, flows, sessions, task, minted, absent, sinceRoot>>
    BY DEF SettingsStep, CreateOidcProvider, UpdateOidcProvider, DeleteOidcProvider, SetSmtpConfig,
           SeedSmtpConfig, SeedOidcProvider, history
<1>2. BootOK'
    BY <1>0 DEF BootOK, SeedSmtpConfig, SeedOidcProvider
<1>3. Good(db') /\ TasksOK' /\ LimitsOK' /\ SessionsOK' /\ FlowsOK' /\ AbsentOK'
    <2>1. Good(db')
        BY <1>0, <1>1, Zenon
    <2>2. TasksOK'
        BY <1>0, <1>1, Zenon DEF TasksOK
    <2> QED
        BY <1>0, <1>1, <2>1, <2>2 DEF LimitsOK, SessionsOK, FlowsOK, AbsentOK
<1> QED
    BY <1>0, <1>2, <1>3, SettingsStepSaves DEF Inv

-----------------------------------------------------------------------------
(* The other steps.                                                          *)
LEMMA AdminChangeInv ==
    ASSUME Inv, AdminChange, UNCHANGED boot
    PROVE  Inv'
<1>0. /\ Good(db) /\ TasksOK /\ SettingsOK /\ LimitsOK /\ SessionsOK /\ FlowsOK /\ AbsentOK /\ BootOK
    BY DEF Inv
<1>1. UNCHANGED <<limits, settings, flows, sessions, task, minted, sinceRoot>>
    BY DEF AdminChange
<1>2. Good(db')
    <2>1. ASSUME NEW e, Good(e), db' = e PROVE Good(db')
        BY <2>1, Zenon
    <2>2. "inactive" \in Statuses
        BY DEF Statuses
    <2>3. ASSUME NEW u \in Users, db' = CreateUser(db, u).db PROVE Good(db')
        BY <1>0, <2>1, <2>3, CreateUserIsGood
    <2>4. ASSUME NEW u \in Users, db' = DeleteUser(db, u).db PROVE Good(db')
        BY <1>0, <2>1, <2>4, DeleteUserIsGood
    <2>5. ASSUME NEW u \in Users, db' = UpdateUserStatus(db, u, "inactive").db PROVE Good(db')
        BY <1>0, <2>1, <2>2, <2>5, UpdateUserStatusIsGood
    <2>6. ASSUME NEW u \in Users, NEW k, db' = InsertAccessKey(db, k, u).db PROVE Good(db')
        <3>1. Good(InsertAccessKey(db, k, u).db)
            BY <1>0, InsertAccessKeyIsGood
        <3> QED
            BY <2>1, <2>6, <3>1
    <2>7. ASSUME NEW name \in PolicyNames, NEW doc \in Documents, db' = CreatePolicy(db, name, doc).db PROVE Good(db')
        BY <1>0, <2>1, <2>7, CreatePolicyIsGood
    <2>8. ASSUME NEW name \in PolicyNames, db' = DeletePolicy(db, name).db PROVE Good(db')
        BY <1>0, <2>1, <2>8, DeletePolicyIsGood
    <2> QED
        BY <2>3, <2>4, <2>5, <2>6, <2>7, <2>8 DEF AdminChange
<1>3. AbsentOK'
    <2>1. absent' = [t \in Tasks |-> IF task[t].flow = None THEN absent[t]
                                     ELSE absent[t] \cup (Users \ DOMAIN db'.users)]
        BY DEF AdminChange
    <2>2. \A t \in Tasks : absent[t] \subseteq absent'[t]
        BY <2>1
    <2>3. \A t \in Tasks : task[t].flow # None => Users \ DOMAIN db'.users \subseteq absent'[t]
        BY <2>1
    <2> QED
        BY <1>0, <1>1, <2>1, <2>2, <2>3 DEF AbsentOK
<1>4. TasksOK'
    BY <1>0, <1>1, Zenon DEF TasksOK
<1> QED
    BY <1>0, <1>1, <1>2, <1>3, <1>4 DEF Inv, LimitsOK, SessionsOK, FlowsOK, SettingsOK, settings, BootOK

LEMMA AllIdle ==
    ASSUME task' = [t \in Tasks |-> Idle]
    PROVE  TasksOK' /\ \A t \in Tasks : task'[t] = Idle
<1>1. \A t \in Tasks : task'[t] = Idle
    OBVIOUS
<1>2. \A t \in Tasks : TaskOK(task'[t])
    BY <1>1, IdleOK
<1> QED
    BY <1>1, <1>2 DEF TasksOK

LEMMA RestartInv ==
    ASSUME Inv, Restart
    PROVE  Inv'
<1>0. /\ Good(db) /\ SettingsOK /\ LimitsOK /\ SessionsOK /\ FlowsOK /\ BootOK
    BY DEF Inv
<1>1. /\ UNCHANGED <<db, limits, settings, minted, sinceRoot>> /\ boot' = "smtp" /\ flows' = <<>>
      /\ task' = [t \in Tasks |-> Idle] /\ sessions' \in {sessions, {}} /\ absent' = [t \in Tasks |-> {}]
    BY DEF Restart
<1>2. Good(db')
    BY <1>0, <1>1, Zenon
<1>3. TasksOK' /\ \A t \in Tasks : task'[t] = Idle
    BY <1>1, AllIdle
<1>4. FlowsOK'
    <2>1. DOMAIN flows' = {}
        BY <1>1
    <2> QED
        BY <1>0, <1>1, <1>3, <2>1, IdleOK, ConsoleAssumption DEF FlowsOK
<1>5. AbsentOK'
    BY <1>1, <1>3, IdleOK DEF AbsentOK, Provisioning
<1>6. SessionsOK'
    <2>1. sessions' \subseteq sessions /\ sinceRoot' = sinceRoot
        BY <1>1
    <2> QED
        BY <1>0, <2>1 DEF SessionsOK
<1> QED
    BY <1>0, <1>1, <1>2, <1>3, <1>4, <1>5, <1>6 DEF Inv, LimitsOK, SettingsOK, settings, BootOK

LEMMA TickInv ==
    ASSUME Inv, Tick, UNCHANGED boot
    PROVE  Inv'
<1>0. /\ Good(db) /\ TasksOK /\ SettingsOK /\ LimitsOK /\ SessionsOK /\ FlowsOK /\ AbsentOK /\ BootOK
    BY DEF Inv
<1>1. UNCHANGED <<db, settings, task, minted, absent>> /\ DOMAIN flows' = DOMAIN flows
    BY DEF Tick
<1>2. Good(db') /\ TasksOK'
    <2>1. Good(db')
        BY <1>0, <1>1, Zenon
    <2> QED
        BY <1>0, <1>1, <2>1, Zenon DEF TasksOK
<1>3. MaxAttempts \in Nat /\ MaxAttempts > 1 /\ Window \in Nat /\ Lockout \in Nat /\ Lockout > Window /\ SessionTtl \in Nat
    BY ConsoleAssumption
<1>4. LimitsOK'
    <2> DEFINE R == [attempts: 0 .. MaxAttempts, age: 0 .. Window + 1, locked: 0 .. Lockout]
               Aged(row) == IF row = NoLimit THEN NoLimit
                            ELSE [row EXCEPT !.age = Capped(@, Window + 1), !.locked = IF @ > 0 THEN @ - 1 ELSE 0]
               Fine(row) == row.attempts = MaxAttempts /\ row.age <= Window => row.locked + row.age >= Lockout
    <2>1. limits' = [ip \in Ips |-> Aged(limits[ip])]
        BY DEF Tick
    <2>2. ASSUME NEW row \in R, Fine(row) PROVE Aged(row) \in R /\ Fine(Aged(row))
        <3>1. CASE row = NoLimit
            BY <3>1, NoLimitIsFine
        <3>2. CASE row # NoLimit
            <4> DEFINE age == Capped(row.age, Window + 1)
                       locked == IF row.locked > 0 THEN row.locked - 1 ELSE 0
                       a == [row EXCEPT !.age = age, !.locked = locked]
            <4>1. Aged(row) = a
                BY <3>2
            <4>2. /\ DOMAIN row = {"attempts", "age", "locked"} /\ row.attempts \in 0 .. MaxAttempts
                  /\ row.age \in 0 .. Window + 1 /\ row.locked \in 0 .. Lockout
                OBVIOUS
            <4>3. age \in 0 .. Window + 1 /\ locked \in 0 .. Lockout
                BY <1>3, <4>2 DEF Capped
            <4>4. row.attempts = MaxAttempts /\ age <= Window => locked + age >= Lockout
                BY <1>3, <2>2, <4>2 DEF Capped
            <4> HIDE DEF age, locked
            <4>5. a.attempts = row.attempts /\ a.age = age /\ a.locked = locked
                BY <4>2
            <4>6. a \in R
                BY <4>2, <4>3
            <4> HIDE DEF a
            <4> QED
                BY <4>1, <4>4, <4>5, <4>6
        <3> QED
            BY <3>1, <3>2
    <2>3. limits \in [Ips -> R] /\ \A ip \in Ips : Fine(limits[ip])
        BY <1>0 DEF LimitsOK
    <2> HIDE DEF Aged, Fine
    <2>4. limits' \in [Ips -> R] /\ \A ip \in Ips : Fine(limits'[ip])
        BY <2>1, <2>2, <2>3
    <2> QED
        BY <2>4 DEF LimitsOK, Fine
<1>5. SessionsOK'
    <2> DEFINE T == [sub: Users \cup {Root}, root: BOOLEAN, left: 0 .. SessionTtl]
    <2>1. sinceRoot' = Capped(sinceRoot, SessionTtl + 1) /\ sinceRoot \in 0 .. SessionTtl + 1
        BY <1>0 DEF Tick, SessionsOK
    <2>2. sinceRoot' \in 0 .. SessionTtl + 1 /\ sinceRoot' <= sinceRoot + 1
        BY <1>3, <2>1 DEF Capped
    <2>3. ASSUME NEW s \in sessions' PROVE s \in T /\ (s.root => s.left + sinceRoot' <= SessionTtl)
        <3>1. PICK x \in sessions : x.left > 0 /\ s = [x EXCEPT !.left = @ - 1]
            BY <2>3 DEF Tick
        <3>2. /\ DOMAIN x = {"sub", "root", "left"} /\ x.sub \in Users \cup {Root} /\ x.root \in BOOLEAN
              /\ x.left \in 0 .. SessionTtl /\ (x.root => x.left + sinceRoot <= SessionTtl)
            BY <1>0 DEF SessionsOK
        <3>3. s.sub = x.sub /\ s.root = x.root /\ s.left = x.left - 1
            BY <3>1, <3>2
        <3>4. s.left \in 0 .. SessionTtl
            BY <1>3, <3>1, <3>2, <3>3
        <3>5. s = [sub |-> s.sub, root |-> s.root, left |-> s.left]
            BY <3>1, <3>2
        <3>6. s \in T
            <4>1. s.sub \in Users \cup {Root} /\ s.root \in BOOLEAN
                BY <3>2, <3>3, Zenon
            <4> QED
                BY <3>4, <3>5, <4>1, Zenon
        <3>7. ASSUME s.root PROVE s.left + sinceRoot' <= SessionTtl
            BY <1>3, <2>1, <2>2, <3>2, <3>3, <3>7
        <3> QED
            BY <3>6, <3>7
    <2> QED
        BY <2>2, <2>3 DEF SessionsOK
<1> QED
    BY <1>0, <1>1, <1>2, <1>4, <1>5 DEF Inv, FlowsOK, AbsentOK, SettingsOK, settings, BootOK

-----------------------------------------------------------------------------
LEMMA InitInv == Init => Inv
<1> SUFFICES ASSUME Init PROVE Inv
    OBVIOUS
<1>0. MaxAttempts \in Nat /\ MaxAttempts > 1 /\ SessionTtl \in Nat
    BY ConsoleAssumption
<1>1. Good(db)
    <2>1. db = EmptyDb
        BY DEF Init
    <2> QED
        BY <2>1, EmptyIsGood
<1>2. TasksOK /\ \A t \in Tasks : task[t] = Idle
    <2>1. task = [t \in Tasks |-> Idle]
        BY DEF Init
    <2>2. \A t \in Tasks : task[t] = Idle
        BY <2>1
    <2>3. \A t \in Tasks : TaskOK(task[t])
        BY <2>2, IdleOK
    <2> QED
        BY <2>1, <2>2, <2>3 DEF TasksOK
<1>3. SettingsOK
    <2>1. providers = <<>> /\ smtp = None
        BY DEF Init
    <2> QED
        BY <2>1 DEF SettingsOK
<1>4. LimitsOK
    BY <1>0, NoLimitIsFine DEF LimitsOK, Init
<1>5. SessionsOK
    BY <1>0 DEF SessionsOK, Init
<1>6. FlowsOK
    <2>1. DOMAIN flows = {} /\ minted = [f \in FlowIds |-> 0]
        BY DEF Init
    <2> QED
        BY <1>2, <2>1, IdleOK, ConsoleAssumption DEF FlowsOK
<1>7. AbsentOK
    BY <1>2, IdleOK DEF AbsentOK, Init, Provisioning
<1>8. BootOK
    BY DEF Init, BootOK
<1> QED
    BY <1>1, <1>2, <1>3, <1>4, <1>5, <1>6, <1>7, <1>8 DEF Inv

LEMMA NextInv == Inv /\ [Next]_vars => Inv'
<1> SUFFICES ASSUME Inv, [Next]_vars PROVE Inv'
    OBVIOUS
<1>1. CASE UNCHANGED vars
    <2>1. UNCHANGED <<boot, db, limits, providers, smtp, flows, sessions, task, minted, absent, sinceRoot>>
        BY <1>1 DEF vars, settings, history
    <2>2. Good(db') /\ TasksOK'
        <3>1. Good(db')
            BY <2>1, Zenon DEF Inv
        <3> QED
            BY <2>1, <3>1, Zenon DEF Inv, TasksOK
    <2> QED
        BY <2>1, <2>2 DEF Inv, SettingsOK, LimitsOK, SessionsOK, FlowsOK, AbsentOK, BootOK
<1>2. ASSUME NEW t \in Tasks, Request(t), UNCHANGED boot PROVE Inv'
    <2>1. LoginStep(t) \/ SsoStep(t)
        BY <1>2 DEF Request, LoginStep, SsoStep
    <2> QED
        BY <1>2, <2>1, LoginStepInv, SsoStepInv
<1>3. CASE AdminRequest /\ UNCHANGED boot
    <2>1. SettingsStep \/ AdminChange
        BY <1>3 DEF AdminRequest, SettingsStep
    <2> QED
        BY <1>3, <2>1, SettingsStepInv, AdminChangeInv
<1>4. CASE SeedSmtpConfig \/ SeedOidcProvider
    <2>1. SettingsStep
        BY <1>4 DEF SettingsStep
    <2> QED
        BY <1>4, <2>1, SettingsStepInv
<1>5. CASE TimePasses
    BY <1>5, TickInv DEF TimePasses
<1> QED
    BY <1>1, <1>2, <1>3, <1>4, <1>5, RestartInv DEF Next

(* Every reachable state has the invariant.                                  *)
THEOREM Invariance == Spec => []Inv
BY InitInv, NextInv, PTL DEF Spec

(* Rows, settings, flows, sessions and requests have their types for any     *)
(* number of requests, addresses and providers; in particular                *)
(* record_login_failure never counts an address beyond max_attempts.         *)
THEOREM TypeCorrect == Spec => []TypeOK
<1>1. Inv => TypeOK
    BY DEF Inv, TasksOK, SettingsOK, LimitsOK, SessionsOK, FlowsOK, BootOK, TypeOK
<1> QED
    BY <1>1, Invariance, PTL

(* A state token leads to one session at most, however many deliveries of    *)
(* the redirect are in flight: auth_callback removes the flow before it      *)
(* awaits anything.                                                          *)
THEOREM FlowsAreUsedOnce == Spec => []FlowUsedOnce
<1>1. Inv => FlowUsedOnce
    <2> SUFFICES ASSUME Inv, NEW f \in FlowIds PROVE minted[f] <= 1
        BY DEF FlowUsedOnce
    <2>1. minted[f] \in {0, 1}
        BY DEF Inv, FlowsOK
    <2> QED
        BY <2>1
<1> QED
    BY <1>1, Invariance, PTL

(* resolve_user creates, and gives the default policy to, only users who     *)
(* were absent at some time of the callback, whatever the admin API does to  *)
(* the tables between its awaits.                                            *)
THEOREM OnlyNewUsersAreProvisioned == Spec => []ProvisionsOnlyNewUsers
<1>1. Inv => ProvisionsOnlyNewUsers
    BY DEF Inv, AbsentOK, Provisioning, ProvisionsOnlyNewUsers
<1> QED
    BY <1>1, Invariance, PTL

(* The settings change only by root, within a session's time of a login with *)
(* the root credentials, or by the start that finds nothing stored, and no   *)
(* save loses a stored secret.                                               *)
THEOREM SettingsAreRoots == Spec => SettingsAreKept
<1>1. Inv /\ [Next]_vars =>
        [/\ \/ sinceRoot <= SessionTtl
            \/ boot = "smtp" /\ smtp = None /\ UNCHANGED providers
            \/ boot = "oidc" /\ DOMAIN providers = {} /\ UNCHANGED smtp
         /\ smtp \in Secrets => smtp' \in Secrets
         /\ \A p \in DOMAIN providers \cap DOMAIN providers' :
              providers[p].secret \in Secrets => providers'[p].secret \in Secrets]_settings
    <2> SUFFICES ASSUME Inv, [Next]_vars, ~UNCHANGED settings PROVE Saved
        BY DEF Saved
    <2>1. SettingsStep
        <3>1. ASSUME NEW t \in Tasks, LoginStep(t) PROVE UNCHANGED settings
            BY <3>1 DEF LoginStep, Login, LoginWithKey, LoginWithPassword, PasswordUser, RecordFailure, LoginSucceeds
        <3>2. ASSUME NEW t \in Tasks, SsoStep(t) PROVE UNCHANGED settings
            BY <3>2 DEF SsoStep, LoginOidc, StartFlow, AuthCallback, CallbackProvider, ExchangeAndVerify,
                        ResolveUser, AttachDefaultPolicy, Mint, Proceed, Refuse
        <3>3. AdminChange \/ Restart \/ TimePasses => UNCHANGED settings
            BY DEF AdminChange, Restart, TimePasses, Tick
        <3>4. UNCHANGED vars => UNCHANGED settings
            BY DEF vars
        <3>5. \A t \in Tasks : Request(t) => LoginStep(t) \/ SsoStep(t)
            BY DEF Request, LoginStep, SsoStep
        <3>6. AdminRequest => SettingsStep \/ AdminChange
            BY DEF AdminRequest, SettingsStep
        <3> QED
            BY <3>1, <3>2, <3>3, <3>4, <3>5, <3>6 DEF Next, SettingsStep
    <2> QED
        BY <2>1, SettingsStepSaves DEF Inv
<1> QED
    BY <1>1, Invariance, PTL DEF Spec, SettingsAreKept

-----------------------------------------------------------------------------
(* The budget of guesses.                                                    *)

(* The guesses that are younger than n.                                      *)
Within(made, n) == Cardinality({g \in made : g[1] < n})

Reached(ip, pc) == {t \in Tasks : task[t].pc = pc /\ task[t].ip = ip}
Trying(ip) == Cardinality(Reached(ip, "credentials"))
Waiting(ip) == Cardinality(Reached(ip, "record"))

(* What the row before may have left of guesses when a row begins: all but   *)
(* the first of those it counted, or those that were made during a lockout.  *)
Spill == IF MaxAttempts - 2 > Cardinality(Tasks) - 1 THEN MaxAttempts - 2 ELSE Cardinality(Tasks) - 1

(* The guesses of an address are those that wait to be recorded, those its   *)
(* row has counted, and the spill.  A row that is not full has counted all   *)
(* that are younger than it and do not wait.  A lockout lets only those      *)
(* guess that try already, and that is all that is left when it ends, since  *)
(* it is longer than the window.                                             *)
Budgeted(row, made, trying, waiting) ==
    LET total == Cardinality(made)
        n == Cardinality(Tasks)
    IN  /\ row = NoLimit => total <= waiting
        /\ row # NoLimit => row.attempts >= 1
        /\ row.locked > 0 =>
            /\ row.attempts = MaxAttempts
            /\ total + trying <= Spill + MaxAttempts + n - 1
            /\ Within(made, Lockout - row.locked) + trying <= n - 1
        /\ row # NoLimit /\ row.attempts < MaxAttempts =>
            /\ Within(made, row.age) <= row.attempts - 1 + waiting
            /\ row.age <= Window => total <= Spill + row.attempts + waiting
        /\ row.attempts = MaxAttempts /\ row.locked = 0 => total <= n - 1 + waiting

Made == {made \in SUBSET ((0 .. Window) \X Nat) : IsFiniteSet(made)}
Rows == {row \in [attempts: 0 .. MaxAttempts, age: 0 .. Window + 1, locked: 0 .. Lockout] :
            row.attempts = MaxAttempts /\ row.age <= Window => row.locked + row.age >= Lockout}

BudgetInv ==
    /\ guesses \in [Ips -> Made]
    /\ \A t \in Tasks : task[t].pc \in {"credentials", "record", "get_user", "clear"} => task[t].ip \in Ips
    /\ \A ip \in Ips : Budgeted(limits[ip], guesses[ip], Trying(ip), Waiting(ip))

LEMMA Numbers ==
    /\ MaxAttempts \in Nat /\ MaxAttempts >= 2 /\ Window \in Nat /\ Lockout \in Nat /\ Lockout > Window
    /\ Cardinality(Tasks) \in Nat /\ Cardinality(Tasks) >= 1
    /\ Spill \in Nat /\ Spill >= MaxAttempts - 2 /\ Spill >= Cardinality(Tasks) - 1
    /\ Spill <= MaxAttempts + Cardinality(Tasks) - 3
<1>1. Cardinality(Tasks) \in Nat /\ Cardinality(Tasks) # 0
    BY ConsoleAssumption, FS_CardinalityType, FS_EmptySet
<1>2. MaxAttempts \in Nat /\ MaxAttempts >= 2 /\ Window \in Nat /\ Lockout \in Nat /\ Lockout > Window
    BY ConsoleAssumption
<1> QED
    BY <1>1, <1>2 DEF Spill

LEMMA Counting ==
    ASSUME NEW made \in Made
    PROVE  /\ Cardinality(made) \in Nat
           /\ \A n \in Int : Within(made, n) \in Nat /\ Within(made, n) <= Cardinality(made)
           /\ Within(made, 0) = 0
           /\ \A n \in Int : n > Window => Within(made, n) = Cardinality(made)
<1>1. IsFiniteSet(made) /\ made \subseteq (0 .. Window) \X Nat
    BY DEF Made
<1>2. ASSUME NEW n \in Int PROVE Within(made, n) \in Nat /\ Within(made, n) <= Cardinality(made)
    <2>1. {g \in made : g[1] < n} \in SUBSET made
        OBVIOUS
    <2> QED
        BY <1>1, <2>1, FS_Subset, FS_CardinalityType DEF Within
<1>3. Within(made, 0) = 0
    <2>1. {g \in made : g[1] < 0} = {}
        BY <1>1
    <2> QED
        BY <2>1, FS_EmptySet DEF Within
<1>4. ASSUME NEW n \in Int, n > Window PROVE Within(made, n) = Cardinality(made)
    <2>1. {g \in made : g[1] < n} = made
        BY <1>1, <1>4, Numbers
    <2> QED
        BY <2>1 DEF Within
<1> QED
    BY <1>1, <1>2, <1>3, <1>4, FS_CardinalityType

(* The number of a new guess is free: there is one more of them than there   *)
(* are guesses.                                                              *)
LEMMA GuessIsNew ==
    ASSUME NEW made \in Made
    PROVE  NewGuess(made) \in {0} \X Nat /\ NewGuess(made) \notin made
<1> DEFINE Ns == 0 .. Cardinality(made)
<1>0. IsFiniteSet(made) /\ Cardinality(made) \in Nat
    BY FS_CardinalityType DEF Made
<1>1. \E n \in Ns : <<0, n>> \notin made
    <2> SUFFICES ASSUME \A n \in Ns : <<0, n>> \in made PROVE FALSE
        OBVIOUS
    <2> DEFINE f == [n \in Ns |-> <<0, n>>]
    <2>1. f \in [Ns -> made] /\ \A x, y \in Ns : f[x] = f[y] => x = y
        OBVIOUS
    <2>2. IsFiniteSet(Ns) /\ Cardinality(Ns) = Cardinality(made) + 1
        BY <1>0, FS_Interval
    <2> HIDE DEF f, Ns
    <2> QED
        BY <1>0, <2>1, <2>2, FS_PigeonHole
<1>2. \A n \in Ns : n \in Nat
    BY <1>0
<1> HIDE DEF Ns
<1>3. PICK m : m = CHOOSE n \in Ns : <<0, n>> \notin made
    OBVIOUS
<1>4. m \in Ns /\ <<0, m>> \notin made
    BY <1>1, <1>3
<1>5. NewGuess(made) = <<0, m>>
    BY <1>3 DEF NewGuess, Ns
<1> QED
    BY <1>2, <1>4, <1>5

(* One who tries guesses wrong and waits to have it recorded.                *)
LEMMA GuessBudgeted ==
    ASSUME NEW row \in Rows, NEW made \in Made, NEW c \in Nat, NEW w \in Nat, c > 0,
           Budgeted(row, made, c, w)
    PROVE  /\ made \cup {NewGuess(made)} \in Made
           /\ Budgeted(row, made \cup {NewGuess(made)}, c - 1, w + 1)
<1> DEFINE g == NewGuess(made)
           more == made \cup {g}
<1>0. IsFiniteSet(made) /\ g \in (0 .. Window) \X Nat /\ g \notin made /\ made \subseteq (0 .. Window) \X Nat
    BY GuessIsNew, Numbers DEF Made
<1> HIDE DEF g
<1>1. more \in Made /\ Cardinality(more) = Cardinality(made) + 1
    BY <1>0, FS_AddElement DEF Made
<1>2. \A n \in Int : Within(more, n) <= Within(made, n) + 1
    <2> SUFFICES ASSUME NEW n \in Int PROVE Within(more, n) <= Within(made, n) + 1
        OBVIOUS
    <2> DEFINE S == {x \in made : x[1] < n}
    <2>1. IsFiniteSet(S)
        <3>1. S \in SUBSET made
            OBVIOUS
        <3> QED
            BY <1>0, <3>1, FS_Subset
    <2> DEFINE T == {x \in more : x[1] < n}
    <2>2. T = S \/ T = S \cup {g}
        OBVIOUS
    <2> HIDE DEF S, T
    <2>3. Cardinality(S) \in Nat /\ Cardinality(S \cup {g}) <= Cardinality(S) + 1
        BY <2>1, FS_AddElement, FS_CardinalityType
    <2>4. Within(made, n) = Cardinality(S) /\ Within(more, n) = Cardinality(T)
        BY DEF Within, S, T
    <2>5. Cardinality(T) <= Cardinality(S) + 1
        <3>1. CASE T = S
            BY <2>3, <3>1
        <3>2. CASE T = S \cup {g}
            BY <2>3, <3>2
        <3> QED
            BY <2>2, <3>1, <3>2
    <2> QED
        BY <2>4, <2>5
<1>3. row.age \in Int /\ row.locked \in 0 .. Lockout /\ row.attempts \in Nat
    BY Numbers DEF Rows
<1> HIDE DEF more
<1>4. /\ Within(more, row.age) <= Within(made, row.age) + 1
      /\ Within(more, Lockout - row.locked) <= Within(made, Lockout - row.locked) + 1
      /\ Within(more, row.age) \in Nat /\ Within(made, row.age) \in Nat
      /\ Within(more, Lockout - row.locked) \in Nat /\ Within(made, Lockout - row.locked) \in Nat
      /\ Cardinality(made) \in Nat
    <2>1. Lockout - row.locked \in Int
        BY <1>3, Numbers
    <2> QED
        BY <1>1, <1>2, <1>3, <2>1, Counting
<1>5. Budgeted(row, more, c - 1, w + 1)
    BY <1>1, <1>3, <1>4, Numbers DEF Budgeted
<1> QED
    BY <1>1, <1>5 DEF more, g

(* Fewer try, more wait; while there is no lockout anybody may try.          *)
LEMMA OthersBudgeted ==
    ASSUME NEW row \in Rows, NEW made \in Made, NEW c \in Nat, NEW w \in Nat, NEW d \in Nat, NEW v \in Nat,
           d <= c \/ row.locked = 0, v >= w, Budgeted(row, made, c, w)
    PROVE  Budgeted(row, made, d, v)
<1>1. row.age \in Int /\ row.locked \in 0 .. Lockout /\ row.attempts \in Nat
    BY Numbers DEF Rows
<1>2. Lockout - row.locked \in Int
    BY <1>1, Numbers
<1>3. Within(made, row.age) \in Nat /\ Within(made, Lockout - row.locked) \in Nat /\ Cardinality(made) \in Nat
    BY <1>1, <1>2, Counting
<1> QED
    BY <1>1, <1>3, Numbers DEF Budgeted

(* A failure is recorded.                                                    *)
LEMMA RecordBudgeted ==
    ASSUME NEW row \in Rows, NEW made \in Made, NEW c \in Nat, NEW w \in Nat, w > 0,
           c + w <= Cardinality(Tasks), Budgeted(row, made, c, w)
    PROVE  Budgeted(RecordLoginFailure(row), made, c, w - 1)
<1> DEFINE new == RecordLoginFailure(row)
<1>1. /\ row.age \in 0 .. Window + 1 /\ row.locked \in 0 .. Lockout /\ row.attempts \in 0 .. MaxAttempts
      /\ row.attempts = MaxAttempts /\ row.age <= Window => row.locked + row.age >= Lockout
      /\ DOMAIN row = {"attempts", "age", "locked"}
    BY Numbers DEF Rows
<1>2. /\ Cardinality(made) \in Nat /\ Within(made, 0) = 0 /\ Within(made, Window + 1) = Cardinality(made)
      /\ Within(made, row.age) \in Nat
    BY <1>1, Counting, Numbers
<1>3. NoLimit.attempts = 0 /\ NoLimit.locked = 0
    BY DEF NoLimit
<1>4. CASE row = NoLimit \/ (row.locked = 0 /\ row.age > Window)
    <2>1. new = [attempts |-> 1, age |-> 0, locked |-> 0]
        BY <1>4 DEF RecordLoginFailure, NoLimit
    <2>2. Cardinality(made) <= Spill + w
        <3>1. CASE row = NoLimit
            BY <1>2, <3>1, Numbers DEF Budgeted
        <3>2. CASE row # NoLimit /\ row.attempts < MaxAttempts
            <4>1. row.age = Window + 1
                BY <1>1, <1>4, <3>2, Numbers
            <4> QED
                BY <1>1, <1>2, <3>2, <4>1, Numbers DEF Budgeted
        <3>3. CASE row # NoLimit /\ row.attempts = MaxAttempts
            BY <1>2, <1>4, <3>3, Numbers DEF Budgeted
        <3> QED
            BY <1>1, <3>1, <3>2, <3>3, Numbers
    <2>3. new.attempts = 1 /\ new.age = 0 /\ new.locked = 0 /\ new # NoLimit
        BY <1>3, <2>1
    <2> HIDE DEF new
    <2>4. Budgeted(new, made, c, w - 1)
        BY <1>2, <2>2, <2>3, Numbers DEF Budgeted
    <2> QED
        BY <2>4 DEF new
<1>5. CASE ~(row = NoLimit \/ (row.locked = 0 /\ row.age > Window)) /\ row.locked > 0
    <2>1. new = row
        BY <1>5 DEF RecordLoginFailure
    <2>2. row.attempts = MaxAttempts
        BY <1>5 DEF Budgeted
    <2> HIDE DEF new
    <2>3. Budgeted(new, made, c, w - 1)
        BY <1>1, <1>5, <2>1, <2>2, Numbers DEF Budgeted
    <2> QED
        BY <2>3 DEF new
<1>6. CASE ~(row = NoLimit \/ (row.locked = 0 /\ row.age > Window)) /\ ~(row.locked > 0)
    <2>1. row.locked = 0 /\ row.age <= Window /\ row.attempts < MaxAttempts /\ row # NoLimit
        BY <1>1, <1>6, Numbers
    <2> DEFINE counted == [row EXCEPT !.attempts = @ + 1]
    <2>2. counted.attempts = row.attempts + 1 /\ counted.age = row.age /\ counted.locked = 0
          /\ DOMAIN counted = {"attempts", "age", "locked"}
        BY <1>1, <2>1
    <2>3. new = IF counted.attempts >= MaxAttempts THEN [counted EXCEPT !.locked = Lockout] ELSE counted
        BY <1>6 DEF RecordLoginFailure
    <2> HIDE DEF counted
    <2>4. Cardinality(made) <= Spill + row.attempts + w /\ row.attempts >= 1
          /\ Within(made, row.age) <= row.attempts - 1 + w
        BY <2>1 DEF Budgeted
    <2>5. CASE counted.attempts >= MaxAttempts
        <3>1. new.attempts = MaxAttempts /\ new.age = row.age /\ new.locked = Lockout
            BY <1>1, <2>1, <2>2, <2>3, <2>5, Numbers
        <3>2. new # NoLimit /\ Lockout - new.locked = 0
            BY <1>3, <3>1, Numbers
        <3> HIDE DEF new
        <3>3. Budgeted(new, made, c, w - 1)
            BY <1>1, <1>2, <2>1, <2>2, <2>4, <2>5, <3>1, <3>2, Numbers DEF Budgeted
        <3> QED
            BY <3>3 DEF new
    <2>6. CASE ~(counted.attempts >= MaxAttempts)
        <3>1. new.attempts = row.attempts + 1 /\ new.age = row.age /\ new.locked = 0
            BY <2>2, <2>3, <2>6
        <3>2. new # NoLimit /\ new.attempts < MaxAttempts
            BY <1>1, <1>3, <2>2, <2>6, <3>1, Numbers
        <3> HIDE DEF new
        <3>3. Budgeted(new, made, c, w - 1)
            BY <1>1, <1>2, <2>1, <2>4, <3>1, <3>2, Numbers DEF Budgeted
        <3> QED
            BY <3>3 DEF new
    <2> QED
        BY <2>5, <2>6
<1> QED
    BY <1>4, <1>5, <1>6

(* Nothing was guessed.                                                      *)
LEMMA NothingBudgeted ==
    ASSUME NEW row \in Rows, NEW made \in Made, NEW c \in Nat, NEW w \in Nat,
           row = NoLimit \/ Budgeted(row, made, c, w)
    PROVE  /\ {} \in Made
           /\ row = NoLimit => \A d, v \in Nat : Budgeted(row, {}, d, v)
           /\ Budgeted(row, {}, 0, 0)
<1>1. {} \in Made
    BY FS_EmptySet DEF Made
<1>2. Cardinality({}) = 0 /\ \A n \in Int : Within({}, n) = 0
    <2>1. \A n : {g \in {} : g[1] < n} = {}
        OBVIOUS
    <2> QED
        BY <2>1, FS_EmptySet DEF Within
<1>3. row.age \in Int /\ row.locked \in 0 .. Lockout /\ row.attempts \in Nat
    BY Numbers DEF Rows
<1>4. Within({}, row.age) = 0 /\ Within({}, Lockout - row.locked) = 0
    <2>1. Lockout - row.locked \in Int
        BY <1>3, Numbers
    <2> QED
        BY <1>2, <1>3, <2>1
<1>5. row = NoLimit => row.attempts = 0 /\ row.locked = 0
    BY DEF NoLimit
<1>6. row = NoLimit => \A d, v \in Nat : Budgeted(row, {}, d, v)
    BY <1>2, <1>5, Numbers DEF Budgeted
<1>7. Budgeted(row, {}, 0, 0)
    <2>1. CASE row = NoLimit
        BY <1>6, <2>1
    <2>2. CASE row # NoLimit
        BY <1>2, <1>3, <1>4, <2>2, Numbers DEF Budgeted
    <2> QED
        BY <2>1, <2>2
<1> QED
    BY <1>1, <1>6, <1>7

(* A tick: all guesses are older by one, and those at the end of the window  *)
(* are out of it.                                                            *)
Older(made) == {<<g[1] + 1, g[2]>> : g \in {x \in made : x[1] < Window}}
RowAfterTick(row) ==
    IF row = NoLimit THEN NoLimit
    ELSE [row EXCEPT !.age = Capped(@, Window + 1), !.locked = IF @ > 0 THEN @ - 1 ELSE 0]

LEMMA OlderGuesses ==
    ASSUME NEW made \in Made
    PROVE  /\ Older(made) \in Made
           /\ Cardinality(Older(made)) <= Cardinality(made)
           /\ \A n \in Int : Within(Older(made), n + 1) <= Within(made, n)
<1>0. IsFiniteSet(made) /\ made \subseteq (0 .. Window) \X Nat
    BY DEF Made
<1>1. ASSUME NEW S, IsFiniteSet(S), NEW T, T \subseteq {<<g[1] + 1, g[2]>> : g \in S}
      PROVE  IsFiniteSet(T) /\ Cardinality(T) <= Cardinality(S) /\ Cardinality(S) \in Nat
    <2> DEFINE U == {<<g[1] + 1, g[2]>> : g \in S}
               f == [g \in S |-> <<g[1] + 1, g[2]>>]
    <2>1. f \in Surjection(S, U)
        BY DEF Surjection
    <2> HIDE DEF f
    <2>2. IsFiniteSet(U) /\ Cardinality(U) <= Cardinality(S)
        BY <1>1, <2>1, FS_Surjection
    <2>3. T \in SUBSET U
        BY <1>1
    <2> HIDE DEF U
    <2>4. IsFiniteSet(T) /\ Cardinality(T) <= Cardinality(U)
        BY <2>2, <2>3, FS_Subset
    <2> QED
        BY <1>1, <2>2, <2>4, FS_CardinalityType
<1>2. Older(made) \subseteq {<<g[1] + 1, g[2]>> : g \in made}
    BY DEF Older
<1>3. IsFiniteSet(Older(made)) /\ Cardinality(Older(made)) <= Cardinality(made)
    BY <1>0, <1>1, <1>2
<1>4. Older(made) \subseteq (0 .. Window) \X Nat
    <2> SUFFICES ASSUME NEW o \in Older(made) PROVE o \in (0 .. Window) \X Nat
        OBVIOUS
    <2>1. PICK g \in made : g[1] < Window /\ o = <<g[1] + 1, g[2]>>
        BY DEF Older
    <2>2. g[1] + 1 \in 0 .. Window /\ g[2] \in Nat
        BY <1>0, <2>1, Numbers
    <2> QED
        BY <2>1, <2>2
<1>5. ASSUME NEW n \in Int PROVE Within(Older(made), n + 1) <= Within(made, n)
    <2> DEFINE S == {g \in made : g[1] < n}
               T == {o \in Older(made) : o[1] < n + 1}
    <2>1. T \subseteq {<<g[1] + 1, g[2]>> : g \in S}
        <3> SUFFICES ASSUME NEW o \in T PROVE o \in {<<g[1] + 1, g[2]>> : g \in S}
            OBVIOUS
        <3>1. PICK g \in made : o = <<g[1] + 1, g[2]>>
            BY DEF Older
        <3>2. g[1] < n
            BY <1>0, <3>1
        <3> QED
            BY <3>1, <3>2
    <2>2. IsFiniteSet(S)
        <3>1. S \in SUBSET made
            OBVIOUS
        <3> QED
            BY <1>0, <3>1, FS_Subset
    <2> HIDE DEF S, T
    <2>3. Cardinality(T) <= Cardinality(S)
        BY <1>1, <2>1, <2>2
    <2> QED
        BY <2>3 DEF Within, S, T
<1> QED
    BY <1>3, <1>4, <1>5 DEF Made

LEMMA TickBudgeted ==
    ASSUME NEW row \in Rows, NEW made \in Made, NEW c \in Nat, NEW w \in Nat, Budgeted(row, made, c, w)
    PROVE  Older(made) \in Made /\ Budgeted(RowAfterTick(row), Older(made), c, w)
<1> DEFINE new == RowAfterTick(row)
           old == Older(made)
<1>0. old \in Made /\ Cardinality(old) <= Cardinality(made) /\ Cardinality(old) \in Nat /\ Cardinality(made) \in Nat
    BY OlderGuesses, Counting
<1>1. /\ row.age \in 0 .. Window + 1 /\ row.locked \in 0 .. Lockout /\ row.attempts \in 0 .. MaxAttempts
      /\ row.attempts = MaxAttempts /\ row.age <= Window => row.locked + row.age >= Lockout
      /\ DOMAIN row = {"attempts", "age", "locked"}
    BY Numbers DEF Rows
<1>2. NoLimit.attempts = 0 /\ NoLimit.locked = 0
    BY DEF NoLimit
<1>3. CASE row = NoLimit
    <2>1. new = row
        BY <1>3 DEF RowAfterTick
    <2> HIDE DEF new, old
    <2>2. Budgeted(new, old, c, w)
        BY <1>0, <1>2, <1>3, <2>1, Numbers DEF Budgeted
    <2> QED
        BY <1>0, <2>2 DEF new, old
<1>4. CASE row # NoLimit
    <2>1. /\ new.attempts = row.attempts
          /\ new.age = IF row.age >= Window + 1 THEN Window + 1 ELSE row.age + 1
          /\ new.locked = IF row.locked > 0 THEN row.locked - 1 ELSE 0
        BY <1>1, <1>4 DEF RowAfterTick, Capped
    <2>2. row.attempts >= 1 /\ new # NoLimit
        BY <1>2, <1>4, <2>1 DEF Budgeted
    <2> HIDE DEF new
    <2>3. CASE row.attempts < MaxAttempts
        <3>1. row.locked = 0 /\ new.locked = 0
            BY <1>1, <2>1, <2>3, Numbers DEF Budgeted
        <3>2. Within(old, new.age) <= Within(made, row.age) /\ Within(old, new.age) \in Nat /\ Within(made, row.age) \in Nat
            <4>1. CASE row.age = Window + 1
                <5>1. new.age = Window + 1
                    BY <2>1, <4>1, Numbers
                <5>2. Within(made, Window + 1) = Cardinality(made) /\ Within(old, Window + 1) = Cardinality(old)
                    BY <1>0, Counting, Numbers
                <5> QED
                    BY <1>0, <4>1, <5>1, <5>2
            <4>2. CASE row.age # Window + 1
                <5>1. new.age = row.age + 1 /\ row.age \in Int /\ new.age \in Int
                    BY <1>1, <2>1, <4>2, Numbers
                <5> QED
                    BY <1>0, <5>1, OlderGuesses, Counting
            <4> QED
                BY <4>1, <4>2
        <3>3. /\ Within(made, row.age) <= row.attempts - 1 + w
              /\ row.age <= Window => Cardinality(made) <= Spill + row.attempts + w
            BY <1>4, <2>3 DEF Budgeted
        <3> HIDE DEF old
        <3>4. Budgeted(new, old, c, w)
            BY <1>0, <1>1, <2>1, <2>2, <2>3, <3>1, <3>2, <3>3, Numbers DEF Budgeted
        <3> QED
            BY <1>0, <3>4 DEF new, old
    <2>4. CASE row.attempts = MaxAttempts /\ row.locked = 0
        <3>1. Cardinality(made) <= Cardinality(Tasks) - 1 + w /\ new.locked = 0 /\ new.attempts = MaxAttempts
            BY <2>1, <2>4 DEF Budgeted
        <3> HIDE DEF old
        <3>2. Budgeted(new, old, c, w)
            BY <1>0, <2>2, <3>1, Numbers DEF Budgeted
        <3> QED
            BY <1>0, <3>2 DEF new, old
    <2>5. CASE row.attempts = MaxAttempts /\ row.locked > 0
        <3>1. /\ Cardinality(made) + c <= Spill + MaxAttempts + Cardinality(Tasks) - 1
              /\ Within(made, Lockout - row.locked) + c <= Cardinality(Tasks) - 1
            BY <2>5 DEF Budgeted
        <3>2. new.locked = row.locked - 1 /\ new.attempts = MaxAttempts
            BY <2>1, <2>5
        <3>3. Lockout - row.locked \in Int /\ Lockout - new.locked = (Lockout - row.locked) + 1
            BY <1>1, <3>2, Numbers
        <3>4. /\ Within(old, Lockout - new.locked) <= Within(made, Lockout - row.locked)
              /\ Within(old, Lockout - new.locked) \in Nat /\ Within(made, Lockout - row.locked) \in Nat
            BY <1>0, <3>3, OlderGuesses, Counting
        <3>5. ASSUME new.locked = 0 PROVE Within(old, Lockout - new.locked) = Cardinality(old)
            <4>1. Lockout - new.locked \in Int /\ Lockout - new.locked > Window
                BY <3>5, Numbers
            <4> QED
                BY <1>0, <4>1, Counting
        <3> HIDE DEF old
        <3>6. Budgeted(new, old, c, w)
            BY <1>0, <1>1, <2>2, <3>1, <3>2, <3>4, <3>5, Numbers DEF Budgeted
        <3> QED
            BY <1>0, <3>6 DEF new, old
    <2> QED
        BY <1>1, <2>3, <2>4, <2>5, Numbers
<1> QED
    BY <1>3, <1>4

(* Those who try and wait, when one request moves.                           *)
CountsOK ==
    \A ip : /\ IsFiniteSet(Reached(ip, "credentials")) /\ IsFiniteSet(Reached(ip, "record"))
            /\ Trying(ip) \in Nat /\ Waiting(ip) \in Nat /\ Trying(ip) + Waiting(ip) <= Cardinality(Tasks)

LEMMA Counts == CountsOK
<1> SUFFICES ASSUME NEW ip
             PROVE  /\ IsFiniteSet(Reached(ip, "credentials")) /\ IsFiniteSet(Reached(ip, "record"))
                    /\ Trying(ip) \in Nat /\ Waiting(ip) \in Nat /\ Trying(ip) + Waiting(ip) <= Cardinality(Tasks)
    BY DEF CountsOK
<1> DEFINE S == Reached(ip, "credentials")
           T == Reached(ip, "record")
<1>0. IsFiniteSet(Tasks)
    BY ConsoleAssumption
<1>1. S \in SUBSET Tasks /\ T \in SUBSET Tasks /\ S \cup T \in SUBSET Tasks /\ S \cap T = {}
    BY DEF Reached
<1> HIDE DEF S, T
<1>2. IsFiniteSet(S) /\ IsFiniteSet(T) /\ Cardinality(S \cup T) <= Cardinality(Tasks)
    BY <1>0, <1>1, FS_Subset
<1>3. Cardinality(S \cup T) = Cardinality(S) + Cardinality(T) - 0
    BY <1>1, <1>2, FS_Union, FS_EmptySet
<1>4. Cardinality(S) \in Nat /\ Cardinality(T) \in Nat
    BY <1>2, FS_CardinalityType
<1> QED
    BY <1>2, <1>3, <1>4 DEF Trying, Waiting, S, T

LEMMA CountsNext == CountsOK'
BY Counts, PTL

(* How one request's move changes who is where.                              *)
LEMMA ReachedAfter ==
    ASSUME NEW t \in Tasks, \A x \in Tasks \ {t} : task'[x] = task[x], NEW ip, NEW pc \in {"credentials", "record"}
    PROVE  LET S == Reached(ip, pc)
               was == task[t].pc = pc /\ task[t].ip = ip
               is == task'[t].pc = pc /\ task'[t].ip = ip
           IN  /\ was <=> is => Reached(ip, pc)' = S
               /\ was /\ ~is => t \in S /\ Reached(ip, pc)' = S \ {t}
               /\ ~was /\ is => t \notin S /\ Reached(ip, pc)' = S \cup {t}
BY DEF Reached

LEMMA CountsAfter ==
    ASSUME NEW t \in Tasks, \A x \in Tasks \ {t} : task'[x] = task[x], NEW ip
    PROVE  LET At0(pc) == IF task[t].pc = pc /\ task[t].ip = ip THEN 1 ELSE 0
               At1(pc) == IF task'[t].pc = pc /\ task'[t].ip = ip THEN 1 ELSE 0
           IN  /\ Trying(ip)' = Trying(ip) - At0("credentials") + At1("credentials")
               /\ Waiting(ip)' = Waiting(ip) - At0("record") + At1("record")
<1>1. ASSUME NEW pc \in {"credentials", "record"}
      PROVE  LET was == task[t].pc = pc /\ task[t].ip = ip
                 is == task'[t].pc = pc /\ task'[t].ip = ip
             IN  Cardinality(Reached(ip, pc)') =
                    Cardinality(Reached(ip, pc)) - (IF was THEN 1 ELSE 0) + (IF is THEN 1 ELSE 0)
    <2> DEFINE was == task[t].pc = pc /\ task[t].ip = ip
               is == task'[t].pc = pc /\ task'[t].ip = ip
               S == Reached(ip, pc)
    <2>0. IsFiniteSet(S) /\ Cardinality(S) \in Nat
        BY Counts DEF CountsOK, Trying, Waiting
    <2>1. /\ was <=> is => Reached(ip, pc)' = S
          /\ was /\ ~is => t \in S /\ Reached(ip, pc)' = S \ {t}
          /\ ~was /\ is => t \notin S /\ Reached(ip, pc)' = S \cup {t}
        BY ReachedAfter
    <2> HIDE DEF S, was, is
    <2>2. CASE was <=> is
        BY <2>0, <2>1, <2>2 DEF S, was, is
    <2>3. CASE was /\ ~is
        <3>1. Cardinality(S \ {t}) = Cardinality(S) - 1
            BY <2>0, <2>1, <2>3, FS_RemoveElement
        <3>2. Reached(ip, pc)' = S \ {t}
            BY <2>1, <2>3
        <3>3. Cardinality(Reached(ip, pc)') = Cardinality(S) - 1
            BY <3>1, <3>2
        <3> QED
            BY <2>0, <2>3, <3>3 DEF S, was, is
    <2>4. CASE ~was /\ is
        <3>1. Cardinality(S \cup {t}) = Cardinality(S) + 1
            BY <2>0, <2>1, <2>4, FS_AddElement
        <3>2. Reached(ip, pc)' = S \cup {t}
            BY <2>1, <2>4
        <3>3. Cardinality(Reached(ip, pc)') = Cardinality(S) + 1
            BY <3>1, <3>2
        <3> QED
            BY <2>0, <2>4, <3>3 DEF S, was, is
    <2> QED
        BY <2>2, <2>3, <2>4
<1> QED
    BY <1>1 DEF Trying, Waiting

(* A step of one request that leaves the limit and the guesses alone and     *)
(* makes nobody try during a lockout, and nobody cease to wait.              *)
LEMMA QuietMove ==
    ASSUME LimitsOK, BudgetInv, NEW t \in Tasks, \A x \in Tasks \ {t} : task'[x] = task[x],
           UNCHANGED <<limits, guesses>>,
           task[t].pc # "record",
           task'[t].pc \in {"credentials", "record", "get_user", "clear"} => task'[t].ip \in Ips,
           task'[t].pc = "credentials" => limits[task'[t].ip].locked = 0
    PROVE  BudgetInv'
<1>1. \A x \in Tasks : task'[x].pc \in {"credentials", "record", "get_user", "clear"} => task'[x].ip \in Ips
    BY DEF BudgetInv
<1>2. ASSUME NEW ip \in Ips PROVE Budgeted(limits'[ip], guesses'[ip], Trying(ip)', Waiting(ip)')
    <2> DEFINE c == Trying(ip)
               w == Waiting(ip)
               d == Trying(ip)'
               v == Waiting(ip)'
    <2>1. c \in Nat /\ w \in Nat /\ d \in Nat /\ v \in Nat
        BY Counts, CountsNext DEF CountsOK
    <2>2. (d <= c \/ limits[ip].locked = 0) /\ v >= w
        BY <2>1, CountsAfter
    <2>3. limits[ip] \in Rows /\ guesses[ip] \in Made /\ Budgeted(limits[ip], guesses[ip], c, w)
        BY DEF LimitsOK, BudgetInv, Rows
    <2> HIDE DEF c, w, d, v
    <2>4. Budgeted(limits[ip], guesses[ip], d, v)
        BY <2>1, <2>2, <2>3, OthersBudgeted
    <2> QED
        BY <2>4, Zenon DEF d, v
<1> QED
    BY <1>1, <1>2 DEF BudgetInv

(* The steps of a login.                                                     *)
LEMMA LoginMove ==
    ASSUME TasksOK, NEW t \in Tasks, LoginStep(t)
    PROVE  /\ \A x \in Tasks \ {t} : task'[x] = task[x]
           /\ task'[t].ip = task[t].ip \/ task'[t] = Idle \/ (task[t].pc = "idle" /\ Login(t))
<1>1. CASE Login(t)
    BY <1>1 DEF Login, TasksOK, At
<1>2. CASE LoginWithKey(t) \/ LoginWithPassword(t) \/ PasswordUser(t) \/ RecordFailure(t) \/ LoginSucceeds(t)
    <2>1. Finish(t) \/ (\E pc : Goto(t, pc)) \/ (\E u, pc : Proved(t, u, pc))
        BY <1>2 DEF LoginWithKey, LoginWithPassword, PasswordUser, RecordFailure, LoginSucceeds, WrongGuess
    <2> QED
        BY <2>1 DEF Finish, Goto, Proved, TasksOK, TaskOK, TaskFields
<1> QED
    BY <1>1, <1>2 DEF LoginStep

LEMMA LoginBudget ==
    ASSUME Inv, BudgetInv, NEW t \in Tasks, LoginStep(t)
    PROVE  BudgetInv'
<1>0. /\ TasksOK /\ LimitsOK /\ DOMAIN task = Tasks /\ DOMAIN task[t] = TaskFields
      /\ limits \in [Ips -> Rows] /\ guesses \in [Ips -> Made] /\ DOMAIN limits = Ips /\ DOMAIN guesses = Ips
    BY DEF Inv, TasksOK, TaskOK, LimitsOK, Rows, BudgetInv
<1>1. /\ \A x \in Tasks \ {t} : task'[x] = task[x]
      /\ task'[t].ip = task[t].ip \/ task'[t] = Idle \/ (task[t].pc = "idle" /\ Login(t))
    BY <1>0, LoginMove
<1>2. Idle.pc = "idle"
    BY IdleOK
<1>3. CASE Login(t)
    <2>1. PICK ip \in Ips : /\ ~IsRateLimited(limits[ip])
                            /\ task'[t].pc = "credentials" /\ task'[t].ip = ip
        BY <1>0, <1>3 DEF Login, Idle
    <2>2. limits[ip].locked = 0
        BY <1>0, <2>1 DEF IsRateLimited, Rows
    <2>3. UNCHANGED <<limits, guesses>> /\ task[t].pc = "idle"
        BY <1>3 DEF Login, history, At
    <2> QED
        BY <1>0, <1>1, <2>1, <2>2, <2>3, QuietMove
<1>4. ASSUME task[t].pc = "credentials", WrongGuess(t), UNCHANGED limits PROVE BudgetInv'
    <2> DEFINE i == task[t].ip
    <2>1. /\ i \in Ips /\ task'[t].pc = "record" /\ task'[t].ip = i
          /\ guesses' = [guesses EXCEPT ![i] = @ \cup {NewGuess(@)}]
        BY <1>0, <1>4 DEF WrongGuess, Goto, BudgetInv, TaskFields
    <2> HIDE DEF i
    <2>2. ASSUME NEW ip \in Ips
          PROVE  guesses'[ip] \in Made /\ Budgeted(limits'[ip], guesses'[ip], Trying(ip)', Waiting(ip)')
        <3>0. /\ limits[ip] \in Rows /\ guesses[ip] \in Made /\ Budgeted(limits[ip], guesses[ip], Trying(ip), Waiting(ip))
              /\ Trying(ip) \in Nat /\ Waiting(ip) \in Nat /\ Trying(ip)' \in Nat /\ Waiting(ip)' \in Nat
            BY <1>0, Counts, CountsNext DEF BudgetInv, CountsOK
        <3>1. CASE ip # i
            <4>1. guesses'[ip] = guesses[ip] /\ Trying(ip)' = Trying(ip) /\ Waiting(ip)' = Waiting(ip)
                BY <1>0, <1>1, <1>4, <2>1, <3>0, <3>1, CountsAfter DEF i
            <4> QED
                BY <1>4, <3>0, <4>1
        <3>2. CASE ip = i
            <4>1. /\ guesses'[ip] = guesses[ip] \cup {NewGuess(guesses[ip])}
                BY <1>0, <2>1, <3>2
            <4>2. Trying(ip)' = Trying(ip) - 1 /\ Waiting(ip)' = Waiting(ip) + 1
                BY <1>1, <1>4, <2>1, <3>0, <3>2, CountsAfter DEF i
            <4>3. Trying(ip) > 0
                BY <3>0, <4>2
            <4> QED
                BY <1>4, <3>0, <4>1, <4>2, <4>3, GuessBudgeted
        <3> QED
            BY <3>1, <3>2
    <2>3. DOMAIN guesses' = Ips /\ guesses' = [ip \in Ips |-> guesses'[ip]]
        BY <1>0, <2>1
    <2>4. \A x \in Tasks : task'[x].pc \in {"credentials", "record", "get_user", "clear"} => task'[x].ip \in Ips
        BY <1>1, <2>1 DEF BudgetInv
    <2> QED
        BY <2>2, <2>3, <2>4 DEF BudgetInv
<1>5. ASSUME task[t].pc \in {"credentials", "get_user"}, UNCHANGED <<limits, guesses>>,
             task'[t].pc \in {"idle", "record", "get_user", "clear"}, task'[t].ip = task[t].ip \/ task'[t].pc = "idle"
      PROVE  BudgetInv'
    <2>1. task[t].ip \in Ips
        BY <1>5 DEF BudgetInv
    <2> QED
        BY <1>0, <1>1, <1>5, <2>1, QuietMove
<1>6. CASE LoginWithKey(t)
    <2>1. task[t].pc = "credentials" /\ UNCHANGED limits
        BY <1>6 DEF LoginWithKey, At
    <2>2. WrongGuess(t) \/ \E u : Proved(t, u, "clear")
        BY <1>6 DEF LoginWithKey
    <2>3. ASSUME NEW u, Proved(t, u, "clear")
          PROVE  task'[t].pc = "clear" /\ task'[t].ip = task[t].ip /\ UNCHANGED guesses
        BY <1>0, <2>3 DEF Proved, TaskFields, history
    <2> QED
        BY <1>4, <1>5, <2>1, <2>2, <2>3
<1>7. CASE LoginWithPassword(t)
    <2>1. task[t].pc = "credentials" /\ UNCHANGED limits
        BY <1>7 DEF LoginWithPassword, At
    <2>2. WrongGuess(t) \/ (\E u : Proved(t, u, "get_user")) \/ (Finish(t) /\ UNCHANGED history)
        BY <1>7 DEF LoginWithPassword
    <2>3. ASSUME NEW u, Proved(t, u, "get_user")
          PROVE  task'[t].pc = "get_user" /\ task'[t].ip = task[t].ip /\ UNCHANGED guesses
        BY <1>0, <2>3 DEF Proved, TaskFields, history
    <2>4. ASSUME Finish(t), UNCHANGED history PROVE task'[t].pc = "idle" /\ UNCHANGED guesses
        BY <1>0, <1>2, <2>4 DEF Finish, history
    <2> QED
        BY <1>4, <1>5, <2>1, <2>2, <2>3, <2>4
<1>8. CASE PasswordUser(t)
    <2>1. task[t].pc = "get_user" /\ UNCHANGED <<limits, guesses>>
        BY <1>8 DEF PasswordUser, At, history
    <2>2. Finish(t) \/ Goto(t, "record") \/ Goto(t, "clear")
        BY <1>8 DEF PasswordUser
    <2>3. ASSUME NEW pc, Goto(t, pc) PROVE task'[t].pc = pc /\ task'[t].ip = task[t].ip
        BY <1>0, <2>3 DEF Goto, TaskFields
    <2>4. ASSUME Finish(t) PROVE task'[t].pc = "idle"
        BY <1>0, <1>2, <2>4 DEF Finish
    <2> QED
        BY <1>5, <2>1, <2>2, <2>3, <2>4
<1>9. CASE RecordFailure(t) \/ LoginSucceeds(t)
    <2> DEFINE i == task[t].ip
    <2>1. task'[t].pc = "idle" /\ task[t].pc \in {"record", "clear"} /\ i \in Ips
        BY <1>0, <1>2, <1>9 DEF RecordFailure, LoginSucceeds, Finish, At, BudgetInv
    <2>2. /\ RecordFailure(t) => task[t].pc = "record" /\ guesses' = guesses
                                /\ limits' = [limits EXCEPT ![i] = RecordLoginFailure(@)]
          /\ LoginSucceeds(t) => /\ limits' = [limits EXCEPT ![i] = NoLimit]
                                 /\ guesses' = [guesses EXCEPT ![i] = {}] /\ task[t].pc = "clear"
        BY DEF RecordFailure, LoginSucceeds, At, history
    <2> HIDE DEF i
    <2>3. ASSUME NEW ip \in Ips
          PROVE  guesses'[ip] \in Made /\ Budgeted(limits'[ip], guesses'[ip], Trying(ip)', Waiting(ip)')
        <3>0. /\ limits[ip] \in Rows /\ guesses[ip] \in Made /\ Budgeted(limits[ip], guesses[ip], Trying(ip), Waiting(ip))
              /\ Trying(ip) \in Nat /\ Waiting(ip) \in Nat /\ Trying(ip)' \in Nat /\ Waiting(ip)' \in Nat
              /\ Trying(ip) + Waiting(ip) <= Cardinality(Tasks)
            BY <1>0, Counts, CountsNext DEF BudgetInv, CountsOK
        <3>1. CASE ip # i
            <4>1. /\ guesses'[ip] = guesses[ip] /\ limits'[ip] = limits[ip]
                  /\ Trying(ip)' = Trying(ip) /\ Waiting(ip)' = Waiting(ip)
                BY <1>0, <1>1, <1>9, <2>1, <2>2, <3>0, <3>1, CountsAfter DEF i
            <4> QED
                BY <3>0, <4>1
        <3>2. CASE ip = i /\ RecordFailure(t)
            <4>1. guesses'[ip] = guesses[ip] /\ limits'[ip] = RecordLoginFailure(limits[ip])
                BY <1>0, <2>2, <3>2
            <4>2. Trying(ip)' = Trying(ip) /\ Waiting(ip)' = Waiting(ip) - 1
                BY <1>1, <2>1, <2>2, <3>0, <3>2, CountsAfter DEF i
            <4>3. Waiting(ip) > 0
                BY <3>0, <4>2
            <4> QED
                BY <3>0, <4>1, <4>2, <4>3, RecordBudgeted
        <3>3. CASE ip = i /\ LoginSucceeds(t)
            <4>1. guesses'[ip] = {} /\ limits'[ip] = NoLimit
                BY <1>0, <2>2, <3>3
            <4>2. NoLimit \in Rows
                BY NoLimitIsFine DEF Rows
            <4> QED
                BY <3>0, <4>1, <4>2, NothingBudgeted
        <3> QED
            BY <1>9, <3>1, <3>2, <3>3
    <2>4. DOMAIN guesses' = Ips /\ guesses' = [ip \in Ips |-> guesses'[ip]]
        BY <1>0, <1>9, <2>2
    <2>5. \A x \in Tasks : task'[x].pc \in {"credentials", "record", "get_user", "clear"} => task'[x].ip \in Ips
        BY <1>1, <2>1 DEF BudgetInv
    <2> QED
        BY <2>3, <2>4, <2>5 DEF BudgetInv
<1> QED
    BY <1>3, <1>6, <1>7, <1>8, <1>9 DEF LoginStep

(* Nobody logs in by a step of single sign-on.                               *)
LEMMA SsoBudget ==
    ASSUME Inv, BudgetInv, NEW t \in Tasks, SsoStep(t)
    PROVE  BudgetInv'
<1> DEFINE Apart(k) == k.pc \notin {"credentials", "record", "get_user", "clear"}
<1>0. TasksOK /\ LimitsOK /\ DOMAIN task = Tasks /\ DOMAIN task[t] = TaskFields
    BY DEF Inv, TasksOK, TaskOK
<1>1. UNCHANGED <<limits, guesses>>
    BY DEF SsoStep, LoginOidc, StartFlow, AuthCallback, CallbackProvider, ExchangeAndVerify, ResolveUser,
           AttachDefaultPolicy, Mint, Proceed, Refuse, history
<1>2. Apart(task[t])
    BY DEF SsoStep, LoginOidc, StartFlow, AuthCallback, CallbackProvider, ExchangeAndVerify, ResolveUser,
           AttachDefaultPolicy, At
<1>3. ASSUME NEW k, task' = [task EXCEPT ![t] = k], Apart(k) PROVE BudgetInv'
    <2>1. task'[t] = k /\ \A x \in Tasks \ {t} : task'[x] = task[x]
        BY <1>0, <1>3
    <2> QED
        BY <1>0, <1>1, <1>2, <1>3, <2>1, QuietMove
<1>4. Apart(Idle)
    BY IdleOK
<1>5. CASE UNCHANGED task
    <2>1. task' = [task EXCEPT ![t] = task[t]]
        BY <1>0, <1>5 DEF TasksOK
    <2> QED
        BY <1>2, <1>3, <2>1
<1>6. CASE Finish(t)
    BY <1>3, <1>4, <1>6 DEF Finish
<1>7. CASE LoginOidc(t) \/ AuthCallback(t)
    <2>1. \/ UNCHANGED task
          \/ \E p : task' = [task EXCEPT ![t] = [Idle EXCEPT !.pc = "discover", !.provider = p]]
          \/ \E f, p : task' = [task EXCEPT ![t] = [Idle EXCEPT !.pc = "provider", !.flow = f, !.provider = p]]
        BY <1>7 DEF LoginOidc, AuthCallback
    <2>2. /\ \A p : [Idle EXCEPT !.pc = "discover", !.provider = p].pc = "discover"
          /\ \A f, p : [Idle EXCEPT !.pc = "provider", !.flow = f, !.provider = p].pc = "provider"
        BY DEF Idle
    <2> QED
        BY <1>3, <1>5, <2>1, <2>2
<1>8. CASE StartFlow(t)
    BY <1>6, <1>8 DEF StartFlow
<1>9. ASSUME NEW pc, pc \notin {"credentials", "record", "get_user", "clear"}, NEW d, NEW u, NEW v,
             \/ task' = [task EXCEPT ![t].pc = pc]
             \/ task' = [task EXCEPT ![t].pc = pc, ![t].config = d]
             \/ task' = [task EXCEPT ![t].pc = pc, ![t].user = u]
             \/ task' = [task EXCEPT ![t].pc = pc, ![t].doc = v]
      PROVE  BudgetInv'
    <2>1. task' = [task EXCEPT ![t] = task'[t]] /\ task'[t].pc = pc
        BY <1>0, <1>9 DEF TaskFields
    <2> QED
        BY <1>3, <1>9, <2>1
<1>10. CASE CallbackProvider(t) \/ ExchangeAndVerify(t)
    BY <1>6, <1>9, <1>10 DEF CallbackProvider, ExchangeAndVerify
<1>11. CASE ResolveUser(t) \/ AttachDefaultPolicy(t)
    <2>1. \/ Finish(t) \/ Goto(t, "provision") \/ Goto(t, "get_policy") \/ Goto(t, "attach_insert")
          \/ \E v : task' = [task EXCEPT ![t].pc = "attach", ![t].doc = v]
        BY <1>11 DEF ResolveUser, AttachDefaultPolicy, Mint, Proceed, Refuse
    <2> QED
        BY <1>6, <1>9, <2>1 DEF Goto
<1> QED
    BY <1>7, <1>8, <1>10, <1>11 DEF SsoStep

LEMMA OtherBudget ==
    ASSUME BudgetInv, UNCHANGED <<limits, guesses, task>>
    PROVE  BudgetInv'
<1>1. \A ip \in Ips : Trying(ip)' = Trying(ip) /\ Waiting(ip)' = Waiting(ip)
    BY DEF Trying, Waiting, Reached
<1>2. ASSUME NEW ip \in Ips PROVE Budgeted(limits'[ip], guesses'[ip], Trying(ip)', Waiting(ip)')
    BY <1>1 DEF BudgetInv
<1> QED
    BY <1>2 DEF BudgetInv

LEMMA IdleBudget ==
    ASSUME \A t \in Tasks : task[t] = Idle
    PROVE  \A ip : Trying(ip) = 0 /\ Waiting(ip) = 0
<1>1. \A ip : Reached(ip, "credentials") = {} /\ Reached(ip, "record") = {}
    BY IdleOK DEF Reached
<1> QED
    BY <1>1, FS_EmptySet DEF Trying, Waiting

LEMMA RestartBudget ==
    ASSUME Inv, BudgetInv, Restart
    PROVE  BudgetInv'
<1>0. limits \in [Ips -> Rows] /\ limits' = limits /\ guesses' = [ip \in Ips |-> {}]
    BY DEF Inv, LimitsOK, Rows, Restart
<1>1. \A t \in Tasks : task'[t] = Idle
    BY DEF Restart
<1>2. \A ip : Trying(ip)' = 0 /\ Waiting(ip)' = 0
    <2>1. \A ip : Reached(ip, "credentials")' = {} /\ Reached(ip, "record")' = {}
        BY <1>1, IdleOK DEF Reached
    <2> QED
        BY <2>1, FS_EmptySet DEF Trying, Waiting
<1>3. ASSUME NEW ip \in Ips
      PROVE  guesses'[ip] \in Made /\ Budgeted(limits'[ip], guesses'[ip], Trying(ip)', Waiting(ip)')
    <2>1. /\ limits[ip] \in Rows /\ guesses[ip] \in Made /\ Budgeted(limits[ip], guesses[ip], Trying(ip), Waiting(ip))
          /\ Trying(ip) \in Nat /\ Waiting(ip) \in Nat
        BY <1>0, Counts DEF BudgetInv, CountsOK
    <2>2. {} \in Made /\ Budgeted(limits[ip], {}, 0, 0)
        BY <2>1, NothingBudgeted
    <2>3. guesses'[ip] = {} /\ Trying(ip)' = 0 /\ Waiting(ip)' = 0
        BY <1>0, <1>2
    <2> QED
        BY <1>0, <2>2, <2>3
<1> QED
    BY <1>0, <1>1, <1>3, IdleOK DEF BudgetInv

LEMMA TickBudget ==
    ASSUME Inv, BudgetInv, Tick
    PROVE  BudgetInv'
<1>0. /\ limits \in [Ips -> Rows] /\ task' = task
      /\ limits' = [ip \in Ips |-> RowAfterTick(limits[ip])]
      /\ guesses' = [ip \in Ips |-> Older(guesses[ip])]
    BY DEF Inv, LimitsOK, Rows, Tick, Older, RowAfterTick
<1>1. \A ip \in Ips : Trying(ip)' = Trying(ip) /\ Waiting(ip)' = Waiting(ip)
    BY <1>0 DEF Trying, Waiting, Reached
<1>2. ASSUME NEW ip \in Ips
      PROVE  guesses'[ip] \in Made /\ Budgeted(limits'[ip], guesses'[ip], Trying(ip)', Waiting(ip)')
    <2>1. /\ limits[ip] \in Rows /\ guesses[ip] \in Made /\ Budgeted(limits[ip], guesses[ip], Trying(ip), Waiting(ip))
          /\ Trying(ip) \in Nat /\ Waiting(ip) \in Nat
        BY <1>0, Counts DEF BudgetInv, CountsOK
    <2>2. guesses'[ip] = Older(guesses[ip]) /\ limits'[ip] = RowAfterTick(limits[ip])
        BY <1>0
    <2> QED
        BY <1>1, <2>1, <2>2, TickBudgeted
<1> QED
    BY <1>0, <1>2 DEF BudgetInv

LEMMA InitBudget == Init => BudgetInv
<1> SUFFICES ASSUME Init PROVE BudgetInv
    OBVIOUS
<1>1. (\A t \in Tasks : task[t] = Idle) /\ limits = [ip \in Ips |-> NoLimit] /\ guesses = [ip \in Ips |-> {}]
    BY DEF Init
<1>2. NoLimit \in Rows
    BY NoLimitIsFine DEF Rows
<1>3. {} \in Made /\ Budgeted(NoLimit, {}, 0, 0)
    <2>1. {} \in Made
        BY FS_EmptySet DEF Made
    <2> QED
        BY <1>2, <2>1, NothingBudgeted
<1>4. \A ip \in Ips : Budgeted(limits[ip], guesses[ip], Trying(ip), Waiting(ip))
    BY <1>1, <1>3, IdleBudget
<1> QED
    BY <1>1, <1>3, <1>4, IdleOK DEF BudgetInv

LEMMA NextBudget == Inv /\ BudgetInv /\ [Next]_vars => BudgetInv'
<1> SUFFICES ASSUME Inv, BudgetInv, [Next]_vars PROVE BudgetInv'
    OBVIOUS
<1>1. CASE UNCHANGED vars
    BY <1>1, OtherBudget DEF vars, history
<1>2. ASSUME NEW t \in Tasks, Request(t) PROVE BudgetInv'
    <2>1. LoginStep(t) \/ SsoStep(t)
        BY <1>2 DEF Request, LoginStep, SsoStep
    <2> QED
        BY <2>1, LoginBudget, SsoBudget
<1>3. CASE AdminRequest \/ SeedSmtpConfig \/ SeedOidcProvider
    <2>1. UNCHANGED <<limits, guesses, task>>
        BY <1>3 DEF AdminRequest, CreateOidcProvider, UpdateOidcProvider, DeleteOidcProvider, SetSmtpConfig,
                    AdminChange, SeedSmtpConfig, SeedOidcProvider, history
    <2> QED
        BY <2>1, OtherBudget
<1> QED
    BY <1>1, <1>2, <1>3, RestartBudget, TickBudget DEF Next, TimePasses

(* is_rate_limited and record_login_failure are apart by two awaits, and yet *)
(* within any window an address gets no more than twice the attempts and     *)
(* requests in flight, less two of each, to guess wrong: for every number of *)
(* requests, attempts and addresses, and every window shorter than the       *)
(* lockout.                                                                  *)
THEOREM GuessesAreBounded == Spec => []GuessBudget
<1>1. Inv /\ BudgetInv => GuessBudget
    <2> SUFFICES ASSUME Inv, BudgetInv, NEW ip \in Ips
                 PROVE  Cardinality(guesses[ip]) <= 2 * (MaxAttempts + Cardinality(Tasks) - 2)
        BY DEF GuessBudget, GuessesInWindow
    <2>0. /\ limits[ip] \in Rows /\ guesses[ip] \in Made /\ Budgeted(limits[ip], guesses[ip], Trying(ip), Waiting(ip))
          /\ Trying(ip) \in Nat /\ Waiting(ip) \in Nat /\ Trying(ip) + Waiting(ip) <= Cardinality(Tasks)
        BY Counts DEF Inv, LimitsOK, Rows, BudgetInv, CountsOK
    <2> DEFINE row == limits[ip]
               total == Cardinality(guesses[ip])
    <2>1. /\ row.age \in 0 .. Window + 1 /\ row.locked \in 0 .. Lockout /\ row.attempts \in 0 .. MaxAttempts
          /\ total \in Nat /\ Within(guesses[ip], Window + 1) = total
        BY <2>0, Counting, Numbers DEF Rows
    <2> HIDE DEF row
    <2>2. CASE row = NoLimit
        BY <2>0, <2>1, <2>2, Numbers DEF Budgeted, row
    <2>3. CASE row # NoLimit /\ row.attempts < MaxAttempts
        <3>1. /\ Within(guesses[ip], row.age) <= row.attempts - 1 + Waiting(ip)
              /\ row.age <= Window => total <= Spill + row.attempts + Waiting(ip)
            BY <2>0, <2>3 DEF Budgeted, row
        <3>2. CASE row.age <= Window
            BY <2>0, <2>1, <2>3, <3>1, <3>2, Numbers
        <3>3. CASE row.age = Window + 1
            BY <2>0, <2>1, <2>3, <3>1, <3>3, Numbers
        <3>4. row.age <= Window \/ row.age = Window + 1
            BY <2>1, Numbers
        <3> QED
            BY <3>2, <3>3, <3>4
    <2>4. CASE row.attempts = MaxAttempts /\ row.locked = 0
        <3>1. total <= Cardinality(Tasks) - 1 + Waiting(ip)
            BY <2>0, <2>4 DEF Budgeted, row
        <3> QED
            BY <2>0, <2>1, <3>1, Numbers
    <2>5. CASE row.locked > 0
        <3>1. total + Trying(ip) <= Spill + MaxAttempts + Cardinality(Tasks) - 1
            BY <2>0, <2>5 DEF Budgeted, row
        <3> QED
            BY <2>0, <2>1, <3>1, Numbers
    <2> QED
        BY <2>1, <2>2, <2>3, <2>4, <2>5, Numbers
<1> QED
    BY <1>1, InitBudget, NextBudget, Invariance, PTL DEF Spec
=============================================================================
