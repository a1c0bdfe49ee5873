------------------------------ MODULE Console -------------------------------
(* Logging in to the console: the login handlers and their rate limit        *)
(* (crates/strix-admin/src/handlers.rs, crates/strix-iam/src/store.rs), the  *)
(* session tokens (auth.rs), single sign-on (oidc.rs), the root-only         *)
(* settings it needs (oidc.rs, smtp.rs) and the start of the process, which  *)
(* seeds them from the environment (strix/src/main.rs).                      *)
(*                                                                           *)
(* Every await is a step.  Times are ages and remainders that Tick moves, so *)
(* that time is not bounded.  Errors of the database are left out.           *)
EXTENDS IamStore

CONSTANTS
    Loads,          \* workloads (a bound: they do not mix): "login" has guesses,
                    \* "sso" single sign-on with root's logins and providers,
                    \* "settings" root's logins and what it sets or is seeded
    Tasks,          \* requests in flight
    Ips,            \* client addresses
    MaxAttempts,    \* RateLimitConfig.max_attempts
    Window,         \* RateLimitConfig.window_secs
    Lockout,        \* RateLimitConfig.lockout_secs
    Providers,      \* provider ids
    Secrets,        \* client secrets and relay passwords, Empty not among them
    FlowIds,        \* random state tokens (a bound: as many flows as these)
    FlowTtl,        \* FLOW_TTL
    SessionTtl,     \* SessionConfig.expiry, with the leeway of the verifier
    Empty           \* the empty string

ASSUME ConsoleAssumption ==
    /\ MaxAttempts \in Nat \ {0, 1} /\ Window \in Nat /\ Lockout \in Nat /\ Lockout > Window
    /\ FlowTtl \in Nat /\ SessionTtl \in Nat
    /\ Empty \notin Secrets /\ None \notin Secrets \cup FlowIds
    /\ IsFiniteSet(Tasks) /\ Tasks # {}

VARIABLES
    load,           \* the workload of this behaviour
    boot,           \* how far the process has started: "smtp", "oidc", "up"
    db,             \* the IAM tables
    limits,         \* rate_limits: ip -> [attempts, age, locked], locked a remainder
    providers,      \* oidc_providers: id -> [enabled, auto, policy, secret]
    smtp,           \* smtp_config: the stored password, None before the first save
    flows,          \* OidcState.flows: state -> [provider, age]
    sessions,       \* the tokens that are handed out and not expired
    task,           \* task -> its request
    guesses,        \* history: ip -> wrong guesses of the last window since a success
                    \* or restart, each a pair of its age and a number
    minted,         \* history: flow -> sessions it led to
    absent,         \* history: task -> users absent at some time of its callback
    sinceRoot       \* history: age of the last login with the root credentials

settings == <<providers, smtp>>
history == <<guesses, minted, absent, sinceRoot>>
vars == <<load, boot, db, limits, settings, flows, sessions, task, history>>

Idle == [pc |-> "idle", ip |-> None, kind |-> None, user |-> None, provider |-> None,
         flow |-> None, config |-> None, doc |-> None]

At(t, pc) == task[t].pc = pc
Finish(t) == task' = [task EXCEPT ![t] = Idle]
Goto(t, pc) == task' = [task EXCEPT ![t].pc = pc]

-----------------------------------------------------------------------------
(* The rate limit.                                                           *)
NoLimit == [attempts |-> 0, age |-> 0, locked |-> 0]     \* no row

\* Mutant: the lockout itself is not looked at.
IsRateLimitedInWindow(row) == row.age <= Window /\ row.attempts >= MaxAttempts

\* Mutant: attempts count after their window.
IsRateLimitedForever(row) == row.attempts >= MaxAttempts

(* is_rate_limited *)
IsRateLimited(row) ==
    \/ row.locked > 0
    \/ row.age <= Window /\ row.attempts >= MaxAttempts

\* Mutant: failures are counted during a lockout, too.
RecordLoginFailureLocked(row) ==
    LET counted == [row EXCEPT !.attempts = @ + 1]
    IN  IF counted.attempts >= MaxAttempts THEN [counted EXCEPT !.locked = Lockout] ELSE counted

(* record_login_failure: a locked row is left alone, a window that is over   *)
(* starts again.                                                             *)
RecordLoginFailure(row) ==
    LET counted == [row EXCEPT !.attempts = @ + 1]
    IN  IF row = NoLimit \/ (row.locked = 0 /\ row.age > Window) THEN [NoLimit EXCEPT !.attempts = 1]
        ELSE IF row.locked > 0 THEN row
        ELSE IF counted.attempts >= MaxAttempts THEN [counted EXCEPT !.locked = Lockout]
        ELSE counted

-----------------------------------------------------------------------------
(* login and login_with_password: the rate limit, the credentials, and then  *)
(* either the failure is recorded or the attempts are cleared.               *)
Login(t) ==
    /\ At(t, "idle")
    /\ \E ip \in Ips, kind \in {"key", "password"} :
        /\ load # "login" => kind = "key"
        /\ ~IsRateLimited(limits[ip])
        /\ task' = [task EXCEPT ![t] = [Idle EXCEPT !.pc = "credentials", !.ip = ip, !.kind = kind]]
    /\ UNCHANGED <<db, limits, settings, flows, sessions, history>>

(* A guess made now, told apart from the others of this moment by a number.  *)
NewGuess(made) == <<0, CHOOSE n \in 0 .. Cardinality(made) : <<0, n>> \notin made>>

WrongGuess(t) ==
    /\ Goto(t, "record")
    /\ guesses' = [guesses EXCEPT ![task[t].ip] = @ \cup {NewGuess(@)}]
    /\ UNCHANGED <<minted, absent, sinceRoot>>

Proved(t, u, pc) ==
    /\ task' = [task EXCEPT ![t].pc = pc, ![t].user = u]
    /\ UNCHANGED history

(* get_credentials: a key that is unknown or inactive is a wrong guess.      *)
LoginWithKey(t) ==
    /\ At(t, "credentials") /\ task[t].kind = "key"
    /\ \E k \in KeyIds \cup {Root}, right \in BOOLEAN :
        LET u == GetCredentials(db, k)
        IN  /\ load # "login" => k = Root /\ right
            /\ IF u # None /\ right THEN Proved(t, u, "clear") ELSE WrongGuess(t)
    /\ UNCHANGED <<db, limits, settings, flows, sessions>>

(* verify_user_password: an error, hence no record, for a user who is not    *)
(* there; no handler ever gives a user a password.                           *)
LoginWithPassword(t) ==
    /\ At(t, "credentials") /\ task[t].kind = "password"
    /\ \E u \in Users \cup {Root}, right \in BOOLEAN :
        IF ~UserExists(db, u) THEN Finish(t) /\ UNCHANGED history
        ELSE IF right /\ (u = Root \/ db.users[u].password # None) THEN Proved(t, u, "get_user")
        ELSE WrongGuess(t)
    /\ UNCHANGED <<db, limits, settings, flows, sessions>>

(* get_user after the password was verified.                                 *)
PasswordUser(t) ==
    LET u == task[t].user
    IN  /\ At(t, "get_user")
        /\ IF ~UserExists(db, u) THEN Goto(t, "record")
           ELSE IF UserStatus(db, u) # "active" THEN Finish(t)
           ELSE Goto(t, "clear")
        /\ UNCHANGED <<db, limits, settings, flows, sessions, history>>

RecordFailure(t) ==
    /\ At(t, "record")
    /\ limits' = [limits EXCEPT ![task[t].ip] = RecordLoginFailure(@)]
    /\ Finish(t)
    /\ UNCHANGED <<db, settings, flows, sessions, history>>

\* Mutant: the name decides who is root.
CreateTokenByName(u, isRoot) == [sub |-> u, root |-> u = Root, left |-> SessionTtl]

(* create_token: the claims, signed; only root's carry is_root.              *)
CreateToken(u, isRoot) == [sub |-> u, root |-> isRoot, left |-> SessionTtl]

(* clear_login_attempts, and the token.                                      *)
LoginSucceeds(t) ==
    LET k == task[t]
    IN  /\ At(t, "clear")
        /\ limits' = [limits EXCEPT ![k.ip] = NoLimit]
        /\ guesses' = [guesses EXCEPT ![k.ip] = {}]
        /\ sessions' = sessions \cup {CreateToken(k.user, k.user = Root)}
        /\ sinceRoot' = IF k.user = Root THEN 0 ELSE sinceRoot
        /\ Finish(t)
        /\ UNCHANGED <<db, settings, flows, minted, absent>>

-----------------------------------------------------------------------------
(* Single sign-on.                                                           *)
EnabledProvider(p) == IF p \in DOMAIN providers /\ providers[p].enabled THEN providers[p] ELSE None

(* sweep_expired *)
Unexpired == Restrict(flows, {f \in DOMAIN flows : flows[f].age < FlowTtl})

FlowsInUse ==
    DOMAIN flows \cup {f \in FlowIds : minted[f] > 0 \/ \E t \in Tasks : task[t].flow = f}

(* login_oidc: the provider is read, then discovery is awaited ...           *)
LoginOidc(t) ==
    /\ At(t, "idle") /\ load = "sso"
    /\ flows' = Unexpired
    /\ \E p \in Providers :
        IF EnabledProvider(p) = None THEN UNCHANGED task
        ELSE task' = [task EXCEPT ![t] = [Idle EXCEPT !.pc = "discover", !.provider = p]]
    /\ UNCHANGED <<db, limits, settings, sessions, history>>

(* ... which may fail, and the flow gets a fresh state token.                *)
StartFlow(t) ==
    /\ At(t, "discover")
    /\ \/ UNCHANGED flows
       \/ \E f \in FlowIds \ FlowsInUse :
            flows' = Bind(flows, f, [provider |-> task[t].provider, age |-> 0])
    /\ Finish(t)
    /\ UNCHANGED <<db, limits, settings, sessions, history>>

\* Mutant: the flow is looked up, not removed.
AuthCallbackGet(t) ==
    /\ At(t, "idle")
    /\ \E f \in DOMAIN flows :
        /\ flows[f].age < FlowTtl
        /\ task' = [task EXCEPT ![t] = [Idle EXCEPT !.pc = "provider", !.flow = f,
                                                   !.provider = flows[f].provider]]
        /\ absent' = [absent EXCEPT ![t] = Users \ DOMAIN db.users]
    /\ UNCHANGED <<db, limits, settings, flows, sessions, guesses, minted, sinceRoot>>

(* auth_callback: the flow is consumed, whatever becomes of the request.     *)
AuthCallback(t) ==
    /\ At(t, "idle")
    /\ \E f \in DOMAIN flows :
        /\ flows' = Without(flows, {f})
        /\ IF flows[f].age >= FlowTtl THEN UNCHANGED <<task, absent>>
           ELSE /\ task' = [task EXCEPT ![t] = [Idle EXCEPT !.pc = "provider", !.flow = f,
                                                            !.provider = flows[f].provider]]
                /\ absent' = [absent EXCEPT ![t] = Users \ DOMAIN db.users]
    /\ UNCHANGED <<db, limits, settings, sessions, guesses, minted, sinceRoot>>

CallbackProvider(t) ==
    /\ At(t, "provider")
    /\ LET c == EnabledProvider(task[t].provider)
       IN  IF c = None THEN Finish(t)
           ELSE task' = [task EXCEPT ![t].pc = "exchange", ![t].config = c]
    /\ UNCHANGED <<db, limits, settings, flows, sessions, history>>

(* exchange_and_verify: discovery, the token endpoint and the keys may fail; *)
(* otherwise the provider vouches for a user, for some nonce.  The nonce of  *)
(* a flow is as unique as its state, which stands for both.                  *)
ExchangeAndVerify(t) ==
    /\ At(t, "exchange")
    /\ \/ Finish(t)
       \/ \E u \in Users \cup {Root}, nonce \in FlowIds :
            IF nonce # task[t].flow THEN Finish(t)
            ELSE task' = [task EXCEPT ![t].pc = "resolve", ![t].user = u]
    /\ UNCHANGED <<db, limits, settings, flows, sessions, history>>

Mint(t) ==
    /\ sessions' = sessions \cup {CreateToken(task[t].user, FALSE)}
    /\ minted' = [minted EXCEPT ![task[t].flow] = @ + 1]
    /\ Finish(t)
    /\ UNCHANGED <<limits, settings, flows, guesses, absent, sinceRoot>>

Proceed(t, pc) == Goto(t, pc) /\ UNCHANGED <<limits, settings, flows, sessions, history>>

Refuse(t) == Finish(t) /\ UNCHANGED <<limits, settings, flows, sessions, history>>

(* The user is looked up and, if the provider says so, created; a new user   *)
(* gets a copy of the default policy, if there is one by that name.          *)
ResolveUser(t) ==
    LET k == task[t]
    IN  \/ /\ At(t, "resolve")
           /\ IF UserExists(db, k.user) THEN Mint(t)
              ELSE IF k.config.auto THEN Proceed(t, "provision") ELSE Refuse(t)
           /\ UNCHANGED db
        \/ /\ At(t, "provision")
           /\ LET r == CreateUser(db, k.user)
              IN  /\ db' = r.db
                  /\ IF r.res # "Ok" THEN Refuse(t)
                     ELSE IF k.config.policy = None THEN Mint(t) ELSE Proceed(t, "get_policy")
        \/ /\ At(t, "get_policy")
           /\ LET doc == GetPolicy(db, k.config.policy)
              IN  IF doc = None THEN Mint(t)
                  ELSE /\ task' = [task EXCEPT ![t].pc = "attach", ![t].doc = doc]
                       /\ UNCHANGED <<limits, settings, flows, sessions, history>>
           /\ UNCHANGED db

(* attach_user_policy of the store; its failure is only logged.              *)
AttachDefaultPolicy(t) ==
    LET k == task[t]
    IN  \/ /\ At(t, "attach")
           /\ IF UserExists(db, k.user) THEN Proceed(t, "attach_insert") ELSE Mint(t)
           /\ UNCHANGED db
        \/ /\ At(t, "attach_insert")
           /\ db' = InsertUserPolicy(db, k.user, k.config.policy, k.doc).db
           /\ Mint(t)

-----------------------------------------------------------------------------
(* The settings, for root's sessions only.                                   *)

(* auth_middleware and the is_root test of the handlers: a token of root's   *)
(* that has not expired.                                                     *)
RootSession == \E s \in sessions : s.root

(* create_oidc_provider_admin wants a secret; an update without one keeps    *)
(* the stored one.                                                           *)
CreateOidcProvider ==
    /\ RootSession /\ load # "login"
    /\ \E p \in Providers \ DOMAIN providers, enabled \in BOOLEAN, auto \in BOOLEAN,
          policy \in PolicyNames \cup {None}, secret \in Secrets :
        providers' = Bind(providers, p, [enabled |-> enabled, auto |-> auto,
                                         policy |-> policy, secret |-> secret])
    /\ UNCHANGED <<db, limits, smtp, flows, sessions, task, history>>

UpdateOidcProvider ==
    /\ RootSession /\ load # "login"
    /\ \E p \in DOMAIN providers, enabled \in BOOLEAN, auto \in BOOLEAN,
          policy \in PolicyNames \cup {None}, secret \in Secrets \cup {Empty} :
        providers' = [providers EXCEPT ![p] =
                        [enabled |-> enabled, auto |-> auto, policy |-> policy,
                         secret |-> IF secret = Empty THEN @.secret ELSE secret]]
    /\ UNCHANGED <<db, limits, smtp, flows, sessions, task, history>>

DeleteOidcProvider ==
    /\ RootSession /\ load # "login"
    /\ \E p \in DOMAIN providers : providers' = Without(providers, {p})
    /\ UNCHANGED <<db, limits, smtp, flows, sessions, task, history>>

(* set_smtp_config: the stored password stays when none is sent.             *)
SetSmtpConfig ==
    /\ RootSession /\ load = "settings"
    /\ \E password \in Secrets \cup {Empty} :
        smtp' = CASE password # Empty -> password
                  [] password = Empty /\ smtp # None -> smtp
                  [] OTHER -> Empty
    /\ UNCHANGED <<db, limits, providers, flows, sessions, task, history>>

(* The closures by which the admin API changes users, keys and managed       *)
(* policies under the logins' feet (module AdminApi has the requests).       *)
AdminChange ==
    /\ load # "settings"
    /\ \/ \E u \in Users :
            \/ db' = CreateUser(db, u).db
            \/ db' = DeleteUser(db, u).db
            \/ db' = UpdateUserStatus(db, u, "inactive").db
            \/ load = "login" /\ \E k \in KeyIds \ DOMAIN db.keys : db' = InsertAccessKey(db, k, u).db
       \/ load = "sso" /\ \E name \in PolicyNames :
            \/ \E doc \in Documents : db' = CreatePolicy(db, name, doc).db
            \/ db' = DeletePolicy(db, name).db
    /\ db' # db
    /\ absent' = [t \in Tasks |-> IF task[t].flow = None THEN absent[t]
                                  ELSE absent[t] \cup (Users \ DOMAIN db'.users)]
    /\ UNCHANGED <<limits, settings, flows, sessions, task, guesses, minted, sinceRoot>>

-----------------------------------------------------------------------------
(* The process stops, and starts again: requests and flows are gone, and so  *)
(* are the sessions unless the signing secret is configured.  The rate       *)
(* limits are in the database.                                               *)
Restart ==
    /\ boot' = "smtp"
    /\ task' = [t \in Tasks |-> Idle]
    /\ flows' = <<>>
    /\ sessions' \in {sessions, {}}
    /\ guesses' = [ip \in Ips |-> {}]
    /\ absent' = [t \in Tasks |-> {}]
    /\ UNCHANGED <<db, limits, settings, minted, sinceRoot>>

(* seed_smtp_config: what the environment has is stored if nothing is.       *)
SeedSmtpConfig ==
    /\ boot = "smtp" /\ boot' = "oidc"
    /\ \/ UNCHANGED smtp
       \/ load = "settings" /\ smtp = None /\ smtp' \in Secrets \cup {Empty}
    /\ UNCHANGED <<db, limits, providers, flows, sessions, task, history>>

(* build_env_oidc_provider *)
EnvOidcProviders == [enabled: {TRUE}, auto: BOOLEAN, policy: {None}, secret: Secrets \cup {Empty}]

(* seed_oidc_provider *)
SeedOidcProvider ==
    /\ boot = "oidc" /\ boot' = "up"
    /\ \/ UNCHANGED providers
       \/ load = "settings" /\ DOMAIN providers = {}
          /\ \E p \in Providers, c \in EnvOidcProviders : providers' = Bind(providers, p, c)
    /\ UNCHANGED <<db, limits, smtp, flows, sessions, task, history>>

Capped(n, most) == IF n >= most THEN most ELSE n + 1

(* Time passes.                                                              *)
Tick ==
    /\ limits' = [ip \in Ips |->
                    IF limits[ip] = NoLimit THEN NoLimit
                    ELSE [limits[ip] EXCEPT !.age = Capped(@, Window + 1),
                                            !.locked = IF @ > 0 THEN @ - 1 ELSE 0]]
    /\ flows' = [f \in DOMAIN flows |-> [flows[f] EXCEPT !.age = Capped(@, FlowTtl)]]
    /\ sessions' = {[s EXCEPT !.left = @ - 1] : s \in {x \in sessions : x.left > 0}}
    /\ guesses' = [ip \in Ips |-> {<<g[1] + 1, g[2]>> : g \in {x \in guesses[ip] : x[1] < Window}}]
    /\ sinceRoot' = Capped(sinceRoot, SessionTtl + 1)
    /\ UNCHANGED <<db, settings, task, minted, absent>>

Init ==
    /\ load \in Loads /\ boot = "smtp"
    /\ db = EmptyDb
    /\ limits = [ip \in Ips |-> NoLimit]
    /\ providers = <<>> /\ smtp = None
    /\ flows = <<>> /\ sessions = {}
    /\ task = [t \in Tasks |-> Idle]
    /\ guesses = [ip \in Ips |-> {}]
    /\ minted = [f \in FlowIds |-> 0]
    /\ absent = [t \in Tasks |-> {}]
    /\ sinceRoot = SessionTtl + 1

Request(t) ==
    \/ Login(t) \/ LoginWithKey(t) \/ LoginWithPassword(t) \/ PasswordUser(t)
    \/ RecordFailure(t) \/ LoginSucceeds(t)
    \/ LoginOidc(t) \/ StartFlow(t)
    \/ AuthCallback(t) \/ CallbackProvider(t) \/ ExchangeAndVerify(t)
    \/ ResolveUser(t) \/ AttachDefaultPolicy(t)

AdminRequest ==
    \/ CreateOidcProvider \/ UpdateOidcProvider \/ DeleteOidcProvider \/ SetSmtpConfig
    \/ AdminChange

TimePasses == Tick /\ UNCHANGED <<load, boot>>

Next ==
    \/ /\ boot = "up" /\ (AdminRequest \/ \E t \in Tasks : Request(t))
       /\ UNCHANGED <<load, boot>>
    \/ (Restart \/ SeedSmtpConfig \/ SeedOidcProvider) /\ UNCHANGED load
    \/ TimePasses

Spec == Init /\ [][Next]_vars

(* Time does not stop.                                                       *)
FairSpec == Spec /\ WF_vars(TimePasses)

-----------------------------------------------------------------------------
TypeOK ==
    /\ limits \in [Ips -> [attempts: 0 .. MaxAttempts, age: 0 .. Window + 1, locked: 0 .. Lockout]]
    /\ DOMAIN providers \subseteq Providers
    /\ smtp \in Secrets \cup {None, Empty}
    /\ DOMAIN flows \subseteq FlowIds
    /\ sessions \subseteq [sub: Users \cup {Root}, root: BOOLEAN, left: 0 .. SessionTtl]
    /\ DOMAIN task = Tasks /\ boot \in {"smtp", "oidc", "up"}

(* Wrong guesses an address got to make in the last window, since its last   *)
(* success and the last start.                                               *)
GuessesInWindow(ip) == Cardinality(guesses[ip])

(* Logins in flight between the check of the limit and the record of the     *)
(* failure pass the limit of is_rate_limited, but only by so much: a window  *)
(* lets MaxAttempts - 1 guesses through and then one of every task, and any  *)
(* span of that length meets two such windows, less the guesses they begin   *)
(* with.                                                                     *)
GuessBudget ==
    \A ip \in Ips : GuessesInWindow(ip) <= 2 * (MaxAttempts + Cardinality(Tasks) - 2)

(* A state token leads to one session at most, however often and at the same *)
(* time the provider's redirect is delivered.                                *)
FlowUsedOnce == \A f \in FlowIds : minted[f] <= 1

(* Only a user who was absent at some time of the callback is created or     *)
(* given the default policy by it.                                           *)
ProvisionsOnlyNewUsers ==
    \A t \in Tasks :
        task[t].pc \in {"provision", "get_policy", "attach", "attach_insert"} => task[t].user \in absent[t]

(* The single sign-on and mail settings change only within a session's time  *)
(* of a login with the root credentials (a user whom a provider calls "root" *)
(* is not enough, and no token outlives its time over a restart), or while   *)
(* the process starts and nothing is stored; and no save loses a stored      *)
(* secret, since an empty field means "as it was".                           *)
SettingsAreKept ==
    [][/\ \/ sinceRoot <= SessionTtl
          \/ boot = "smtp" /\ smtp = None /\ UNCHANGED providers
          \/ boot = "oidc" /\ DOMAIN providers = {} /\ UNCHANGED smtp
       /\ smtp \in Secrets => smtp' \in Secrets
       /\ \A p \in DOMAIN providers \cap DOMAIN providers' :
            providers[p].secret \in Secrets => providers'[p].secret \in Secrets]_settings

(* A lockout ends by itself, whatever is tried during it.                    *)
LockoutEnds == \A ip \in Ips : IsRateLimited(limits[ip]) ~> ~IsRateLimited(limits[ip])
=============================================================================
