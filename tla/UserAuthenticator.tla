------------------------- MODULE UserAuthenticator -------------------------
(***************************************************************************)
(* The authentication service: cppforge::auth::UserAuthenticator with its  *)
(* in-memory cache users_, the SQLite table behind PasswordSQL and the     *)
(* lockout counters of UserCredentials.                                    *)
(*                                                                         *)
(* Clients are the threads that call the authenticator (the gRPC threads   *)
(* of AuthRpcServiceImpl).  Every public method holds users_mutex_ for its *)
(* whole body and is one action, except change_password: it calls          *)
(* authenticate, which locks and unlocks, and then locks again.            *)
(*                                                                         *)
(* A password hash with its salt is the password it was made from: the     *)
(* comparison of hashes is equality of passwords.  A clock reading is kept *)
(* as the number of minutes since it was taken, counted up to              *)
(* LockoutDuration, the only threshold the code compares it with.          *)
(***************************************************************************)
EXTENDS Integers, FiniteSets

CONSTANTS
    Clients,          \* threads calling the authenticator
    Users,            \* user names that may be typed
    ValidNames,       \* the names validate_username accepts
    Passwords,        \* passwords that may be typed
    Policies,         \* policies, each the set of passwords it accepts
    MaxAttempts,      \* UserCredentials::DEFAULT_MAX_ATTEMPTS
    LockoutDuration,  \* UserCredentials::DEFAULT_LOCKOUT_DURATION, in minutes
    SqlOutcomes,      \* how a statement may end: TRUE, or FALSE for an exception
    FailedBound,      \* bound: failed_attempts_ is not counted past it
    NoRow, NoUser, Empty, Never

(* What format_credentials_data writes into the password column. *)
Credential == [hash : Passwords]

(* The regex of validate_username excludes ':', so that no user name can be *)
(* read as "salt:hash".                                                     *)
ASSUME NamesAssumption ==
    /\ Users # {}
    /\ ValidNames \subseteq Users
    /\ Users \cap Credential = {}
    /\ NoRow \notin Credential
    /\ Empty \notin Credential

ASSUME SqlAssumption == SqlOutcomes \subseteq BOOLEAN

ASSUME PolicyAssumption == \A p \in Policies : p \subseteq Passwords

ASSUME LockoutAssumption ==
    /\ MaxAttempts \in Nat \ {0}
    /\ LockoutDuration \in Nat \ {0}
    /\ FailedBound \in Nat
    /\ Never \notin 0 .. LockoutDuration

VARIABLES
    db,        \* the users table: the password column, or NoRow
    users,     \* users_: the cached UserCredentials, or NoUser
    policy,    \* password_policy_
    pending,   \* per client: the change_password call between its two locks
    reply,     \* what the last finished call answered
    guesses    \* history: wrong passwords compared in the last LockoutDuration
               \* minutes, each with the attempt number it was counted as

vars == <<db, users, policy, pending, reply, guesses>>

Ages == 0 .. LockoutDuration

Account ==
    [hash : Passwords, failed : 0 .. FailedBound, last : Ages \cup {Never}]

ASSUME NoUserAssumption == NoUser \notin Account

IsNoUser(e) == e = NoUser

NotInCall == [step |-> "idle"]

ChangeCall ==
    [step : {"verified"}, user : Users, current : Passwords, new : Passwords]

Messages == {"ok", "false", "not_found", "locked", "invalid_password",
             "bad_name", "exists", "policy", "db_failed"}

Replies ==
    [op : {"none", "register", "authenticate", "change", "reset", "exists",
           "delete"},
     user : Users, password : Passwords \cup {Empty}, msg : Messages]

TypeOK ==
    /\ db \in [Users -> Credential \cup {NoRow}]
    /\ users \in [Users -> Account \cup {NoUser}]
    /\ policy \in Policies
    /\ pending \in [Clients -> ChangeCall \cup {NotInCall}]
    /\ reply \in Replies
    /\ guesses \in [Users -> SUBSET [n : 1 .. FailedBound, age : Ages]]

-----------------------------------------------------------------------------
(* PasswordSQL.  Each statement may throw (ok = FALSE); the wrapper then     *)
(* answers as if nothing had been found or changed.                          *)

SqlUserExists(u, ok) == ok /\ db[u] # NoRow

(* INSERT: the UNIQUE constraint on username refuses a second row. *)
SqlRegisterUserReplacing(u, ok) == ok
SqlRegisterUser(u, ok) == ok /\ db[u] = NoRow

(* UPDATE ... WHERE username = ?: reports success when a row was affected. *)
SqlResetPasswordIgnoringRows(u, ok) == ok
SqlResetPassword(u, ok) == ok /\ db[u] # NoRow

(* DELETE ... WHERE username = ?: likewise. *)
SqlDeleteUser(u, ok) == ok /\ db[u] # NoRow

(* SELECT username ...: the name column, not the password column. *)
SqlGetUser(u, ok) == IF ok /\ db[u] # NoRow THEN u ELSE Empty

-----------------------------------------------------------------------------
(* UserCredentials. *)

NewAccount(p) == [hash |-> p, failed |-> 0, last |-> Never]

(* The difference between now and time_point::min() overflows to a negative *)
(* number of minutes, which is below any lockout duration.                  *)
RecentFailure(e) == e.last = Never \/ e.last < LockoutDuration

is_locked_above(e) == e.failed > MaxAttempts /\ RecentFailure(e)
is_locked(e) == e.failed >= MaxAttempts /\ RecentFailure(e)

increment_failed_attempts(e) ==
    [hash |-> e.hash, failed |-> e.failed + 1, last |-> 0]

reset_failed_attempts(e) ==
    [hash |-> e.hash, failed |-> 0, last |-> Never]

-----------------------------------------------------------------------------
(* UserAuthenticator. *)

validate(p) == p \in policy

validate_username(u) == u \in ValidNames

(* Without the check for npos the whole string is taken for the hash. *)
parse_without_delimiter(data) ==
    IF data \in Credential THEN NewAccount(data.hash) ELSE NewAccount(data)
parse_credentials_data(data) ==
    IF data \in Credential THEN NewAccount(data.hash) ELSE NoUser

load_user_from_db(u, okExists, okGet) ==
    IF SqlUserExists(u, okExists)
    THEN parse_credentials_data(SqlGetUser(u, okGet))
    ELSE NoUser

Answer(op, u, p, msg) ==
    reply' = [op |-> op, user |-> u, password |-> p, msg |-> msg]

Idle(c) == pending[c] = NotInCall

register_user(c, u, p) ==
    /\ Idle(c)
    /\ \E okExists, okInsert \in SqlOutcomes :
         LET taken    == ~ IsNoUser(users[u]) \/ SqlUserExists(u, okExists)
             accepted == validate_username(u) /\ ~ taken /\ validate(p)
             stored   == accepted /\ SqlRegisterUser(u, okInsert)
         IN  /\ db' = IF stored
                      THEN [db EXCEPT ![u] = [hash |-> p]] ELSE db
             /\ users' = IF stored
                         THEN [users EXCEPT ![u] = NewAccount(p)] ELSE users
             /\ guesses' = IF stored
                           THEN [guesses EXCEPT ![u] = {}] ELSE guesses
             /\ Answer("register", u, p,
                    CASE ~ validate_username(u) -> "bad_name"
                      [] validate_username(u) /\ taken -> "exists"
                      [] validate_username(u) /\ ~ taken /\ ~ validate(p) -> "policy"
                      [] accepted /\ ~ stored -> "db_failed"
                      [] stored -> "ok")
    /\ UNCHANGED <<policy, pending>>

(* The account authenticate works on: the cached one, or the loaded one. *)
Lookup(u, okExists, okGet) ==
    IF IsNoUser(users[u]) THEN load_user_from_db(u, okExists, okGet)
                          ELSE users[u]

AuthMessage(e, p) ==
    CASE IsNoUser(e) -> "not_found"
      [] ~ IsNoUser(e) /\ is_locked(e) -> "locked"
      [] ~ IsNoUser(e) /\ ~ is_locked(e) /\ p = e.hash -> "ok"
      [] ~ IsNoUser(e) /\ ~ is_locked(e) /\ p # e.hash -> "invalid_password"

(* A lockout that counts the attempts it refuses. *)
AuthEffectCountingRefused(u, e, msg) ==
    /\ users' = [users EXCEPT ![u] =
                    CASE msg = "ok" -> reset_failed_attempts(e)
                      [] msg \in {"invalid_password", "locked"} ->
                           [e EXCEPT !.failed = IF @ < FailedBound THEN @ + 1
                                                ELSE @, !.last = 0]
                      [] msg = "not_found" -> e]
    /\ UNCHANGED guesses

AuthEffect(u, e, msg) ==
    /\ msg = "invalid_password" => e.failed < FailedBound
    /\ users' = [users EXCEPT ![u] =
                    CASE msg = "ok" -> reset_failed_attempts(e)
                      [] msg = "invalid_password" -> increment_failed_attempts(e)
                      [] msg \in {"not_found", "locked"} -> e]
    /\ guesses' = [guesses EXCEPT ![u] =
                    CASE msg = "ok" -> {}
                      [] msg = "invalid_password" ->
                           @ \cup {[n |-> e.failed + 1, age |-> 0]}
                      [] msg \in {"not_found", "locked"} -> @]

authenticate(c, u, p) ==
    /\ Idle(c)
    /\ \E okExists, okGet \in SqlOutcomes :
         LET e == Lookup(u, okExists, okGet)
         IN  /\ AuthEffect(u, e, AuthMessage(e, p))
             /\ Answer("authenticate", u, p, AuthMessage(e, p))
    /\ UNCHANGED <<db, policy, pending>>

(* change_password, first lock: authenticate with the current password. *)
change_password_verify(c, u, p, new) ==
    /\ Idle(c)
    /\ \E okExists, okGet \in SqlOutcomes :
         LET e   == Lookup(u, okExists, okGet)
             msg == AuthMessage(e, p)
         IN  /\ AuthEffect(u, e, msg)
             /\ IF msg = "ok"
                THEN /\ pending' = [pending EXCEPT ![c] =
                            [step |-> "verified", user |-> u,
                             current |-> p, new |-> new]]
                     /\ UNCHANGED reply
                ELSE /\ Answer("change", u, p, msg)
                     /\ UNCHANGED pending
    /\ UNCHANGED <<db, policy>>

(* change_password, second lock: the cached account is looked up again. *)
change_password_commit(c) ==
    /\ pending[c].step = "verified"
    /\ \E ok \in SqlOutcomes :
         LET u      == pending[c].user
             new    == pending[c].new
             found  == ~ IsNoUser(users[u])
             stored == found /\ validate(new) /\ SqlResetPassword(u, ok)
         IN  /\ db' = IF stored /\ db[u] # NoRow
                      THEN [db EXCEPT ![u] = [hash |-> new]] ELSE db
             /\ users' = IF stored
                         THEN [users EXCEPT ![u] = NewAccount(new)] ELSE users
             /\ guesses' = IF stored
                           THEN [guesses EXCEPT ![u] = {}] ELSE guesses
             /\ Answer("change", u, pending[c].current,
                    CASE ~ found -> "not_found"
                      [] found /\ ~ validate(new) -> "policy"
                      [] found /\ validate(new) /\ ~ stored -> "db_failed"
                      [] stored -> "ok")
    /\ pending' = [pending EXCEPT ![c] = NotInCall]
    /\ UNCHANGED policy

reset_password(c, u, new) ==
    /\ Idle(c)
    /\ \E ok \in SqlOutcomes :
         LET stored == validate(new) /\ SqlResetPassword(u, ok)
         IN  /\ db' = IF stored /\ db[u] # NoRow
                      THEN [db EXCEPT ![u] = [hash |-> new]] ELSE db
             /\ users' = IF stored
                         THEN [users EXCEPT ![u] = NewAccount(new)] ELSE users
             /\ guesses' = IF stored
                           THEN [guesses EXCEPT ![u] = {}] ELSE guesses
             /\ Answer("reset", u, new,
                    CASE ~ validate(new) -> "policy"
                      [] validate(new) /\ ~ stored -> "db_failed"
                      [] stored -> "ok")
    /\ UNCHANGED <<policy, pending>>

user_exists(c, u) ==
    /\ Idle(c)
    /\ \E ok \in SqlOutcomes :
         Answer("exists", u, Empty,
                IF ~ IsNoUser(users[u]) \/ SqlUserExists(u, ok)
                THEN "ok" ELSE "false")
    /\ UNCHANGED <<db, users, policy, pending, guesses>>

delete_user(c, u) ==
    /\ Idle(c)
    /\ \E ok \in SqlOutcomes :
         LET deleted == SqlDeleteUser(u, ok)
         IN  /\ db' = IF deleted THEN [db EXCEPT ![u] = NoRow] ELSE db
             /\ users' = IF deleted
                         THEN [users EXCEPT ![u] = NoUser] ELSE users
             /\ guesses' = IF deleted
                           THEN [guesses EXCEPT ![u] = {}] ELSE guesses
             /\ Answer("delete", u, Empty, IF deleted THEN "ok" ELSE "false")
    /\ UNCHANGED <<policy, pending>>

set_password_policy(p) ==
    /\ policy' = p
    /\ UNCHANGED <<db, users, pending, reply, guesses>>

-----------------------------------------------------------------------------
(* The environment: a minute passes; the process stops and starts again. *)

OneMinuteOlder(a) == IF a \in 0 .. LockoutDuration - 1 THEN a + 1 ELSE a

Minute ==
    /\ users' = [u \in Users |->
                    IF IsNoUser(users[u]) THEN NoUser
                    ELSE [hash |-> users[u].hash, failed |-> users[u].failed,
                          last |-> OneMinuteOlder(users[u].last)]]
    /\ guesses' = [u \in Users |->
                    {[n |-> g.n, age |-> g.age + 1] :
                        g \in {h \in guesses[u] : h.age + 1 < LockoutDuration}}]
    /\ UNCHANGED <<db, policy, pending, reply>>

NoReply == [op |-> "none", user |-> CHOOSE u \in Users : TRUE,
            password |-> Empty, msg |-> "ok"]

Restart ==
    /\ users' = [u \in Users |-> NoUser]
    /\ pending' = [c \in Clients |-> NotInCall]
    /\ guesses' = [u \in Users |-> {}]
    /\ reply' = NoReply
    /\ policy' \in Policies
    /\ UNCHANGED db

Init ==
    /\ db = [u \in Users |-> NoRow]
    /\ users = [u \in Users |-> NoUser]
    /\ policy \in Policies
    /\ pending = [c \in Clients |-> NotInCall]
    /\ reply = NoReply
    /\ guesses = [u \in Users |-> {}]

Next ==
    \/ \E c \in Clients, u \in Users :
         \/ \E p \in Passwords :
              \/ register_user(c, u, p)
              \/ authenticate(c, u, p)
              \/ reset_password(c, u, p)
              \/ \E new \in Passwords : change_password_verify(c, u, p, new)
         \/ user_exists(c, u)
         \/ delete_user(c, u)
    \/ \E c \in Clients : change_password_commit(c)
    \/ \E p \in Policies : set_password_policy(p)
    \/ Minute
    \/ Restart

Spec == Init /\ [][Next]_vars

(* The wall clock does not stop. *)
FairSpec == Spec /\ WF_vars(Minute)

-----------------------------------------------------------------------------
(* The cache never disagrees with the table, whatever statements fail and   *)
(* wherever the process stops: register_user, change_password,              *)
(* reset_password and delete_user touch users_ only after the database      *)
(* reported that the row really changed.                                    *)
CacheCoherent ==
    \A u \in Users : users[u] # NoUser => db[u] = [hash |-> users[u].hash]

(* Whoever authenticate lets in typed the password the table holds at that  *)
(* moment, although authenticate only looks at the cache.                   *)
LoginMatchesDatabase ==
    reply.op = "authenticate" /\ reply.msg = "ok"
        => db[reply.user] = [hash |-> reply.password]

(* register_user never replaces an existing account, even when the          *)
(* UserExists query throws and is reported as "no such user": a row that    *)
(* exists is changed by change_password, reset_password or delete_user.     *)
RegisterNeverOverwrites ==
    [][\A u \in Users : db[u] # NoRow /\ db'[u] # db[u]
         => reply'.op \in {"change", "reset", "delete"}]_vars

(* Between two resets of the counter (a login, a new password, a restart),  *)
(* at most MaxAttempts wrong passwords are compared in any LockoutDuration  *)
(* minutes: the counter survives the end of a lockout, so that one more     *)
(* failure locks the account again.                                         *)
BruteForceBound ==
    \A u \in Users : Cardinality({g.n : g \in guesses[u]}) <= MaxAttempts

(* The overflow of now - time_point::min() in is_locked never locks anybody *)
(* out: last_failed_attempt_ is min() only while failed_attempts_ is 0.     *)
UnderflowHarmless ==
    \A u \in Users :
        users[u] # NoUser /\ users[u].last = Never => ~ is_locked(users[u])

(* A locked account is unlocked after a while, however many attempts are    *)
(* made in the meantime: is_locked returns before the counter is touched.   *)
LockExpires ==
    \A u \in Users :
        (users[u] # NoUser /\ is_locked(users[u]))
            ~> (users[u] = NoUser \/ ~ is_locked(users[u]))

-----------------------------------------------------------------------------
(* A statement of the documentation that the code does not meet. *)

(* load_user_from_db: "User credentials if found, nullopt otherwise"; with  *)
(* it authenticate answers "User not found" only for users that are not in  *)
(* the table (or when a statement failed, which the run excludes).          *)
KnownUserIsFound ==
    reply.op = "authenticate" /\ reply.msg = "not_found"
        => db[reply.user] = NoRow
=============================================================================
