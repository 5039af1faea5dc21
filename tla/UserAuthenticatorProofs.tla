---------------------- MODULE UserAuthenticatorProofs ----------------------
(* Theorems about UserAuthenticator, for every value of its constants. *)
EXTENDS UserAuthenticator, FiniteSetTheorems, TLAPS

(* What NewAccount and the operators on the counters return are accounts. *)
LEMMA AccountOperators ==
    /\ \A p \in Passwords : NewAccount(p) \in Account
    /\ \A e \in Account : reset_failed_attempts(e) \in Account
    /\ \A e \in Account :
         e.failed < FailedBound => increment_failed_attempts(e) \in Account
<1>1. \A p \in Passwords : NewAccount(p) \in Account
  BY LockoutAssumption DEF NewAccount, Account, Ages
<1>2. \A e \in Account : reset_failed_attempts(e) \in Account
  BY LockoutAssumption DEF reset_failed_attempts, Account, Ages
<1>3. \A e \in Account :
         e.failed < FailedBound => increment_failed_attempts(e) \in Account
  BY LockoutAssumption DEF increment_failed_attempts, Account, Ages
<1> QED BY <1>1, <1>2, <1>3

(* load_user_from_db never yields an account: the name column cannot be     *)
(* parsed as credentials.                                                   *)
LEMMA LoadsNothing ==
    ASSUME NEW u \in Users, NEW a, NEW b
    PROVE  load_user_from_db(u, a, b) = NoUser
BY NamesAssumption
   DEF load_user_from_db, parse_credentials_data, SqlUserExists, SqlGetUser

(* The account authenticate works on is the cached one. *)
LEMMA LookupIsCache ==
    ASSUME NEW u \in Users, NEW a, NEW b
    PROVE  Lookup(u, a, b) = users[u]
BY LoadsNothing DEF Lookup, IsNoUser

-----------------------------------------------------------------------------
(* The strengthened invariant.  While failed_attempts_ has not passed the   *)
(* limit the remembered guesses carry attempt numbers up to it; once it has *)
(* passed it, the account was locked for the whole LockoutDuration before   *)
(* each further comparison, so only the last guess can still be recent.     *)
GuessesCounted(u) ==
    /\ users[u] = NoUser => guesses[u] = {}
    /\ users[u] # NoUser =>
         /\ users[u].last = Never => users[u].failed = 0
         /\ users[u].failed = 0 => guesses[u] = {}
         /\ \A g \in guesses[u] :
              /\ g.n \in 1 .. users[u].failed
              /\ users[u].last \in Ages
              /\ users[u].last <= g.age
              /\ g.age < LockoutDuration
              /\ users[u].failed > MaxAttempts => g.n = users[u].failed

IInv ==
    /\ TypeOK
    /\ CacheCoherent
    /\ LoginMatchesDatabase
    /\ \A u \in Users : GuessesCounted(u)

-----------------------------------------------------------------------------
(* Storing fresh credentials for u in cache and table, or deleting both,    *)
(* preserves what the invariant says of the accounts.                       *)
Fresh(u, row, account) ==
    /\ db' = [db EXCEPT ![u] = row]
    /\ users' = [users EXCEPT ![u] = account]
    /\ guesses' = [guesses EXCEPT ![u] = {}]

Accounts ==
    /\ db \in [Users -> Credential \cup {NoRow}]
    /\ users \in [Users -> Account \cup {NoUser}]
    /\ guesses \in [Users -> SUBSET [n : 1 .. FailedBound, age : Ages]]
    /\ CacheCoherent
    /\ \A u \in Users : GuessesCounted(u)

LEMMA StoreKeepsAccounts ==
    ASSUME Accounts, NEW u \in Users, NEW p \in Passwords,
           Fresh(u, [hash |-> p], NewAccount(p))
    PROVE  Accounts'
<1>1. NewAccount(p) \in Account /\ NewAccount(p).hash = p
      /\ NewAccount(p).failed = 0
  BY AccountOperators DEF NewAccount
<1>2. [hash |-> p] \in Credential
  BY DEF Credential
<1>3. CacheCoherent'
  BY <1>1 DEF Accounts, CacheCoherent, Fresh
<1>4. \A v \in Users : GuessesCounted(v)'
  BY <1>1, LockoutAssumption DEF Accounts, GuessesCounted, Fresh
<1> QED BY <1>1, <1>2, <1>3, <1>4 DEF Accounts, Fresh

LEMMA DeleteKeepsAccounts ==
    ASSUME Accounts, NEW u \in Users, Fresh(u, NoRow, NoUser)
    PROVE  Accounts'
<1>3. CacheCoherent'
  BY DEF Accounts, CacheCoherent, Fresh
<1>4. \A v \in Users : GuessesCounted(v)'
  <2> SUFFICES ASSUME NEW v \in Users PROVE GuessesCounted(v)'
    OBVIOUS
  <2>1. CASE v = u
    BY <2>1 DEF Accounts, GuessesCounted, Fresh
  <2>2. CASE v # u
    BY <2>2 DEF Accounts, GuessesCounted, Fresh
  <2> QED BY <2>1, <2>2
<1> QED BY <1>3, <1>4 DEF Accounts, Fresh

LEMMA AuthKeepsAccounts ==
    ASSUME Accounts, NEW u \in Users, NEW p \in Passwords, UNCHANGED db,
           AuthEffect(u, users[u], AuthMessage(users[u], p))
    PROVE  Accounts'
<1> DEFINE e == users[u]
           msg == AuthMessage(e, p)
<1>1. CASE msg \in {"not_found", "locked"}
  <2>1. UNCHANGED <<users, guesses>>
    BY <1>1 DEF AuthEffect, Accounts
  <2> QED BY <2>1 DEF Accounts, CacheCoherent, GuessesCounted
<1>2. CASE msg = "ok"
  <2>1. e # NoUser /\ e \in Account
    BY <1>2 DEF AuthMessage, IsNoUser, Accounts
  <2>2. /\ users' = [users EXCEPT ![u] = reset_failed_attempts(e)]
        /\ guesses' = [guesses EXCEPT ![u] = {}]
    BY <1>2 DEF AuthEffect
  <2>3. /\ reset_failed_attempts(e) \in Account
        /\ reset_failed_attempts(e).hash = e.hash
        /\ reset_failed_attempts(e).failed = 0
    BY <2>1, AccountOperators DEF reset_failed_attempts
  <2>4. CacheCoherent'
    BY <2>1, <2>2, <2>3 DEF Accounts, CacheCoherent
  <2>5. \A v \in Users : GuessesCounted(v)'
    BY <2>1, <2>2, <2>3, LockoutAssumption DEF Accounts, GuessesCounted
  <2> QED BY <2>2, <2>3, <2>4, <2>5 DEF Accounts
<1>3. CASE msg = "invalid_password"
  <2>1. e # NoUser /\ e \in Account /\ ~ is_locked(e) /\ e.failed < FailedBound
    BY <1>3 DEF AuthMessage, AuthEffect, IsNoUser, Accounts
  <2> DEFINE g == [n |-> e.failed + 1, age |-> 0]
  <2>2. /\ users' = [users EXCEPT ![u] = increment_failed_attempts(e)]
        /\ guesses' = [guesses EXCEPT ![u] = @ \cup {g}]
    BY <1>3 DEF AuthEffect
  <2>3. /\ increment_failed_attempts(e) \in Account
        /\ increment_failed_attempts(e).hash = e.hash
        /\ increment_failed_attempts(e).failed = e.failed + 1
        /\ increment_failed_attempts(e).last = 0
    BY <2>1, AccountOperators DEF increment_failed_attempts
  <2>4. g \in [n : 1 .. FailedBound, age : Ages]
    BY <2>1, LockoutAssumption DEF Account, Ages
  <2>5. guesses' \in [Users -> SUBSET [n : 1 .. FailedBound, age : Ages]]
    BY <2>2, <2>4 DEF Accounts
  <2>6. CacheCoherent'
    BY <2>1, <2>2, <2>3 DEF Accounts, CacheCoherent
  <2>7. \A v \in Users : GuessesCounted(v)'
    <3> SUFFICES ASSUME NEW v \in Users PROVE GuessesCounted(v)'
      OBVIOUS
    <3>1. CASE v # u
      BY <3>1, <2>2 DEF Accounts, GuessesCounted
    <3>2. CASE v = u
      <4>1. /\ users'[u] = increment_failed_attempts(e)
            /\ guesses'[u] = guesses[u] \cup {g}
        BY <2>2 DEF Accounts
      <4>2. e.failed >= MaxAttempts => guesses[u] = {}
        <5>1. ASSUME e.failed >= MaxAttempts, NEW h \in guesses[u]
              PROVE FALSE
          <6>1. ~ RecentFailure(e)
            BY <5>1, <2>1 DEF is_locked
          <6>2. e.last \in Ages /\ e.last <= h.age /\ h.age < LockoutDuration
            BY <2>1 DEF Accounts, GuessesCounted
          <6>3. h.age \in Ages
            BY DEF Accounts
          <6> QED BY <6>1, <6>2, <6>3, LockoutAssumption DEF RecentFailure, Ages
        <5> QED BY <5>1
      <4>3. e.failed \in Nat
        BY <2>1, LockoutAssumption DEF Account
      <4>4. \A h \in guesses[u] : h.n \in 1 .. e.failed /\ h.age < LockoutDuration
                                  /\ h.age \in Ages
        BY <2>1 DEF Accounts, GuessesCounted
      <4>5. increment_failed_attempts(e) # NoUser
            => /\ \A h \in guesses[u] \cup {g} :
                     /\ h.n \in 1 .. e.failed + 1
                     /\ 0 \in Ages /\ 0 <= h.age
                     /\ h.age < LockoutDuration
                     /\ e.failed + 1 > MaxAttempts => h.n = e.failed + 1
        BY <4>2, <4>3, <4>4, LockoutAssumption DEF Ages
      <4>6. 0 # Never /\ e.failed + 1 # 0
        BY <4>3, LockoutAssumption DEF Ages
      <4>7. increment_failed_attempts(e) # NoUser
        BY <2>3, NoUserAssumption
      <4> QED BY <3>2, <4>1, <4>5, <4>6, <4>7, <2>3 DEF GuessesCounted
    <3> QED BY <3>1, <3>2
  <2> QED BY <2>2, <2>3, <2>5, <2>6, <2>7 DEF Accounts
<1> QED BY <1>1, <1>2, <1>3 DEF AuthMessage

LEMMA MinuteKeepsAccounts ==
    ASSUME Accounts, Minute
    PROVE  Accounts'
<1> SUFFICES ASSUME NEW u \in Users
             PROVE  /\ users'[u] \in Account \cup {NoUser}
                    /\ guesses'[u] \in SUBSET [n : 1 .. FailedBound, age : Ages]
                    /\ users'[u] # NoUser => db'[u] = [hash |-> users'[u].hash]
                    /\ GuessesCounted(u)'
  <2>1. users' = [u \in Users |-> users'[u]] /\ guesses' = [u \in Users |-> guesses'[u]]
        /\ db' = db
    BY DEF Minute
  <2> QED BY <2>1 DEF Accounts, CacheCoherent
<1>1. CASE users[u] = NoUser
  <2>1. users'[u] = NoUser /\ guesses'[u] = {}
    BY <1>1 DEF Minute, Accounts, GuessesCounted, IsNoUser
  <2> QED BY <2>1 DEF GuessesCounted
<1>2. CASE users[u] # NoUser
  <2> DEFINE e == users[u]
             f == [hash |-> e.hash, failed |-> e.failed,
                   last |-> OneMinuteOlder(e.last)]
  <2>1. e \in Account /\ guesses[u] \in SUBSET [n : 1 .. FailedBound, age : Ages]
    BY <1>2 DEF Accounts
  <2>2. users'[u] = f /\ db' = db
    BY <1>2 DEF Minute, IsNoUser
  <2>3. OneMinuteOlder(e.last) \in Ages \cup {Never}
    BY <2>1, LockoutAssumption DEF OneMinuteOlder, Ages, Account
  <2>4. f \in Account
    BY <2>1, <2>3 DEF Account
  <2>5. f # NoUser
    BY <2>4, NoUserAssumption
  <2>6. \A g \in guesses'[u] : \E h \in guesses[u] :
          g = [n |-> h.n, age |-> h.age + 1] /\ h.age + 1 < LockoutDuration
    BY DEF Minute
  <2>7. \A g \in guesses'[u] :
          /\ g \in [n : 1 .. FailedBound, age : Ages]
          /\ g.n \in 1 .. e.failed
          /\ f.last \in Ages
          /\ f.last <= g.age
          /\ g.age < LockoutDuration
          /\ e.failed > MaxAttempts => g.n = e.failed
    <3> SUFFICES ASSUME NEW h \in guesses[u], h.age + 1 < LockoutDuration,
                        NEW g, g = [n |-> h.n, age |-> h.age + 1]
                 PROVE  /\ g \in [n : 1 .. FailedBound, age : Ages]
                        /\ g.n \in 1 .. e.failed
                        /\ f.last \in Ages
                        /\ f.last <= g.age
                        /\ g.age < LockoutDuration
                        /\ e.failed > MaxAttempts => g.n = e.failed
      BY <2>6
    <3>1. h \in [n : 1 .. FailedBound, age : Ages]
      BY <2>1
    <3>2. /\ h.n \in 1 .. e.failed
          /\ e.last \in Ages
          /\ e.last <= h.age
          /\ e.failed > MaxAttempts => h.n = e.failed
      BY <1>2 DEF Accounts, GuessesCounted
    <3> QED BY <3>1, <3>2, LockoutAssumption DEF OneMinuteOlder, Ages
  <2>8. f.last = Never => e.last = Never
    BY <2>1, LockoutAssumption DEF OneMinuteOlder, Account, Ages
  <2>9. /\ e.last = Never => e.failed = 0
        /\ e.failed = 0 => guesses[u] = {}
        /\ db[u] = [hash |-> e.hash]
    BY <1>2 DEF Accounts, GuessesCounted, CacheCoherent
  <2>10. e.failed = 0 => guesses'[u] = {}
    BY <2>6, <2>9
  <2>11. GuessesCounted(u)'
    BY <2>2, <2>5, <2>7, <2>8, <2>9, <2>10 DEF GuessesCounted
  <2> QED BY <2>2, <2>4, <2>7, <2>9, <2>11
<1> QED BY <1>1, <1>2

-----------------------------------------------------------------------------
(* The calls as the accounts see them: nothing, fresh credentials or none.  *)
LEMMA RegisterCases ==
    ASSUME TypeOK, NEW c \in Clients, NEW u \in Users, NEW p \in Passwords,
           register_user(c, u, p)
    PROVE  /\ \/ UNCHANGED <<db, users, guesses>>
              \/ Fresh(u, [hash |-> p], NewAccount(p)) /\ db[u] = NoRow
           /\ \E msg \in Messages : Answer("register", u, p, msg)
           /\ UNCHANGED <<policy, pending>>
BY DEF register_user, Fresh, SqlRegisterUser, Messages

LEMMA CommitCases ==
    ASSUME TypeOK, NEW c \in Clients, change_password_commit(c)
    PROVE  /\ \/ UNCHANGED <<db, users, guesses>>
              \/ Fresh(pending[c].user, [hash |-> pending[c].new],
                       NewAccount(pending[c].new))
           /\ \E msg \in Messages :
                Answer("change", pending[c].user, pending[c].current, msg)
           /\ pending' = [pending EXCEPT ![c] = NotInCall]
           /\ UNCHANGED policy
BY DEF change_password_commit, Fresh, SqlResetPassword, Messages

LEMMA ResetCases ==
    ASSUME TypeOK, NEW c \in Clients, NEW u \in Users, NEW p \in Passwords,
           reset_password(c, u, p)
    PROVE  /\ \/ UNCHANGED <<db, users, guesses>>
              \/ Fresh(u, [hash |-> p], NewAccount(p))
           /\ \E msg \in Messages : Answer("reset", u, p, msg)
           /\ UNCHANGED <<policy, pending>>
BY DEF reset_password, Fresh, SqlResetPassword, Messages

LEMMA DeleteCases ==
    ASSUME TypeOK, NEW c \in Clients, NEW u \in Users, delete_user(c, u)
    PROVE  /\ \/ UNCHANGED <<db, users, guesses>>
              \/ Fresh(u, NoRow, NoUser)
           /\ \E msg \in Messages : Answer("delete", u, Empty, msg)
           /\ UNCHANGED <<policy, pending>>
BY DEF delete_user, Fresh, SqlDeleteUser, Messages

LEMMA AuthenticateCases ==
    ASSUME TypeOK, NEW c \in Clients, NEW u \in Users, NEW p \in Passwords,
           authenticate(c, u, p)
    PROVE  /\ AuthEffect(u, users[u], AuthMessage(users[u], p))
           /\ Answer("authenticate", u, p, AuthMessage(users[u], p))
           /\ UNCHANGED <<db, policy, pending>>
BY LookupIsCache DEF authenticate

LEMMA VerifyCases ==
    ASSUME TypeOK, NEW c \in Clients, NEW u \in Users, NEW p \in Passwords,
           NEW new \in Passwords, change_password_verify(c, u, p, new)
    PROVE  /\ AuthEffect(u, users[u], AuthMessage(users[u], p))
           /\ \/ /\ pending' = [pending EXCEPT ![c] =
                        [step |-> "verified", user |-> u,
                         current |-> p, new |-> new]]
                 /\ UNCHANGED reply
              \/ /\ Answer("change", u, p, AuthMessage(users[u], p))
                 /\ UNCHANGED pending
           /\ UNCHANGED <<db, policy>>
BY LookupIsCache DEF change_password_verify

LEMMA AuthMessageType ==
    ASSUME NEW e, NEW p
    PROVE  AuthMessage(e, p) \in Messages
BY DEF AuthMessage, Messages, IsNoUser

(* The part of the invariant about calls and answers. *)
Calls ==
    /\ policy \in Policies
    /\ pending \in [Clients -> ChangeCall \cup {NotInCall}]
    /\ reply \in Replies

LEMMA SplitType == TypeOK /\ CacheCoherent /\ (\A u \in Users : GuessesCounted(u))
                   <=> Accounts /\ Calls
BY DEF TypeOK, Accounts, Calls

LEMMA AnswerType ==
    ASSUME NEW op \in {"none", "register", "authenticate", "change", "reset",
                       "exists", "delete"},
           NEW u \in Users, NEW p \in Passwords \cup {Empty},
           NEW msg \in Messages, Answer(op, u, p, msg)
    PROVE  /\ reply' \in Replies /\ reply'.op = op /\ reply'.user = u
           /\ reply'.password = p /\ reply'.msg = msg
BY DEF Answer, Replies

LEMMA InvInit == Init => IInv
<1> SUFFICES ASSUME Init PROVE IInv
  OBVIOUS
<1>1. NoReply \in Replies /\ NoReply.op = "none"
  BY NamesAssumption DEF NoReply, Replies, Messages
<1>2. TypeOK
  BY <1>1 DEF Init, TypeOK
<1>3. CacheCoherent /\ LoginMatchesDatabase
  BY <1>1 DEF Init, CacheCoherent, LoginMatchesDatabase
<1>4. \A u \in Users : GuessesCounted(u)
  BY DEF Init, GuessesCounted
<1> QED BY <1>2, <1>3, <1>4 DEF IInv

(* An answer of any other operation leaves LoginMatchesDatabase without a   *)
(* premise.                                                                 *)
LEMMA OtherAnswer ==
    ASSUME reply'.op # "authenticate"
    PROVE  LoginMatchesDatabase'
BY DEF LoginMatchesDatabase

LEMMA InvNext == IInv /\ [Next]_vars => IInv'
<1> SUFFICES ASSUME IInv, [Next]_vars PROVE IInv'
  OBVIOUS
<1> SUFFICES Accounts' /\ Calls' /\ LoginMatchesDatabase'
  BY SplitType DEF IInv, TypeOK, Accounts, Calls
<1>a. TypeOK /\ Accounts /\ Calls /\ LoginMatchesDatabase
  BY SplitType DEF IInv
<1>b. UNCHANGED <<db, users, guesses>> => Accounts'
  BY <1>a DEF Accounts, CacheCoherent, GuessesCounted
<1>1. ASSUME NEW c \in Clients, NEW u \in Users, NEW p \in Passwords,
             register_user(c, u, p)
      PROVE  Accounts' /\ Calls' /\ LoginMatchesDatabase'
  <2>1. Accounts'
    BY <1>1, <1>a, <1>b, RegisterCases, StoreKeepsAccounts
  <2>2. reply' \in Replies /\ reply'.op = "register"
    BY <1>1, <1>a, RegisterCases, AnswerType
  <2> QED BY <1>1, <1>a, <2>1, <2>2, RegisterCases, OtherAnswer DEF Calls
<1>2. ASSUME NEW c \in Clients, NEW u \in Users, NEW p \in Passwords,
             authenticate(c, u, p)
      PROVE  Accounts' /\ Calls' /\ LoginMatchesDatabase'
  <2> DEFINE msg == AuthMessage(users[u], p)
  <2>1. /\ AuthEffect(u, users[u], msg) /\ Answer("authenticate", u, p, msg)
        /\ UNCHANGED <<db, policy, pending>>
    BY <1>2, <1>a, AuthenticateCases
  <2>2. Accounts'
    BY <2>1, <1>a, AuthKeepsAccounts
  <2>3. msg \in Messages
    BY AuthMessageType
  <2>4. reply' \in Replies /\ reply'.user = u /\ reply'.password = p
        /\ reply'.msg = msg
    BY <2>1, <2>3, AnswerType
  <2>5. msg = "ok" => users[u] # NoUser /\ p = users[u].hash
    BY DEF AuthMessage, IsNoUser
  <2>6. LoginMatchesDatabase'
    BY <1>a, <2>1, <2>4, <2>5 DEF LoginMatchesDatabase, Accounts, CacheCoherent
  <2> QED BY <1>a, <2>1, <2>2, <2>4, <2>6 DEF Calls
<1>3. ASSUME NEW c \in Clients, NEW u \in Users, NEW p \in Passwords,
             reset_password(c, u, p)
      PROVE  Accounts' /\ Calls' /\ LoginMatchesDatabase'
  <2>1. Accounts'
    BY <1>3, <1>a, <1>b, ResetCases, StoreKeepsAccounts
  <2>2. reply' \in Replies /\ reply'.op = "reset"
    BY <1>3, <1>a, ResetCases, AnswerType
  <2> QED BY <1>3, <1>a, <2>1, <2>2, ResetCases, OtherAnswer DEF Calls
<1>4. ASSUME NEW c \in Clients, NEW u \in Users, NEW p \in Passwords,
             NEW new \in Passwords, change_password_verify(c, u, p, new)
      PROVE  Accounts' /\ Calls' /\ LoginMatchesDatabase'
  <2> DEFINE msg == AuthMessage(users[u], p)
  <2>1. AuthEffect(u, users[u], msg) /\ UNCHANGED <<db, policy>>
    BY <1>4, <1>a, VerifyCases
  <2>2. Accounts'
    BY <2>1, <1>a, AuthKeepsAccounts
  <2>3. CASE /\ pending' = [pending EXCEPT ![c] =
                    [step |-> "verified", user |-> u,
                     current |-> p, new |-> new]]
             /\ UNCHANGED reply
    <3>1. [step |-> "verified", user |-> u, current |-> p, new |-> new]
          \in ChangeCall
      BY DEF ChangeCall
    <3> QED BY <1>a, <2>1, <2>2, <2>3, <3>1 DEF Calls, LoginMatchesDatabase
  <2>4. CASE Answer("change", u, p, msg) /\ UNCHANGED pending
    <3>1. reply' \in Replies /\ reply'.op = "change"
      BY <2>4, AuthMessageType, AnswerType
    <3> QED BY <1>a, <2>1, <2>2, <2>4, <3>1, OtherAnswer DEF Calls
  <2> QED BY <1>4, <1>a, <2>3, <2>4, VerifyCases
<1>5. ASSUME NEW c \in Clients, NEW u \in Users, user_exists(c, u)
      PROVE  Accounts' /\ Calls' /\ LoginMatchesDatabase'
  <2>1. \E msg \in Messages : Answer("exists", u, Empty, msg)
    BY <1>5 DEF user_exists, Messages
  <2>2. reply' \in Replies /\ reply'.op = "exists"
    BY <2>1, AnswerType
  <2>3. UNCHANGED <<db, users, policy, pending, guesses>>
    BY <1>5 DEF user_exists
  <2> QED BY <1>a, <1>b, <2>2, <2>3, OtherAnswer DEF Calls
<1>6. ASSUME NEW c \in Clients, NEW u \in Users, delete_user(c, u)
      PROVE  Accounts' /\ Calls' /\ LoginMatchesDatabase'
  <2>1. Accounts'
    BY <1>6, <1>a, <1>b, DeleteCases, DeleteKeepsAccounts
  <2>2. reply' \in Replies /\ reply'.op = "delete"
    BY <1>6, <1>a, DeleteCases, AnswerType
  <2> QED BY <1>6, <1>a, <2>1, <2>2, DeleteCases, OtherAnswer DEF Calls
<1>7. ASSUME NEW c \in Clients, change_password_commit(c)
      PROVE  Accounts' /\ Calls' /\ LoginMatchesDatabase'
  <2>1. pending[c] \in ChangeCall
    BY <1>7, <1>a DEF change_password_commit, Calls, NotInCall
  <2>2. /\ pending[c].user \in Users /\ pending[c].new \in Passwords
        /\ pending[c].current \in Passwords
    BY <2>1 DEF ChangeCall
  <2>3. Accounts'
    BY <1>7, <1>a, <1>b, <2>2, CommitCases, StoreKeepsAccounts
  <2>4. reply' \in Replies /\ reply'.op = "change"
    BY <1>7, <1>a, <2>2, CommitCases, AnswerType
  <2> QED BY <1>7, <1>a, <2>3, <2>4, CommitCases, OtherAnswer DEF Calls
<1>8. ASSUME NEW p \in Policies, set_password_policy(p)
      PROVE  Accounts' /\ Calls' /\ LoginMatchesDatabase'
  BY <1>8, <1>a, <1>b DEF set_password_policy, Calls, LoginMatchesDatabase
<1>9. CASE Minute
  <2>1. Accounts'
    BY <1>9, <1>a, MinuteKeepsAccounts
  <2> QED BY <1>9, <1>a, <2>1 DEF Minute, Calls, LoginMatchesDatabase
<1>10. CASE Restart
  <2>1. Accounts'
    BY <1>10, <1>a DEF Restart, Accounts, CacheCoherent, GuessesCounted
  <2>2. NoReply \in Replies /\ NoReply.op = "none"
    BY NamesAssumption DEF NoReply, Replies, Messages
  <2> QED BY <1>10, <1>a, <2>1, <2>2, OtherAnswer DEF Restart, Calls
<1>11. CASE UNCHANGED vars
  BY <1>11, <1>a, <1>b DEF vars, Calls, LoginMatchesDatabase
<1> QED BY <1>1, <1>2, <1>3, <1>4, <1>5, <1>6, <1>7, <1>8, <1>9, <1>10, <1>11
        DEF Next

LEMMA SpecInv == Spec => []IInv
BY InvInit, InvNext, PTL DEF Spec

-----------------------------------------------------------------------------
(* UserAuthenticator keeps its variables well typed. *)
THEOREM TypeCorrect == Spec => []TypeOK
<1>1. IInv => TypeOK
  BY DEF IInv
<1> QED BY <1>1, SpecInv, PTL

(* Table and cache agree whatever statements fail and whenever the process  *)
(* is restarted, for any number of clients, users and passwords.            *)
THEOREM CacheIsCoherent == Spec => []CacheCoherent
<1>1. IInv => CacheCoherent
  BY DEF IInv
<1> QED BY <1>1, SpecInv, PTL

(* Every login is justified by the row the table holds at that moment. *)
THEOREM LoginsMatch == Spec => []LoginMatchesDatabase
<1>1. IInv => LoginMatchesDatabase
  BY DEF IInv
<1> QED BY <1>1, SpecInv, PTL

(* is_locked never relies on the overflowing difference. *)
THEOREM UnderflowIsHarmless == Spec => []UnderflowHarmless
<1>1. IInv => UnderflowHarmless
  BY LockoutAssumption DEF IInv, UnderflowHarmless, GuessesCounted, is_locked
<1> QED BY <1>1, SpecInv, PTL

(* The lockout bounds the wrong passwords compared per LockoutDuration, for *)
(* every limit and every duration.                                          *)
THEOREM GuessesAreBounded == Spec => []BruteForceBound
<1>1. IInv => BruteForceBound
  <2> SUFFICES ASSUME IInv, NEW u \in Users
               PROVE  Cardinality({g.n : g \in guesses[u]}) <= MaxAttempts
    BY DEF BruteForceBound
  <2> DEFINE S == {g.n : g \in guesses[u]}
  <2>1. CASE users[u] = NoUser
    <3>1. S = {}
      BY <2>1 DEF IInv, GuessesCounted
    <3>2. Cardinality(S) = 0
      BY <3>1, FS_EmptySet
    <3>3. MaxAttempts \in Nat
      BY LockoutAssumption
    <3> QED BY <3>2, <3>3
  <2>2. CASE users[u] # NoUser /\ users[u].failed <= MaxAttempts
    <3>1. users[u].failed \in Nat
      BY <2>2, LockoutAssumption DEF IInv, TypeOK, Account
    <3>2. S \subseteq 1 .. users[u].failed
      BY <2>2 DEF IInv, GuessesCounted
    <3>3. IsFiniteSet(1 .. users[u].failed)
          /\ Cardinality(1 .. users[u].failed) = users[u].failed
      <4>1. \A k \in Nat : IsFiniteSet(1 .. k) /\ Cardinality(1 .. k) = k
        <5> TAKE k \in Nat
        <5>1. IsFiniteSet(1 .. k)
              /\ Cardinality(1 .. k) = IF 1 > k THEN 0 ELSE k - 1 + 1
          BY FS_Interval
        <5> QED BY <5>1
      <4> QED BY <3>1, <4>1
    <3>4. IsFiniteSet(S) /\ Cardinality(S) <= users[u].failed
      BY <3>2, <3>3, FS_Subset
    <3>5. Cardinality(S) \in Nat
      BY <3>4, FS_CardinalityType
    <3> QED BY <2>2, <3>1, <3>4, <3>5, LockoutAssumption
  <2>3. CASE users[u] # NoUser /\ users[u].failed > MaxAttempts
    <3>1. S \subseteq {users[u].failed}
      BY <2>3 DEF IInv, GuessesCounted
    <3>2. IsFiniteSet({users[u].failed})
          /\ Cardinality({users[u].failed}) = 1
      BY FS_Singleton
    <3>3. Cardinality(S) <= 1 /\ IsFiniteSet(S)
      BY <3>1, <3>2, FS_Subset
    <3>4. Cardinality(S) \in Nat
      BY <3>3, FS_CardinalityType
    <3> QED BY <3>3, <3>4, LockoutAssumption
  <2>4. users[u] # NoUser => users[u].failed \in Nat
    BY LockoutAssumption DEF IInv, TypeOK, Account
  <2> QED BY <2>1, <2>2, <2>3, <2>4, LockoutAssumption
<1> QED BY <1>1, SpecInv, PTL

(* register_user never replaces an existing row. *)
THEOREM RegisterIsSafe == Spec => RegisterNeverOverwrites
<1>1. IInv /\ [Next]_vars =>
        [\A u \in Users : db[u] # NoRow /\ db'[u] # db[u]
            => reply'.op \in {"change", "reset", "delete"}]_vars
  <2> SUFFICES ASSUME IInv, Next, NEW v \in Users, db[v] # NoRow, db'[v] # db[v]
               PROVE  reply'.op \in {"change", "reset", "delete"}
    OBVIOUS
  <2>a. TypeOK
    BY DEF IInv
  <2>1. ASSUME NEW c \in Clients, NEW u \in Users, NEW p \in Passwords,
               register_user(c, u, p)
        PROVE  FALSE
    BY <2>1, <2>a, RegisterCases DEF Fresh, TypeOK
  <2>2. ASSUME NEW c \in Clients, NEW u \in Users, NEW p \in Passwords,
               reset_password(c, u, p)
        PROVE  reply'.op = "reset"
    BY <2>2, <2>a, ResetCases, AnswerType
  <2>3. ASSUME NEW c \in Clients, NEW u \in Users, delete_user(c, u)
        PROVE  reply'.op = "delete"
    BY <2>3, <2>a, DeleteCases, AnswerType
  <2>4. ASSUME NEW c \in Clients, change_password_commit(c)
        PROVE  reply'.op = "change"
    <3>1. \E msg \in Messages :
            Answer("change", pending[c].user, pending[c].current, msg)
      BY <2>4, <2>a, CommitCases
    <3> QED BY <3>1 DEF Answer
  <2> QED BY <2>1, <2>2, <2>3, <2>4
          DEF Next, authenticate, change_password_verify, user_exists,
              set_password_policy, Minute, Restart
<1> QED BY <1>1, SpecInv, PTL DEF Spec, RegisterNeverOverwrites
=============================================================================
