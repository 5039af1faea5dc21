----------------------------- MODULE AuthSession -----------------------------
(***************************************************************************)
(* Client and server of the authentication service put together: every     *)
(* client runs ClientTask::run, whose calls go through AuthRpcClient, the  *)
(* gRPC channel and AuthRpcServiceImpl to the UserAuthenticator.           *)
(*                                                                         *)
(* A client waits for its call: the server handles the request in a step,  *)
(* and the client hears the response in a later one, after which others    *)
(* may have changed the row.  The channel may lose the request or the      *)
(* response; both look alike to the client.  A request that the server     *)
(* handles when its client has given it up is what another client's would  *)
(* be, and has no action of its own.                                       *)
(***************************************************************************)
EXTENDS UserAuthenticator

VARIABLES
    session     \* per client: where run is, what was typed, the response on its way,
                \* what it was told

svars == <<vars, session>>

(* The codes of error_map_; a failure that is no exception leaves code 0. *)
HandleAuthException(msg) ==
    CASE msg = "exists" -> 409
      [] msg = "not_found" -> 404
      [] msg = "locked" -> 423
      [] msg = "invalid_password" -> 401
      [] OTHER -> 400

(* What the service writes into the response: authenticate and the calls    *)
(* that answer with a boolean end without an exception.                     *)
ResponseUnlessThrown(r) ==
    [success |-> r.msg = "ok" \/ r.op \in {"authenticate", "exists", "delete"},
     error_code |-> 0]
Response(r) ==
    [success |-> r.msg = "ok",
     error_code |-> IF r.msg = "ok" \/ r.op \in {"authenticate", "exists", "delete"}
                    THEN 0 ELSE HandleAuthException(r.msg)]

(* ExecuteRpcCall when the status is not OK: UNAVAILABLE. *)
Failed == [success |-> FALSE, error_code |-> 14]

(* Where run is, what the client was told last and whether logIn proved the *)
(* user, then what was typed.  No response is on its way.  row is a history: *)
(* the user's row when the server handled the request.                      *)
At(place, told, proved, u, p) ==
    [at |-> place, answer |-> Empty, row |-> NoRow,
     told |-> told, proved |-> proved, user |-> u, password |-> p]
Started == At("start", Failed, FALSE, Empty, Empty)
Moved(s, place) == At(place, Failed, s.proved, s.user, s.password)
Told(s, r, good, bad) ==
    At(IF r.success THEN good ELSE bad, r, s.proved, s.user, s.password)
Answered(s, r, row) ==
    [at |-> s.at, answer |-> r, row |-> row,
     told |-> Failed, proved |-> s.proved, user |-> s.user, password |-> s.password]

(* The server handles the request by Call, the authenticator's step. *)
Serve(c, Call) ==
    /\ session[c].answer = Empty
    /\ Call
    /\ session' = [session EXCEPT ![c] = Answered(@, Response(reply'), db'[session[c].user])]

(* A step of a client leaves the server alone; what a handler returned is   *)
(* forgotten when it has written its response.                              *)
ClientStep == reply' = NoReply /\ UNCHANGED <<db, users, policy, pending, guesses>>

(* The client goes on to good or to bad, as the answer r is. *)
Hear(c, r, good, bad) ==
    /\ session' = [session EXCEPT ![c] = Told(@, r, good, bad)]
    /\ ClientStep

(* The status is OK and the response arrives, or the request or the         *)
(* response is lost.                                                        *)
ExecuteRpcCall(c, Call, good, bad) ==
    \/ Serve(c, Call)
    \/ \E r \in {session[c].answer, Failed} \ {Empty} : Hear(c, r, good, bad)

SessionInit ==
    /\ Init
    /\ session = [c \in Clients |-> Started]

(* logIn: the name and the password are typed. *)
ReadCredentials(c) ==
    /\ session[c].at = "start"
    /\ \E u \in Users, p \in Passwords :
          session' = [session EXCEPT ![c] = At("authenticate", Failed, FALSE, u, p)]
    /\ ClientStep

AuthenticateUser(c) ==
    /\ session[c].at = "authenticate"
    /\ ExecuteRpcCall(c, authenticate(c, session[c].user, session[c].password),
                      "logged in", "exists")

(* A failed login goes on to ask for the user, and the answer decides only  *)
(* whether an account is offered: a user that exists is returned as well.   *)
UserExists(c) ==
    /\ session[c].at = "exists"
    /\ ExecuteRpcCall(c, user_exists(c, session[c].user), "not logged in", "offered")

shouldCreateNewAccount(c) ==
    /\ session[c].at = "offered"
    /\ \E yes \in BOOLEAN :
          session' = [session EXCEPT ![c] =
              Moved(@, IF yes THEN "register" ELSE "not logged in")]
    /\ ClientStep

(* registerNewUser throws when the answer is not a success. *)
RegisterUser(c) ==
    /\ session[c].at = "register"
    /\ ExecuteRpcCall(c, register_user(c, session[c].user, session[c].password),
                      "logged in", "thrown")

(* logIn returns the name that was typed, and run goes on to task. *)
LoginReturns(c) ==
    /\ session[c].at \in {"logged in", "not logged in"}
    /\ session' = [session EXCEPT ![c] =
           At("task", Failed, @.at = "logged in", @.user, @.password)]
    /\ ClientStep

(* logOut deletes the user. *)
DeleteUser(c) ==
    /\ session[c].at = "task"
    /\ ExecuteRpcCall(c, delete_user(c, session[c].user), "done", "done")

(* The program is started again. *)
RunAgain(c) ==
    /\ session[c].at \in {"done", "thrown"}
    /\ session' = [session EXCEPT ![c] = Started]
    /\ ClientStep

SessionNext ==
    \/ \E c \in Clients :
          \/ ReadCredentials(c) \/ AuthenticateUser(c) \/ UserExists(c)
          \/ shouldCreateNewAccount(c) \/ RegisterUser(c) \/ LoginReturns(c)
          \/ DeleteUser(c) \/ RunAgain(c)
    \/ (Minute \/ Restart) /\ UNCHANGED session

-----------------------------------------------------------------------------
(* An answer that is true of the row it is about: a success stands for a    *)
(* row with the password, for a row, or for none after a deletion, and code *)
(* 409 for a row that was there.                                            *)
Truthful(place, r, row, p) ==
    /\ r.success => CASE place = "exists" -> row # NoRow
                      [] place = "task" -> row = NoRow
                      [] OTHER -> row = [hash |-> p]
    /\ r.error_code = 409 => row # NoRow

(* What a client is told was true at a moment between its call and its      *)
(* return, the one in which the server handled it, whatever others did      *)
(* before and after and whatever statements and messages were lost.         *)
ClientIsToldTheTruth ==
    \A c \in Clients :
        session[c].at \in {"authenticate", "exists", "register", "task"}
                /\ session'[c].at # session[c].at =>
            Truthful(session[c].at, session'[c].told, session[c].row, session[c].password)

(* "@return Username of the authenticated user": whoever logIn let through  *)
(* has authenticated or registered that user, which logOut then deletes.    *)
LoginIsProved == \A c \in Clients : session[c].at = "task" => session[c].proved

(* What is true between the steps: the cache agrees with the table, run has *)
(* read a name and a password before it calls the server, and the response  *)
(* on its way is true of the row that the server found.                     *)
SessionIInv ==
    /\ db \in [Users -> Credential \cup {NoRow}]
    /\ DOMAIN users = Users
    /\ \A u \in Users : users[u] # NoUser =>
          users[u].hash \in Passwords /\ db[u] = [hash |-> users[u].hash]
    /\ DOMAIN session = Clients
    /\ \A c \in Clients :
          /\ session[c].at \notin {"start", "done", "thrown"} =>
                session[c].user \in Users /\ session[c].password \in Passwords
          /\ session[c].answer # Empty =>
                Truthful(session[c].at, session[c].answer, session[c].row, session[c].password)
=============================================================================
