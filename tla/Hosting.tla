---------------------------------- MODULE Hosting ---------------------------
(***************************************************************************)
(* di::ServiceProvider, and middleware::MiddlewareChain with http::Router. *)
(***************************************************************************)
EXTENDS Integers, Sequences, SequencesExt, FiniteSets

CONSTANTS
    Types,
    Callers,         \* the threads that call getService
    Descriptors,     \* what may be registered: records type, lifetime, needs
    MaxDescriptors,  \* bound on the registrations
    MaxInstances,    \* bound on the instances
    Null,
    Routes,          \* method and path of what may be registered and requested
    MaxRoutes,
    MaxMiddlewares,
    MaxCalls         \* bound: a middleware calls next at most so often

VARIABLES
    descriptors,  \* of the collection, or of the provider once it is built
    built,
    singletons,   \* singletons_: the instance of each type, or Null
    mutex,        \* the caller that holds mutex_, or Null
    stack,        \* per caller: the types being resolved, innermost last
    made,         \* the number of instances so far
    given,        \* history: type, lifetime and instance of each answer
    size,         \* middlewares_.size(); the last one calls the router
    routes,       \* routes_
    request,      \* method and path of the request under way, or "none"
    index,
    entered,      \* history: the middlewares in the order they were entered
    status        \* what the router answered, or 0: a route's number or 404

-----------------------------------------------------------------------------
(* The container of cppforge::di: ServiceCollection collects descriptors,  *)
(* buildServiceProvider moves them into a ServiceProvider, and resolve     *)
(* makes instances.  A factory may resolve the services it needs; that of  *)
(* a singleton runs while mutex_ is held.                                  *)

ServiceProvider_vars == <<descriptors, built, singletons, mutex, stack, made, given>>

ServiceProvider_Init ==
    /\ descriptors = <<>> /\ built = FALSE
    /\ singletons = [t \in Types |-> Null]
    /\ mutex = Null
    /\ stack = [c \in Callers |-> <<>>]
    /\ made = 0
    /\ given = {}

addDescriptor(d) ==
    /\ ~built /\ Len(descriptors) < MaxDescriptors
    /\ descriptors' = Append(descriptors, d)
    /\ UNCHANGED <<built, singletons, mutex, stack, made, given>>

buildServiceProvider ==
    /\ ~built /\ descriptors # <<>>
    /\ built' = TRUE
    /\ UNCHANGED <<descriptors, singletons, mutex, stack, made, given>>

(* The first descriptor of the type is used, whatever came later. *)
Places(t) == {i \in DOMAIN descriptors : descriptors[i].type = t}
Registered(t) == Places(t) # {}
Descriptor(t) == descriptors[Min(Places(t))]

(* An unregistered type and a scoped one end in an exception, which leaves  *)
(* every factory under way.                                                 *)
Throws(t) == IF Registered(t) THEN Descriptor(t).lifetime = "Scoped" ELSE TRUE

(* The lock_guard of mutex_, which the factory runs under. *)
NotLocked(c) == mutex = Null /\ UNCHANGED mutex
Locked(c) == mutex = Null /\ mutex' = c

(* resolve: a singleton that exists is answered, else its factory is called *)
(* under the lock; a transient's factory is called without it.              *)
resolve(c, t) ==
    \/ /\ Throws(t)
       /\ stack' = [stack EXCEPT ![c] = <<>>]
       /\ mutex' = (IF mutex = c THEN Null ELSE mutex)
       /\ UNCHANGED given
    \/ /\ ~Throws(t) /\ Descriptor(t).lifetime = "Singleton"
       /\ mutex = Null
       /\ IF singletons[t] # Null
          THEN /\ given' = given \cup {<<t, singletons[t]>>}
               /\ UNCHANGED <<mutex, stack>>
          ELSE /\ Locked(c)
               /\ stack' = [stack EXCEPT ![c] = Append(@, t)]
               /\ UNCHANGED given
    \/ /\ ~Throws(t) /\ Descriptor(t).lifetime = "Transient"
       /\ stack' = [stack EXCEPT ![c] = Append(@, t)]
       /\ UNCHANGED <<mutex, given>>

getService(c, t) ==
    /\ built /\ stack[c] = <<>>
    /\ resolve(c, t)
    /\ UNCHANGED <<descriptors, built, singletons, made>>

(* The factory of the innermost type resolves one of the services it needs. *)
FactoryResolves(c) ==
    /\ stack[c] # <<>> /\ Len(stack[c]) < 3
    /\ \E t \in Descriptor(Last(stack[c])).needs : resolve(c, t)
    /\ UNCHANGED <<descriptors, built, singletons, made>>

FactoryReturns(c) ==
    /\ stack[c] # <<>> /\ made < MaxInstances
    /\ LET t == Last(stack[c]) IN
       /\ made' = made + 1
       /\ given' = given \cup {<<t, made'>>}
       /\ stack' = [stack EXCEPT ![c] = Front(@)]
       /\ IF Descriptor(t).lifetime = "Singleton"
          THEN singletons' = [singletons EXCEPT ![t] = made'] /\ mutex' = Null
          ELSE UNCHANGED <<singletons, mutex>>
    /\ UNCHANGED <<descriptors, built>>

ServiceProvider_Next ==
    \/ \E d \in Descriptors : addDescriptor(d)
    \/ buildServiceProvider
    \/ \E c \in Callers :
          (\E t \in Types : getService(c, t)) \/ FactoryResolves(c) \/ FactoryReturns(c)

-----------------------------------------------------------------------------
(* A singleton has one instance, whichever threads ask for it first at the  *)
(* same time, and transient services are never shared.                      *)
OneInstancePerSingleton ==
    /\ \A x, y \in given :
          /\ x[1] = y[1] /\ Descriptor(x[1]).lifetime = "Singleton" => x[2] = y[2]
          /\ x[2] = y[2] => x[1] = y[1]
    /\ mutex # Null =>
          \E i \in DOMAIN stack[mutex] : Descriptor(stack[mutex][i]).lifetime = "Singleton"

(* What is true between the steps: whoever resolves a singleton for the     *)
(* first time holds the mutex, and an answer for it is the instance kept.   *)
Single(t) == Descriptor(t).lifetime = "Singleton"

ServiceProvider_IInv ==
    /\ descriptors \in Seq(Descriptors)
    /\ ~built => given = {} /\ \A c \in Callers : stack[c] = <<>>
    /\ made \in Nat
    /\ stack \in [Callers -> Seq(Types)] /\ DOMAIN singletons = Types
    /\ \A c \in Callers : \A i \in DOMAIN stack[c] : Registered(stack[c][i])
    /\ \A x \in given :
          /\ \E t \in Types, n \in 1 .. made : x = <<t, n>>
          /\ Single(x[1]) => singletons[x[1]] = x[2]
    /\ \A x, y \in given : x[2] = y[2] => x[1] = y[1]
    /\ \A t \in Types : singletons[t] # Null => <<t, singletons[t]>> \in given
    /\ \A c \in Callers : \A i, j \in DOMAIN stack[c] :
          Single(stack[c][i]) =>
              /\ mutex = c /\ singletons[stack[c][i]] = Null
              /\ Single(stack[c][j]) => i = j
    /\ mutex # Null =>
          mutex \in Callers /\ \E i \in DOMAIN stack[mutex] : Single(stack[mutex][i])

-----------------------------------------------------------------------------
(* MiddlewareChain::execute, Router::handle behind it: each middleware is  *)
(* given the same function next, which calls the one at index and counts   *)
(* index up.  A middleware may leave next out, call it, or call it again   *)
(* after it returned.                                                      *)

MiddlewareChain_vars == <<size, routes, request, index, stack, entered, status>>

MiddlewareChain_Init ==
    /\ size = 0 /\ routes = <<>>
    /\ request = "none" /\ index = 0 /\ stack = <<>> /\ entered = <<>> /\ status = 0

Unused == request = "none"

add ==
    /\ Unused /\ size < MaxMiddlewares
    /\ size' = size + 1
    /\ UNCHANGED <<routes, request, index, stack, entered, status>>

(* get, post, put and del of Router. *)
AddRoute(r) ==
    /\ Unused /\ Len(routes) < MaxRoutes
    /\ routes' = Append(routes, r)
    /\ UNCHANGED <<size, request, index, stack, entered, status>>

(* handle of Router: the first route that fits, else 404. *)
RouterHandle(r) ==
    LET fits == {i \in DOMAIN routes : routes[i] = r}
    IN  IF fits = {} THEN 404 ELSE Min(fits)

(* The lambda next; the caller has counted its call. *)
next(s) ==
    IF index < size
    THEN /\ index' = index + 1
         /\ stack' = Append(s, [at |-> index', calls |-> 0])
         /\ entered' = Append(entered, index')
         /\ status' = IF index' = size THEN RouterHandle(request') ELSE status
    ELSE stack' = s /\ UNCHANGED <<index, entered, status>>

execute(r) ==
    /\ Unused
    /\ request' = r
    /\ next(<<>>)
    /\ UNCHANGED <<size, routes>>

Counted(call) == [at |-> call.at, calls |-> call.calls + 1]

CallNext ==
    /\ stack # <<>> /\ Last(stack).calls < MaxCalls
    /\ request' = request
    /\ next([stack EXCEPT ![Len(stack)] = Counted(@)])
    /\ UNCHANGED <<size, routes>>

HandleReturns ==
    /\ stack # <<>>
    /\ stack' = Front(stack)
    /\ UNCHANGED <<size, routes, request, index, entered, status>>

ExecuteReturns ==
    /\ ~Unused /\ stack = <<>>
    /\ request' = "none" /\ index' = 0 /\ entered' = <<>> /\ status' = 0
    /\ UNCHANGED <<size, routes, stack>>

MiddlewareChain_Next ==
    \/ add \/ CallNext \/ HandleReturns \/ ExecuteReturns
    \/ \E r \in Routes : AddRoute(r) \/ execute(r)

-----------------------------------------------------------------------------
(* A request passes each middleware at most once and in the order they were *)
(* added, however often next is called; a middleware is entered only while  *)
(* the ones before it that called it are being handled; the router answers  *)
(* with the first route of the request, once.                               *)
PassesInOrder ==
    /\ entered = [i \in 1 .. Len(entered) |-> i]
    /\ \A i \in 1 .. Len(stack) - 1 : stack[i].at < stack[i + 1].at
    /\ status # 0 => /\ Len(entered) = size
                     /\ status # 404 => /\ routes[status] = request
                                        /\ \A i \in 1 .. status - 1 : routes[i] # request
                     /\ status = 404 => \A i \in DOMAIN routes : routes[i] # request

(* The inductive invariant: index counts the middlewares entered, and       *)
(* nothing is left of one request when the next begins.                     *)
MiddlewareChain_IInv ==
    /\ size \in Nat /\ index \in 0 .. size
    /\ routes \in Seq(Routes) /\ Len(routes) <= MaxRoutes
    /\ request \in Routes \cup {"none"}
    /\ stack \in Seq([at : Nat, calls : Nat])
    /\ entered \in Seq(Nat) /\ Len(entered) = index
    /\ status \in Nat
    /\ Unused => index = 0 /\ stack = <<>> /\ status = 0
    /\ \A i \in 1 .. Len(stack) : stack[i].at <= index
    /\ PassesInOrder
=============================================================================
