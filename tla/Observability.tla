------------------------------- MODULE Observability ------------------------
(***************************************************************************)
(* observability::EventBus and observability::ConfigWatcher.               *)
(***************************************************************************)
EXTENDS Integers, Sequences, SequencesExt

CONSTANTS
    Threads,
    Events,
    MaxHandlers,  \* bound on the handlers of an event
    MaxDepth,     \* bound on publish inside a handler
    MaxMessages,  \* bound on the calls of publish
    Contents,     \* what may be in the file
    Missing,      \* the content of a file that cannot be opened: empty
    Callbacks,
    NoCallback

VARIABLES
    subscribers,  \* per event: the number of its handlers
    stack,        \* per thread: its calls of publish, innermost last
    published,    \* the number of calls of publish, which names a payload
    heard,        \* history: <<payload, event, handler>> in the order of the calls
    file,
    running,
    lastContent,
    callback,
    thread,       \* where watchLoop is, or "none"
    copy,         \* currentContent and callbackCopy of watchLoop
    owner,        \* what start and stop do with the thread: "idle", "starting",
                  \* "joining" or "overlap" of two of them
    told          \* history: what start read or a callback was given last

-----------------------------------------------------------------------------
(* EventBus: publish copies the handlers of an event under mutex_ and      *)
(* calls them without it, so that a handler may subscribe and publish      *)
(* itself.  An event's handlers are numbered in the order they came.       *)

EventBus_vars == <<subscribers, stack, published, heard>>

EventBus_Init ==
    /\ subscribers = [e \in Events |-> 0]
    /\ stack = [t \in Threads |-> <<>>]
    /\ published = 0 /\ heard = <<>>

(* By a thread of its own or by a handler. *)
subscribe(e) ==
    /\ subscribers[e] < MaxHandlers
    /\ subscribers' = [subscribers EXCEPT ![e] = @ + 1]
    /\ UNCHANGED <<stack, published, heard>>

(* The copy: how many handlers there were; next is the one to call. *)
publish(t, e) ==
    /\ published < MaxMessages /\ Len(stack[t]) < MaxDepth
    /\ published' = published + 1
    /\ stack' = [stack EXCEPT ![t] =
           Append(@, [event |-> e, payload |-> published', handlers |-> subscribers[e], next |-> 1])]
    /\ UNCHANGED <<subscribers, heard>>

Advanced(f) ==
    [event |-> f.event, payload |-> f.payload, handlers |-> f.handlers, next |-> f.next + 1]

CallHandlerOfTheMap(t) ==
    /\ stack[t] # <<>>
    /\ LET f == Last(stack[t]) IN
       /\ f.next <= subscribers[f.event]
       /\ heard' = Append(heard, <<f.payload, f.event, f.next>>)
       /\ stack' = [stack EXCEPT ![t] = Append(Front(@), Advanced(f))]
    /\ UNCHANGED <<subscribers, published>>
CallHandler(t) ==
    /\ stack[t] # <<>>
    /\ LET f == Last(stack[t]) IN
       /\ f.next <= f.handlers
       /\ heard' = Append(heard, <<f.payload, f.event, f.next>>)
       /\ stack' = [stack EXCEPT ![t] = Append(Front(@), Advanced(f))]
    /\ UNCHANGED <<subscribers, published>>

PublishReturns(t) ==
    /\ stack[t] # <<>> /\ Last(stack[t]).next > Last(stack[t]).handlers
    /\ stack' = [stack EXCEPT ![t] = Front(@)]
    /\ UNCHANGED <<subscribers, published, heard>>

(* A handler throws, perhaps what a publish of its own threw: its round     *)
(* ends, and the exception goes to the caller of publish.                   *)
HandlerThrows(t) ==
    /\ stack[t] # <<>> /\ Last(stack[t]).next > 1
    /\ stack' = [stack EXCEPT ![t] = Front(@)]
    /\ UNCHANGED <<subscribers, published, heard>>

EventBus_Next ==
    \/ \E e \in Events : subscribe(e)
    \/ \E t \in Threads :
          \/ \E e \in Events : publish(t, e)
          \/ CallHandler(t) \/ PublishReturns(t) \/ HandlerThrows(t)

-----------------------------------------------------------------------------
(* The handlers that heard a payload. *)
HeardBy(p) == {heard[i][3] : i \in {i \in DOMAIN heard : heard[i][1] = p}}

(* Each handler hears a payload at most once, after the handlers that       *)
(* subscribed before it; what was published before a handler came is not    *)
(* called for it, whatever subscribes while the handlers run; a publish has *)
(* called all its handlers up to the one that runs, so that it returns when *)
(* all of its copy have heard and misses only those after one that threw.   *)
DispatchIsComplete ==
    /\ \A i, j \in DOMAIN heard :
          heard[i][1] = heard[j][1] /\ i < j => heard[i][3] < heard[j][3]
    /\ \A t \in Threads : \A k \in DOMAIN stack[t] :
          LET f == stack[t][k] IN
          /\ f.next <= f.handlers + 1
          /\ HeardBy(f.payload) = 1 .. f.next - 1

(* The inductive invariant: every call of publish has a payload of its own. *)
Frames == [event : Events, payload : 1 .. published, handlers : Nat, next : Nat \ {0}]

EventBus_IInv ==
    /\ subscribers \in [Events -> Nat] /\ published \in Nat
    /\ stack \in [Threads -> Seq(Frames)]
    /\ heard \in Seq((1 .. published) \X Events \X Nat)
    /\ \A t, u \in Threads : \A k \in DOMAIN stack[t], l \in DOMAIN stack[u] :
          stack[t][k].payload = stack[u][l].payload => t = u /\ k = l
    /\ DispatchIsComplete

-----------------------------------------------------------------------------
(* ConfigWatcher: a thread reads a file again and again and calls the      *)
(* callback when its content differs from what was read last.              *)

ConfigWatcher_vars == <<file, running, lastContent, callback, thread, copy, owner, told>>

NoCopy == [content |-> Missing, callback |-> NoCallback]

ConfigWatcher_Init ==
    /\ file \in Contents \cup {Missing}
    /\ running = FALSE /\ lastContent = Missing /\ told = Missing
    /\ callback = NoCallback
    /\ thread = "none" /\ copy = NoCopy /\ owner = "idle"

(* exchange on running_: whoever changes it goes on with the thread, start  *)
(* to make it and stop to join it.  When one does while the other is not    *)
(* ready, they share watchThread_ in a data race and the model says no more. *)
Enter(place) == owner' = IF owner = "idle" THEN place ELSE "overlap"

start ==
    /\ ~running
    /\ running' = TRUE
    /\ Enter("starting")
    /\ UNCHANGED <<file, lastContent, callback, thread, copy, told>>

StartThread ==
    /\ owner = "starting"
    /\ lastContent' = file /\ told' = file
    /\ thread' = "test"
    /\ owner' = "idle"
    /\ UNCHANGED <<file, running, callback, copy>>

stop ==
    /\ running
    /\ running' = FALSE
    /\ Enter("joining")
    /\ UNCHANGED <<file, lastContent, callback, thread, copy, told>>

Joined ==
    /\ owner = "joining" /\ thread = "ended"
    /\ owner' = "idle" /\ thread' = "none"
    /\ UNCHANGED <<file, running, lastContent, callback, copy, told>>

onChange(c) ==
    /\ callback' = c
    /\ UNCHANGED <<file, running, lastContent, thread, copy, owner, told>>

Test ==
    /\ thread \in {"test", "slept"}
    /\ thread' = IF ~running THEN "ended" ELSE IF thread = "test" THEN "slept" ELSE "read"
    /\ UNCHANGED <<file, running, lastContent, callback, copy, owner, told>>

(* The callback is not looked at when the content is compared: a change     *)
(* that is found before onChange is not reported later.                     *)
Read ==
    /\ thread = "read"
    /\ lastContent' = file
    /\ copy' = [copy EXCEPT !.content = file]
    /\ thread' = IF file # lastContent THEN "copy" ELSE "test"
    /\ UNCHANGED <<file, running, callback, owner, told>>

CopyCallback ==
    /\ thread = "copy"
    /\ copy' = [copy EXCEPT !.callback = callback]
    /\ thread' = IF callback # NoCallback THEN "call" ELSE "test"
    /\ UNCHANGED <<file, running, lastContent, callback, owner, told>>

CallCallback ==
    /\ thread = "call"
    /\ told' = copy.content
    /\ copy' = NoCopy
    /\ thread' = "test"
    /\ UNCHANGED <<file, running, lastContent, callback, owner>>

FileChanges ==
    /\ file' \in (Contents \cup {Missing}) \ {file}
    /\ UNCHANGED <<running, lastContent, callback, thread, copy, owner, told>>

watchLoop == Test \/ Read \/ CopyCallback \/ CallCallback

ConfigWatcher_Next ==
    /\ owner # "overlap"
    /\ \/ start \/ stop \/ StartThread \/ Joined \/ watchLoop \/ FileChanges
       \/ \E c \in Callbacks : onChange(c)

(* Threads are scheduled and callbacks return. *)
Fairness ==
    /\ WF_ConfigWatcher_vars(owner # "overlap" /\ watchLoop)
    /\ WF_ConfigWatcher_vars(StartThread \/ Joined)

-----------------------------------------------------------------------------
(* The callback is called by the running thread only: none comes after stop *)
(* has returned, as long as start and stop do not overlap.  What it is      *)
(* given was in the file and is what a later reading is compared with.      *)
CallbacksAreCurrent ==
    /\ owner # "overlap" =>
          (thread = "none" <=> owner = "starting" \/ (owner = "idle" /\ ~running))
    /\ thread \in {"copy", "call"} => copy.content = lastContent
    /\ callback # NoCallback /\ thread = "call" => copy.callback # NoCallback

(* The inductive invariant: stop is the only one that clears running, and   *)
(* the copy is taken from what was just stored.                             *)
ConfigWatcher_IInv ==
    /\ file \in Contents \cup {Missing}
    /\ running \in BOOLEAN /\ owner \in {"idle", "starting", "joining", "overlap"}
    /\ callback \in Callbacks \cup {NoCallback}
    /\ thread \in {"none", "test", "slept", "read", "copy", "call", "ended"}
    /\ copy \in [content : Contents \cup {Missing}, callback : Callbacks \cup {NoCallback}]
    /\ owner = "joining" => ~ running
    /\ owner = "starting" => running
    /\ thread = "call" => copy.callback # NoCallback
    /\ CallbacksAreCurrent

(* What somebody waits for: stop returns; with a callback, a content that   *)
(* stays is reported while the watcher runs, unless the change was found    *)
(* when there was no callback.                                              *)
Awaited ==
    (IF owner = "joining" THEN {"stop"} ELSE {})
        \cup (IF running /\ owner = "idle" /\ callback # NoCallback /\ told # file
                   /\ (lastContent # file \/ thread = "call")
              THEN {file} ELSE {})
=============================================================================
