----------------------- MODULE GrpcConnectivityManager -----------------------
(***************************************************************************)
(* GrpcConnectivityManager: a thread polls the state of a channel and      *)
(* reports changes to a callback.  startMonitoring and stopMonitoring work *)
(* on an atomic flag and a std::thread without a mutex, so that each of    *)
(* their accesses to shared state is a step of its own.                    *)
(***************************************************************************)
EXTENDS Integers

CONSTANTS
    States,     \* the states of the channel
    Owners      \* the threads that call startMonitoring and stopMonitoring

VARIABLES
    channel,            \* what GetState answers
    is_monitoring,
    last_known_state,
    handle,             \* monitor_thread_.joinable()
    loop,               \* where the monitor thread is, or "none"
    owner,              \* where each owner is
    told,               \* history: the state that was last known or reported
    terminated,         \* std::terminate was called
    overlapped          \* history: two owners have been at work at the same time

vars == <<channel, is_monitoring, last_known_state, handle, loop, owner, told, terminated,
          overlapped>>

Init ==
    /\ channel \in States /\ last_known_state = "IDLE" /\ told = "IDLE"
    /\ is_monitoring = FALSE /\ handle = FALSE /\ loop = "none"
    /\ owner = [o \in Owners |-> "idle"]
    /\ terminated = FALSE /\ overlapped = FALSE

Goto(o, place) == owner' = [owner EXCEPT ![o] = place]

(* The exchange lets an owner in while another is still at work. *)
Enter(o, place) ==
    /\ Goto(o, place)
    /\ overlapped' = (overlapped \/ \E p \in Owners : owner[p] # "idle")

(* exchange(true): whoever finds FALSE starts the thread. *)
startMonitoring(o) ==
    /\ owner[o] = "idle"
    /\ ~is_monitoring
    /\ is_monitoring' = TRUE
    /\ Enter(o, "starting")
    /\ UNCHANGED <<channel, last_known_state, handle, loop, told, terminated>>

(* Assigning to a std::thread that is joinable calls std::terminate. *)
AssignThread(o) ==
    /\ owner[o] = "starting"
    /\ last_known_state' = channel /\ told' = channel
    /\ IF handle
       THEN terminated' = TRUE /\ UNCHANGED <<handle, loop>>
       ELSE handle' = TRUE /\ loop' = "test" /\ UNCHANGED terminated
    /\ Goto(o, "idle")
    /\ UNCHANGED <<channel, is_monitoring, overlapped>>

(* exchange(false), then join if there is a thread. *)
stopMonitoring(o) ==
    /\ owner[o] = "idle"
    /\ is_monitoring
    /\ is_monitoring' = FALSE
    /\ Enter(o, "stopping")
    /\ UNCHANGED <<channel, last_known_state, handle, loop, told, terminated>>

TestJoinable(o) ==
    /\ owner[o] = "stopping"
    /\ Goto(o, IF handle THEN "joining" ELSE "idle")
    /\ UNCHANGED <<channel, is_monitoring, last_known_state, handle, loop, told, terminated, overlapped>>

Join(o) ==
    /\ owner[o] = "joining" /\ loop = "ended"
    /\ handle' = FALSE /\ loop' = "none"
    /\ Goto(o, "idle")
    /\ UNCHANGED <<channel, is_monitoring, last_known_state, told, terminated, overlapped>>

LoopTest ==
    /\ loop = "test"
    /\ loop' = IF is_monitoring THEN "sleep" ELSE "ended"
    /\ UNCHANGED <<channel, is_monitoring, last_known_state, handle, owner, told, terminated, overlapped>>

(* After the sleep the flag is not looked at again. *)
Poll ==
    /\ loop = "sleep"
    /\ last_known_state' = channel
    /\ loop' = IF channel # last_known_state THEN "report" ELSE "test"
    /\ UNCHANGED <<channel, is_monitoring, handle, owner, told, terminated, overlapped>>

Callback ==
    /\ loop = "report"
    /\ told' = last_known_state
    /\ loop' = "test"
    /\ UNCHANGED <<channel, is_monitoring, last_known_state, handle, owner, terminated, overlapped>>

(* The channel is external. *)
ChannelChanges ==
    /\ channel' \in States \ {channel}
    /\ UNCHANGED <<is_monitoring, last_known_state, handle, loop, owner, told, terminated, overlapped>>

Monitor == LoopTest \/ Poll \/ Callback
OwnerGoesOn(o) == AssignThread(o) \/ TestJoinable(o) \/ Join(o)

Next ==
    /\ ~terminated
    /\ \/ Monitor \/ ChannelChanges
       \/ \E o \in Owners : startMonitoring(o) \/ stopMonitoring(o) \/ OwnerGoesOn(o)

(* Threads are scheduled and callbacks return. *)
Fairness == WF_vars(Monitor) /\ \A o \in Owners : WF_vars(OwnerGoesOn(o))

-----------------------------------------------------------------------------
(* A thread that runs is joined before its handle is used again, and no     *)
(* callback comes after stopMonitoring has returned.                        *)
ThreadIsJoined ==
    /\ ~terminated
    /\ loop # "none" => handle
    /\ loop = "report" /\ ~is_monitoring => \E o \in Owners : owner[o] # "idle"

(* So it is as long as no two owners are at work at the same time. *)
MonitorIsJoined == ~overlapped => ThreadIsJoined

(* The inductive invariant: until two owners have met there is a thread     *)
(* exactly while the flag is set, or the one owner at work sees to it.      *)
IInv ==
    /\ overlapped \in BOOLEAN
    /\ is_monitoring \in BOOLEAN /\ handle \in BOOLEAN
    /\ loop \in {"none", "test", "sleep", "report", "ended"}
    /\ owner \in [Owners -> {"idle", "starting", "stopping", "joining"}]
    /\ ~ overlapped =>
          /\ ~ terminated
          /\ handle <=> loop # "none"
          /\ \A o, p \in Owners : owner[o] # "idle" /\ owner[p] # "idle" => o = p
          /\ (\A o \in Owners : owner[o] = "idle") => (is_monitoring <=> handle)
          /\ \A o \in Owners :
                /\ owner[o] = "starting" => is_monitoring /\ ~ handle
                /\ owner[o] \in {"stopping", "joining"} => ~ is_monitoring /\ handle

(* What somebody waits for: stopMonitoring returns, and a state in which    *)
(* the channel stays is reported while the monitor runs, as long as no two  *)
(* owners have met.                                                         *)
Awaited ==
    IF overlapped THEN {}
    ELSE {"stop" : o \in {o \in Owners : owner[o] = "joining"}}
            \cup (IF is_monitoring /\ told # channel THEN {channel} ELSE {})
=============================================================================
