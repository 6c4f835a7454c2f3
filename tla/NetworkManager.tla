--------------------------- MODULE NetworkManager ---------------------------
(***************************************************************************)
(* SvcKit/subsystems/network: LinuxNetworkManager (network_manager.cpp),   *)
(* which reports the changes of network interfaces that the kernel writes  *)
(* to a netlink socket.  It lives in the event loop's thread, which owns   *)
(* one-shot watches and calls the handler; the listener may call stop()    *)
(* from a report.  A link's state stands for its name and flags; addresses *)
(* are reported as they come and leave no state.                           *)
(***************************************************************************)
EXTENDS Integers, Sequences

CONSTANTS
  Links,       \* network interfaces
  Room,        \* messages the socket's buffer has room for
  MaxChanges   \* bound on the messages of the kernel

States == {"gone", "down", "up"}
Unknown == "unknown"

VARIABLES
  link,       \* the state of each interface
  messages,   \* in the socket: <<link, state>>
  overrun,    \* messages were dropped: the next recv() fails, once
  changes,    \* messages sent so far
  running, watched,   \* running_; the fd is armed in the loop
  handling,   \* onReady() is in its loop
  linkStates,   \* linkStates_, "gone" without an entry
  told,       \* what the listener was told in this run, Unknown if nothing
  warned,     \* it was told of an error
  mentioned,  \* links with a message since the start
  dropped, missed   \* messages were dropped at all; before this run
kernelVars == <<link, messages, overrun, changes, dropped>>
vars == <<link, messages, overrun, changes, running, watched, handling, linkStates, told,
          warned, mentioned, dropped, missed>>

Init ==
  /\ link \in [Links -> States] /\ messages = <<>> /\ overrun = FALSE /\ changes = 0
  /\ running = FALSE /\ watched = FALSE /\ handling = FALSE
  /\ linkStates = [l \in Links |-> "gone"] /\ told = [l \in Links |-> Unknown]
  /\ warned = FALSE /\ mentioned = {} /\ dropped = FALSE /\ missed = FALSE

\* The kernel tells of a change, or again of what has not changed; what finds no
\* room is dropped.
Change(l, state) ==
  /\ changes < MaxChanges /\ changes' = changes + 1 /\ (state = "gone" => link[l] # "gone")
  /\ link' = [link EXCEPT ![l] = state] /\ mentioned' = mentioned \cup {l}
  /\ IF Len(messages) < Room
     THEN messages' = Append(messages, <<l, state>>) /\ UNCHANGED <<overrun, dropped>>
     ELSE overrun' = TRUE /\ dropped' = TRUE /\ UNCHANGED messages
  /\ UNCHANGED <<running, watched, handling, linkStates, told, warned, missed>>

-----------------------------------------------------------------------------
\* Mutant of Start: the states of an earlier run are kept.
StartKeeps ==
  /\ ~running /\ ~handling /\ running' = TRUE /\ watched' = TRUE
  /\ told' = [l \in Links |-> Unknown] /\ warned' = FALSE /\ missed' = dropped
  /\ mentioned' = {messages[i][1] : i \in DOMAIN messages}
  /\ UNCHANGED <<kernelVars, handling, linkStates>>

\* start(); it changes nothing when the fd cannot be watched.
Start ==
  /\ ~running /\ ~handling /\ running' = TRUE /\ watched' = TRUE
  /\ linkStates' = [l \in Links |-> "gone"]
  /\ told' = [l \in Links |-> Unknown] /\ warned' = FALSE /\ missed' = dropped
  /\ mentioned' = {messages[i][1] : i \in DOMAIN messages}
  /\ UNCHANGED <<kernelVars, handling>>

Stop ==
  /\ running /\ ~handling /\ running' = FALSE /\ watched' = FALSE
  /\ UNCHANGED <<kernelVars, handling, linkStates, told, warned, mentioned, missed>>

\* The loop calls onReady(): the watch was for one event.
Ready ==
  /\ running /\ watched /\ (messages # <<>> \/ overrun)
  /\ watched' = FALSE /\ handling' = TRUE
  /\ UNCHANGED <<kernelVars, running, linkStates, told, warned, mentioned, missed>>

\* publish(): the listener is told, and may stop the manager; a report after
\* that finds no callback.
Publish(l, state) ==
  IF running THEN told' = [told EXCEPT ![l] = state] /\ running' \in BOOLEAN
  ELSE UNCHANGED <<told, running>>

\* Mutant of ParseLink: an interface that is removed is remembered.
ParseLinkForgets(l, state) ==
  IF state # "gone" /\ linkStates[l] = state THEN UNCHANGED <<linkStates, told, running>>
  ELSE /\ linkStates' = IF state = "gone" THEN linkStates ELSE [linkStates EXCEPT ![l] = state]
       /\ Publish(l, state)

\* parseLink(): a state that is known is not reported again.
ParseLink(l, state) ==
  IF state # "gone" /\ linkStates[l] = state THEN UNCHANGED <<linkStates, told, running>>
  ELSE linkStates' = [linkStates EXCEPT ![l] = state] /\ Publish(l, state)

\* One turn of the loop of onReady(); the rest of the messages is read also after
\* the listener has stopped the manager.
Receive ==
  /\ handling /\ ~overrun /\ messages # <<>>
  /\ ParseLink(messages[1][1], messages[1][2]) /\ messages' = Tail(messages)
  /\ UNCHANGED <<link, overrun, changes, dropped, watched, handling, warned, mentioned, missed>>

\* Mutant of Rearm: an error of recv() ends the watch.
RearmNot ==
  /\ handling /\ (overrun \/ messages = <<>>) /\ handling' = FALSE /\ overrun' = FALSE
  /\ warned' = (warned \/ (overrun /\ running)) /\ watched' = (running /\ ~overrun)
  /\ UNCHANGED <<link, messages, changes, dropped, running, linkStates, told, mentioned, missed>>

\* recv() has no more, or fails and that is reported: the fd is watched again.
Rearm ==
  /\ handling /\ (overrun \/ messages = <<>>) /\ handling' = FALSE /\ overrun' = FALSE
  /\ \/ /\ warned' = (warned \/ (overrun /\ running)) /\ watched' = running /\ UNCHANGED running
     \/ warned' = running /\ watched' = FALSE /\ running' = FALSE
  /\ UNCHANGED <<link, messages, changes, dropped, linkStates, told, mentioned, missed>>

Next ==
  \/ \E l \in Links, state \in States : Change(l, state)
  \/ Start \/ Stop \/ Ready \/ Receive \/ Rearm

\* The loop goes on while its fds are ready.
Fairness == WF_vars(Ready) /\ WF_vars(Receive) /\ WF_vars(Rearm)

Spec == Init /\ [][Next]_vars /\ Fairness

-----------------------------------------------------------------------------
(* Correctness. *)

Unread == messages # <<>> \/ overrun

(* The listener knows the state of every interface that has changed since  *)
(* the start, once the messages are read, or was told of an error: though  *)
(* states are reported only when they change, and the socket may overflow.  *)
(* A run that begins after messages were dropped is not told of them.       *)
KnowsOrIsWarned ==
  running /\ ~handling /\ ~Unread /\ ~warned /\ ~missed =>
    \A l \in mentioned : told[l] = link[l]

(* Every message is read while the manager runs. *)
MessagesAreRead == running /\ Unread ~> ~running \/ ~Unread
===============================================================================
