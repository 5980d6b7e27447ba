---------------------------- MODULE MockTransport ----------------------------
(***************************************************************************)
(* The in-process transport of the tests, crates/mocksbr/src/transport.rs: *)
(* tasks receive from one channel whose receiving end is behind a lock,    *)
(* while sends queue the replies of virtual devices, at once or from a     *)
(* task that sleeps for the device's delay.                                *)
(***************************************************************************)
EXTENDS Naturals, Sequences, SequencesExt

CONSTANTS
  Tasks,      \* tasks that may call recv
  Devices,    \* virtual devices of the Network
  Position,   \* Position[d]: the place of device d in Network.devices
  Slow,       \* the devices with a delay
  Answers,    \* what Network::receive may return: replies due now and later
  MaxSends,   \* bound on the calls of send
  MaxRecvs,   \* bound on the calls of recv
  MayClose,   \* whether close may be called
  MayDrop     \* whether a recv may be dropped before it returns

ASSUME MockAssumption ==
  /\ Position \in [Devices -> Nat] /\ Slow \subseteq Devices
  /\ Answers \subseteq [now : Seq(Devices \ Slow), later : SUBSET Slow]
  /\ \A a \in Answers : \A i, j \in DOMAIN a.now :
       i < j => Position[a.now[i]] < Position[a.now[j]]
  /\ MaxSends \in Nat /\ MaxRecvs \in Nat
  /\ {MayClose, MayDrop} \subseteq BOOLEAN

VARIABLES
  pc,         \* where each task is in recv
  result,     \* what its last recv returned
  cancelled,  \* the token it passed
  lock,       \* tasks that hold (the first) or wait for the receiver
  channel,    \* replies queued
  sleeping,   \* replies of slow devices, not queued yet
  closed,     \* MockTransport.closed
  answered,   \* history: the answer each send got from the Network, in order
  recvs,
  received    \* history: replies returned by recv, in order

taskVars == <<pc, result, cancelled, recvs>>
vars == <<taskVars, lock, channel, sleeping, closed, answered, received>>

\* The reply of a device to the n-th request.
Reply == [device : Devices, request : 1..MaxSends]

TypeOK ==
  /\ pc \in [Tasks -> {"idle", "recv"}]
  /\ result \in [Tasks -> {"none", "Ok", "Cancelled"}]
  /\ cancelled \in [Tasks -> BOOLEAN]
  /\ lock \in Seq(Tasks) /\ IsInjective(lock)
  /\ channel \in Seq(Reply) /\ received \in Seq(Reply)
  /\ sleeping \subseteq Reply
  /\ closed \in BOOLEAN
  /\ answered \in Seq(Answers) /\ Len(answered) <= MaxSends
  /\ recvs \in 0..MaxRecvs

Init ==
  /\ pc = [t \in Tasks |-> "idle"]
  /\ result = [t \in Tasks |-> "none"]
  /\ cancelled = [t \in Tasks |-> FALSE]
  /\ lock = <<>> /\ channel = <<>> /\ received = <<>>
  /\ sleeping = {} /\ closed = FALSE /\ answered = <<>> /\ recvs = 0

(***************************************************************************)
(* send.                                                                   *)
(***************************************************************************)
\* The replies of an answer to the n-th request.
Now(answer, n) == [i \in DOMAIN answer.now |-> [device |-> answer.now[i], request |-> n]]
Later(answer, n) == {[device |-> d, request |-> n] : d \in answer.later}

\* Mutant of Scheduled: every reply is queued from a task.
Scheduled_Spawned(answer, n) ==
  sleeping' = sleeping \cup Range(Now(answer, n)) \cup Later(answer, n) /\ UNCHANGED channel

\* schedule of each reply: queued before send returns unless it is delayed.
Scheduled(answer, n) ==
  /\ channel' = channel \o Now(answer, n)
  /\ sleeping' = sleeping \cup Later(answer, n)

\* send awaits nothing, so the one thread of the test runtime runs it whole.
Send(answer) ==
  /\ Len(answered) < MaxSends
  /\ answered' = Append(answered, answer)
  /\ Scheduled(answer, Len(answered) + 1)
  /\ UNCHANGED <<taskVars, lock, closed, received>>

\* The sleep of a spawned task is over.
Queue(r) ==
  /\ r \in sleeping
  /\ sleeping' = sleeping \ {r}
  /\ channel' = Append(channel, r)
  /\ UNCHANGED <<taskVars, lock, closed, answered, received>>

(***************************************************************************)
(* recv: the lock first, then whichever of the two tokens and the channel  *)
(* is ready.  tokio's lock is fair.                                        *)
(***************************************************************************)
Recv(t) ==
  /\ pc[t] = "idle" /\ recvs < MaxRecvs
  /\ pc' = [pc EXCEPT ![t] = "recv"]
  /\ cancelled' = [cancelled EXCEPT ![t] = FALSE]
  /\ lock' = Append(lock, t)
  /\ recvs' = recvs + 1
  /\ result' = [result EXCEPT ![t] = "none"]
  /\ UNCHANGED <<channel, sleeping, closed, answered, received>>

\* Where t stands among those that hold or wait for the receiver.
Place(t) == CHOOSE i \in DOMAIN lock : lock[i] = t

Holds(t) == lock # <<>> /\ Head(lock) = t

\* Mutant of Leave: the lock is not given back.
Leave_KeepsLock(t, r) ==
  /\ pc' = [pc EXCEPT ![t] = "idle"]
  /\ result' = [result EXCEPT ![t] = r]
  /\ UNCHANGED <<lock, cancelled, recvs, sleeping, closed, answered>>

\* Leaving recv drops the lock, or the place in its queue.
Leave(t, r) ==
  /\ pc' = [pc EXCEPT ![t] = "idle"]
  /\ lock' = RemoveAt(lock, Place(t))
  /\ result' = [result EXCEPT ![t] = r]
  /\ UNCHANGED <<cancelled, recvs, sleeping, closed, answered>>

\* Mutant of Cancelled: close only refuses the calls that follow it.
Cancelled_NotClosed(t) ==
  /\ Holds(t) /\ cancelled[t]
  /\ Leave(t, "Cancelled")
  /\ UNCHANGED <<channel, received>>

Cancelled(t) ==
  /\ Holds(t) /\ (cancelled[t] \/ closed)
  /\ Leave(t, "Cancelled")
  /\ UNCHANGED <<channel, received>>

\* Mutant of Received: the reply is looked at and left in the channel.
Received_Peeks(t) ==
  /\ Holds(t) /\ channel # <<>>
  /\ received' = Append(received, Head(channel))
  /\ Leave(t, "Ok")
  /\ UNCHANGED channel

Received(t) ==
  /\ Holds(t) /\ channel # <<>>
  /\ channel' = Tail(channel)
  /\ received' = Append(received, Head(channel))
  /\ Leave(t, "Ok")

\* Mutant of Dropped: the reply the receiver was about to return is gone.
Dropped_Consumes(t) ==
  /\ MayDrop /\ pc[t] = "recv"
  /\ channel' = IF Holds(t) /\ channel # <<>> THEN Tail(channel) ELSE channel
  /\ Leave(t, "none")
  /\ UNCHANGED received

\* The future is dropped, by a timeout around it or a select that another won.
Dropped(t) ==
  /\ MayDrop /\ pc[t] = "recv"
  /\ Leave(t, "none")
  /\ UNCHANGED <<channel, received>>

\* The caller's token fires, and the transport is closed.
Fire(t) ==
  /\ pc[t] = "recv" /\ ~cancelled[t]
  /\ cancelled' = [cancelled EXCEPT ![t] = TRUE]
  /\ UNCHANGED <<pc, result, recvs, lock, channel, sleeping, closed, answered, received>>

Close ==
  /\ MayClose /\ ~closed
  /\ closed' = TRUE
  /\ UNCHANGED <<taskVars, lock, channel, sleeping, answered, received>>

Poll(t) == Cancelled(t) \/ Received(t)

Next ==
  \/ Close \/ \E answer \in Answers : Send(answer)
  \/ \E r \in sleeping : Queue(r)
  \/ \E t \in Tasks : Recv(t) \/ Poll(t) \/ Dropped(t) \/ Fire(t)

Spec == Init /\ [][Next]_vars

(***************************************************************************)
(* Fairness: a task whose receive is ready is polled, and sleeps end.      *)
(***************************************************************************)
FairSpec ==
  /\ Spec
  /\ \A t \in Tasks : WF_vars(Poll(t))
  /\ WF_vars(\E r \in sleeping : Queue(r))

(***************************************************************************)
(* Properties.                                                             *)
(***************************************************************************)
\* The replies queued so far, received or not.
Queued == received \o channel

\* What the Network returned.
Owed ==
  {r \in Reply :
     /\ r.request \in DOMAIN answered
     /\ r.device \in Range(answered[r.request].now) \cup answered[r.request].later}

\* No reply is lost or comes twice, however receivers are cancelled, dropped
\* and woken and the transport is closed (transport.rs:12-18): it sleeps, or
\* it has been queued once, and a queued reply leaves only to be returned.
RepliesOnce ==
  /\ IsInjective(Queued)
  /\ sleeping \cap Range(Queued) = {}
  /\ sleeping \cup Range(Queued) = Owed

Before(r, q) ==
  \/ r.request < q.request
  \/ r.request = q.request /\ Position[r.device] < Position[q.device]

\* The replies of devices without a delay come in the order of the requests
\* they answer, and of the devices for one request, however slow the other
\* devices are (transport.rs:42-50); they are queued when send returns.
InstantRepliesInOrder ==
  /\ \A i, j \in DOMAIN Queued :
       i < j /\ {Queued[i].device, Queued[j].device} \cap Slow = {} =>
         Before(Queued[i], Queued[j])
  /\ \A r \in sleeping : r.device \in Slow

\* close wakes every pending and future receive, whoever called it
\* (transport.rs:26-31).
CloseWakesEveryone == \A t \in Tasks : closed /\ pc[t] = "recv" ~> pc[t] = "idle"

\* A reply that is queued wakes a task that waits (transport.rs:12-18), and one
\* from a slow device reaches it as well.
NoLostWakeup ==
  \A r \in Reply, t \in Tasks :
    r \in sleeping \cup Range(channel) /\ pc[t] = "recv" ~>
      r \in Range(received) \/ pc[t] = "idle"
=============================================================================
