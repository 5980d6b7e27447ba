-------------------------- MODULE MockTransport_proofs --------------------------
(***************************************************************************)
(* What the transport of the tests delivers, for any tasks, devices and    *)
(* answers and any number of calls: every reply once, those of devices     *)
(* without a delay in order, whoever receives, gives up or closes it.      *)
(***************************************************************************)
EXTENDS MockTransport, TLAPS

\* The queue of the lock is made of the tasks inside recv.
LockIsQueue == \A t \in Tasks : pc[t] = "recv" <=> t \in Range(lock)

-----------------------------------------------------------------------------
(* Sequences.                                                              *)

\* Appending and concatenating, element by element.
LEMMA ConcatIs ==
  ASSUME NEW S, NEW s \in Seq(S), NEW w \in Seq(S)
  PROVE  /\ s \o w \in Seq(S) /\ Len(s \o w) = Len(s) + Len(w)
         /\ DOMAIN (s \o w) = 1..Len(s) + Len(w)
         /\ \A i \in DOMAIN s : i \in DOMAIN (s \o w) /\ (s \o w)[i] = s[i]
         /\ \A i \in DOMAIN w : Len(s) + i \in DOMAIN (s \o w) /\ (s \o w)[Len(s) + i] = w[i]
         /\ \A i \in DOMAIN (s \o w) : i \in DOMAIN s \/ i - Len(s) \in DOMAIN w
         /\ Range(s \o w) = Range(s) \cup Range(w)
<1>1. /\ s \o w \in Seq(S) /\ Len(s \o w) = Len(s) + Len(w)
      /\ DOMAIN (s \o w) = 1..Len(s) + Len(w)
      /\ \A i \in DOMAIN s : i \in DOMAIN (s \o w) /\ (s \o w)[i] = s[i]
      /\ \A i \in DOMAIN w : Len(s) + i \in DOMAIN (s \o w) /\ (s \o w)[Len(s) + i] = w[i]
      /\ \A i \in DOMAIN (s \o w) : i \in DOMAIN s \/ i - Len(s) \in DOMAIN w
  OBVIOUS
<1>2. Range(s \o w) \subseteq Range(s) \cup Range(w)
  <2>1. ASSUME NEW i \in DOMAIN (s \o w) PROVE (s \o w)[i] \in Range(s) \cup Range(w)
    <3>1. CASE i \in DOMAIN s
      BY <1>1, <3>1 DEF Range
    <3>2. CASE i - Len(s) \in DOMAIN w
      <4>1. Len(s) + (i - Len(s)) = i
        BY <1>1
      <4>2. (s \o w)[i] = w[i - Len(s)]
        BY <1>1, <3>2, <4>1
      <4>3. QED
        BY <3>2, <4>2 DEF Range
    <3>3. QED
      BY <1>1, <3>1, <3>2
  <2>2. QED
    BY <2>1 DEF Range
<1>3. Range(s) \cup Range(w) \subseteq Range(s \o w)
  BY <1>1 DEF Range
<1>4. QED
  BY <1>1, <1>2, <1>3

\* Sequences without repetition that have no element in common.
LEMMA ConcatInjective ==
  ASSUME NEW S, NEW s \in Seq(S), NEW w \in Seq(S), IsInjective(s), IsInjective(w),
         Range(s) \cap Range(w) = {}
  PROVE  IsInjective(s \o w)
<1>1. SUFFICES ASSUME NEW i \in DOMAIN (s \o w), NEW j \in DOMAIN (s \o w),
                      (s \o w)[i] = (s \o w)[j]
               PROVE  i = j
  BY DEF IsInjective
<1>2. ASSUME NEW k \in DOMAIN (s \o w), k \notin DOMAIN s
      PROVE  k - Len(s) \in DOMAIN w /\ (s \o w)[k] = w[k - Len(s)]
  BY <1>2
<1>3. CASE i \in DOMAIN s /\ j \in DOMAIN s
  BY <1>1, <1>3 DEF IsInjective
<1>4. CASE i \in DOMAIN s /\ j \notin DOMAIN s
  <2>1. s[i] = w[j - Len(s)] /\ j - Len(s) \in DOMAIN w
    BY <1>1, <1>2, <1>4
  <2>2. QED
    BY <1>4, <2>1 DEF Range
<1>5. CASE i \notin DOMAIN s /\ j \in DOMAIN s
  <2>1. s[j] = w[i - Len(s)] /\ i - Len(s) \in DOMAIN w
    BY <1>1, <1>2, <1>5
  <2>2. QED
    BY <1>5, <2>1 DEF Range
<1>6. CASE i \notin DOMAIN s /\ j \notin DOMAIN s
  <2>1. i - Len(s) = j - Len(s)
    BY <1>1, <1>2, <1>6 DEF IsInjective
  <2>2. QED
    BY <2>1
<1>7. QED
  BY <1>3, <1>4, <1>5, <1>6

\* Appending one element, new if the sequence is to stay without repetition.
LEMMA AppendIs ==
  ASSUME NEW S, NEW s \in Seq(S), NEW e \in S
  PROVE  /\ Append(s, e) \in Seq(S) /\ DOMAIN Append(s, e) = 1..Len(s) + 1
         /\ \A i \in DOMAIN s : i \in DOMAIN Append(s, e) /\ Append(s, e)[i] = s[i]
         /\ Append(s, e)[Len(s) + 1] = e
         /\ Range(Append(s, e)) = Range(s) \cup {e}
         /\ IsInjective(s) /\ e \notin Range(s) => IsInjective(Append(s, e))
<1> DEFINE a == Append(s, e)
<1>1. /\ a \in Seq(S) /\ DOMAIN a = 1..Len(s) + 1
      /\ \A i \in DOMAIN s : i \in DOMAIN a /\ a[i] = s[i]
      /\ a[Len(s) + 1] = e
      /\ DOMAIN s = 1..Len(s) /\ Len(s) \in Nat
  OBVIOUS
<1> HIDE DEF a
<1>2. \A i \in DOMAIN a : i \in DOMAIN s \/ i = Len(s) + 1
  BY <1>1
<1>3. Len(s) + 1 \in DOMAIN a
  BY <1>1
<1>4. Range(a) = Range(s) \cup {e}
  BY <1>1, <1>2, <1>3 DEF Range
<1>5. ASSUME IsInjective(s), e \notin Range(s) PROVE IsInjective(a)
  BY <1>1, <1>2, <1>5 DEF IsInjective, Range
<1>6. QED
  BY <1>1, <1>4, <1>5 DEF a

\* Removing one place of a sequence without repetition removes its element.
LEMMA RemoveIs ==
  ASSUME NEW S, NEW s \in Seq(S), IsInjective(s), NEW i \in DOMAIN s
  PROVE  /\ RemoveAt(s, i) \in Seq(S) /\ IsInjective(RemoveAt(s, i))
         /\ Range(RemoveAt(s, i)) = Range(s) \ {s[i]}
<1> DEFINE r == RemoveAt(s, i)
<1>1. /\ r \in Seq(S) /\ DOMAIN r = 1..Len(s) - 1
      /\ \A k \in DOMAIN r : r[k] = IF k < i THEN s[k] ELSE s[k + 1]
  <2> DEFINE u == SubSeq(s, 1, i - 1)
             v == SubSeq(s, i + 1, Len(s))
  <2>1. /\ u \in Seq(S) /\ Len(u) = i - 1
        /\ v \in Seq(S) /\ Len(v) = Len(s) - i
        /\ \A k \in 1..i - 1 : u[k] = s[k]
        /\ \A k \in 1..Len(s) - i : v[k] = s[k + i]
    OBVIOUS
  <2>2. r = u \o v
    BY DEF RemoveAt
  <2>3. i \in Nat \ {0} /\ Len(s) \in Nat
    OBVIOUS
  <2> HIDE DEF u, v, r
  <2>4. /\ r \in Seq(S) /\ DOMAIN r = 1..Len(u) + Len(v)
        /\ \A k \in DOMAIN u : r[k] = u[k]
        /\ \A k \in DOMAIN v : r[Len(u) + k] = v[k]
    <3>1. u \in Seq(S) /\ v \in Seq(S)
      BY <2>1
    <3>2. QED
      BY <2>2, <3>1, ConcatIs
  <2>5. DOMAIN u = 1..i - 1 /\ DOMAIN v = 1..Len(s) - i
    BY <2>1
  <2>6. ASSUME NEW k \in 1..Len(s) - 1 PROVE r[k] = IF k < i THEN s[k] ELSE s[k + 1]
    <3>1. CASE k < i
      <4>1. k \in 1..i - 1
        BY <2>3, <3>1
      <4>2. QED
        BY <2>1, <2>4, <2>5, <3>1, <4>1
    <3>2. CASE ~(k < i)
      <4> DEFINE q == k - (i - 1)
      <4>1. q \in 1..Len(s) - i /\ q + i = k + 1 /\ (i - 1) + q = k
        BY <2>3, <3>2
      <4> HIDE DEF q
      <4>2. v[q] = s[q + i] /\ r[Len(u) + q] = v[q]
        BY <2>1, <2>4, <2>5, <4>1
      <4>3. QED
        BY <2>1, <3>2, <4>1, <4>2
    <3>3. QED
      BY <3>1, <3>2
  <2>7. DOMAIN r = 1..Len(s) - 1
    BY <2>1, <2>3, <2>4
  <2>8. QED
    BY <2>4, <2>6, <2>7
<1> HIDE DEF r
<1>2. IsInjective(r)
  <2>1. ASSUME NEW j \in DOMAIN r, NEW k \in DOMAIN r, r[j] = r[k] PROVE j = k
    <3>1. /\ j \in Nat /\ k \in Nat /\ i \in Nat
          /\ j \in DOMAIN s /\ k \in DOMAIN s /\ j + 1 \in DOMAIN s /\ k + 1 \in DOMAIN s
      BY <1>1
    <3>2. (IF j < i THEN j ELSE j + 1) = (IF k < i THEN k ELSE k + 1)
      BY <1>1, <2>1, <3>1 DEF IsInjective
    <3>3. QED
      BY <3>1, <3>2
  <2>2. QED
    BY <2>1 DEF IsInjective
<1>3. ASSUME NEW k \in DOMAIN s, k # i PROVE s[k] \in Range(r)
  <2>1. CASE k < i
    <3>1. k \in DOMAIN r /\ r[k] = s[k]
      BY <1>1, <2>1
    <3>2. QED
      BY <3>1 DEF Range
  <2>2. CASE k > i
    <3>1. k - 1 \in DOMAIN r /\ r[k - 1] = s[k]
      BY <1>1, <2>2
    <3>2. QED
      BY <3>1 DEF Range
  <2>3. QED
    BY <1>3, <2>1, <2>2
<1>4. ASSUME NEW k \in DOMAIN r PROVE r[k] \in Range(s) \ {s[i]}
  <2>1. /\ k \in DOMAIN s /\ k + 1 \in DOMAIN s
        /\ r[k] = s[IF k < i THEN k ELSE k + 1] /\ (IF k < i THEN k ELSE k + 1) # i
    BY <1>1
  <2>2. QED
    BY <2>1 DEF Range, IsInjective
<1>5. Range(r) = Range(s) \ {s[i]}
  BY <1>3, <1>4 DEF Range
<1>6. QED
  BY <1>1, <1>2, <1>5 DEF r

-----------------------------------------------------------------------------
(* Types, and the queue of the lock.                                       *)

TypeInv == TypeOK /\ LockIsQueue

\* The replies of an answer.
LEMMA NowType ==
  ASSUME NEW answer \in Answers, NEW n \in 1..MaxSends
  PROVE  /\ Now(answer, n) \in Seq(Reply) /\ Later(answer, n) \subseteq Reply
         /\ DOMAIN Now(answer, n) = DOMAIN answer.now
<1>1. answer.now \in Seq(Devices \ Slow) /\ answer.later \subseteq Slow /\ Slow \subseteq Devices
  BY MockAssumption
<1>2. DOMAIN answer.now = 1..Len(answer.now) /\ Len(answer.now) \in Nat
  BY <1>1
<1>3. \A i \in DOMAIN answer.now : [device |-> answer.now[i], request |-> n] \in Reply
  BY <1>1 DEF Reply
<1>4. Now(answer, n) \in [1..Len(answer.now) -> Reply]
  BY <1>2, <1>3 DEF Now
<1>5. Now(answer, n) \in Seq(Reply)
  BY <1>2, <1>4
<1>6. DOMAIN Now(answer, n) = DOMAIN answer.now
  BY DEF Now
<1>7. QED
  BY <1>1, <1>5, <1>6 DEF Later, Reply

\* Leaving recv.
LEMMA LeaveType ==
  ASSUME TypeInv, NEW t \in Tasks, pc[t] = "recv", NEW r \in {"none", "Ok", "Cancelled"},
         Leave(t, r)
  PROVE  /\ pc' \in [Tasks -> {"idle", "recv"}]
         /\ result' \in [Tasks -> {"none", "Ok", "Cancelled"}]
         /\ lock' \in Seq(Tasks) /\ IsInjective(lock')
         /\ LockIsQueue'
<1>1. Place(t) \in DOMAIN lock /\ lock[Place(t)] = t
  BY DEF TypeInv, LockIsQueue, Range, Place
<1>2. /\ lock' \in Seq(Tasks) /\ IsInjective(lock')
      /\ Range(lock') = Range(lock) \ {t}
  BY <1>1, RemoveIs DEF Leave, TypeInv, TypeOK
<1>3. QED
  BY <1>2 DEF Leave, TypeInv, TypeOK, LockIsQueue

\* A task that holds the receiver is inside recv.
LEMMA HolderReceives ==
  ASSUME TypeInv, NEW t \in Tasks, Holds(t)
  PROVE  pc[t] = "recv"
<1>1. 1 \in DOMAIN lock /\ lock[1] = t
  BY DEF Holds, TypeInv, TypeOK
<1>2. QED
  BY <1>1 DEF TypeInv, LockIsQueue, Range

\* Every step preserves the types and the queue of the lock.
LEMMA TypeNext == TypeInv /\ [Next]_vars => TypeInv'
<1> SUFFICES ASSUME TypeInv, [Next]_vars PROVE TypeInv'
  OBVIOUS
<1> USE MockAssumption
<1>1. ASSUME NEW answer \in Answers, Send(answer) PROVE TypeInv'
  <2>1. Len(answered) \in Nat /\ Len(answered) + 1 \in 1..MaxSends
    BY <1>1 DEF Send, TypeInv, TypeOK
  <2>2. channel' \in Seq(Reply) /\ sleeping' \subseteq Reply
    BY <1>1, <2>1, NowType, ConcatIs DEF Send, Scheduled, TypeInv, TypeOK
  <2>3. answered' \in Seq(Answers) /\ Len(answered') <= MaxSends
    BY <1>1, <2>1 DEF Send, TypeInv, TypeOK
  <2>4. QED
    BY <1>1, <2>2, <2>3 DEF Send, TypeInv, TypeOK, taskVars, LockIsQueue
<1>2. CASE Close
  BY <1>2 DEF Close, TypeInv, TypeOK, taskVars, LockIsQueue
<1>3. ASSUME NEW r \in sleeping, Queue(r) PROVE TypeInv'
  BY <1>3 DEF Queue, TypeInv, TypeOK, taskVars, LockIsQueue
<1>4. ASSUME NEW t \in Tasks, Recv(t) PROVE TypeInv'
  <2>1. /\ lock \in Seq(Tasks) /\ IsInjective(lock) /\ t \notin Range(lock)
        /\ lock' = Append(lock, t)
    BY <1>4 DEF Recv, TypeInv, TypeOK, LockIsQueue
  <2>2. lock' \in Seq(Tasks) /\ IsInjective(lock') /\ Range(lock') = Range(lock) \cup {t}
    BY <2>1, AppendIs
  <2>3. QED
    BY <1>4, <2>2 DEF Recv, TypeInv, TypeOK, LockIsQueue
<1>5. ASSUME NEW t \in Tasks, Cancelled(t) PROVE TypeInv'
  <2>1. Leave(t, "Cancelled") /\ pc[t] = "recv" /\ UNCHANGED <<channel, received>>
    BY <1>5, HolderReceives DEF Cancelled
  <2>2. QED
    BY <2>1, LeaveType DEF TypeInv, TypeOK, Leave
<1>6. ASSUME NEW t \in Tasks, Received(t) PROVE TypeInv'
  <2>1. Leave(t, "Ok") /\ pc[t] = "recv"
    BY <1>6, HolderReceives DEF Received
  <2>2. channel' \in Seq(Reply) /\ received' \in Seq(Reply)
    BY <1>6 DEF Received, TypeInv, TypeOK
  <2>3. QED
    BY <2>1, <2>2, LeaveType DEF TypeInv, TypeOK, Leave
<1>7. ASSUME NEW t \in Tasks, Dropped(t) PROVE TypeInv'
  <2>1. Leave(t, "none") /\ pc[t] = "recv" /\ UNCHANGED <<channel, received>>
    BY <1>7 DEF Dropped
  <2>2. QED
    BY <2>1, LeaveType DEF TypeInv, TypeOK, Leave
<1>8. ASSUME NEW t \in Tasks, Fire(t) PROVE TypeInv'
  BY <1>8 DEF Fire, TypeInv, TypeOK, LockIsQueue
<1>9. CASE UNCHANGED vars
  BY <1>9 DEF vars, taskVars, TypeInv, TypeOK, LockIsQueue
<1>10. QED
  BY <1>1, <1>2, <1>3, <1>4, <1>5, <1>6, <1>7, <1>8, <1>9 DEF Next, Poll

\* Every reachable state has the types, the queue for the lock included.
LEMMA TypeAlways == Spec => []TypeInv
<1>1. Init => TypeInv
  <2> SUFFICES ASSUME Init PROVE TypeInv
    OBVIOUS
  <2>1. IsInjective(<<>>) /\ Range(<<>>) = {}
    BY DEF IsInjective, Range
  <2>2. /\ lock \in Seq(Tasks) /\ channel \in Seq(Reply) /\ received \in Seq(Reply)
        /\ answered \in Seq(Answers) /\ Len(answered) = 0 /\ recvs = 0
    BY DEF Init
  <2>3. Len(answered) <= MaxSends /\ recvs \in 0..MaxRecvs
    BY <2>2, MockAssumption
  <2>4. QED
    BY <2>1, <2>2, <2>3 DEF Init, TypeInv, TypeOK, LockIsQueue
<1>2. QED
  BY <1>1, TypeNext, PTL DEF Spec

\* Every variable keeps its type; in particular no task waits for the receiver twice.
THEOREM TypeCorrect == Spec => []TypeOK
<1>1. TypeInv => TypeOK
  BY DEF TypeInv
<1>2. QED
  BY <1>1, TypeAlways, PTL

-----------------------------------------------------------------------------
(* What is queued.                                                         *)

\* How a step changes the replies queued so far.
LEMMA QueuedStep ==
  ASSUME TypeInv, Next
  PROVE  \/ \E answer \in Answers :
              /\ Len(answered) + 1 \in 1..MaxSends
              /\ answered' = Append(answered, answer)
              /\ Queued' = Queued \o Now(answer, Len(answered) + 1)
              /\ sleeping' = sleeping \cup Later(answer, Len(answered) + 1)
         \/ \E r \in sleeping : /\ Queued' = Append(Queued, r) /\ sleeping' = sleeping \ {r}
                                /\ answered' = answered
         \/ Queued' = Queued /\ sleeping' = sleeping /\ answered' = answered
<1> USE MockAssumption
<1>1. ASSUME NEW answer \in Answers, Send(answer)
      PROVE  /\ Len(answered) + 1 \in 1..MaxSends
             /\ answered' = Append(answered, answer)
             /\ Queued' = Queued \o Now(answer, Len(answered) + 1)
             /\ sleeping' = sleeping \cup Later(answer, Len(answered) + 1)
  <2>1. Len(answered) + 1 \in 1..MaxSends
    BY <1>1 DEF Send, TypeInv, TypeOK
  <2>2. /\ Now(answer, Len(answered) + 1) \in Seq(Reply)
        /\ channel' = channel \o Now(answer, Len(answered) + 1)
        /\ received' = received /\ channel \in Seq(Reply) /\ received \in Seq(Reply)
    BY <1>1, <2>1, NowType DEF Send, Scheduled, TypeInv, TypeOK
  <2>3. Queued' = Queued \o Now(answer, Len(answered) + 1)
    BY <2>2 DEF Queued
  <2>4. QED
    BY <1>1, <2>1, <2>3 DEF Send, Scheduled
<1>2. ASSUME NEW r \in sleeping, Queue(r)
      PROVE  /\ Queued' = Append(Queued, r) /\ sleeping' = sleeping \ {r}
             /\ answered' = answered
  <2>1. /\ channel' = Append(channel, r) /\ received' = received /\ r \in Reply
        /\ channel \in Seq(Reply) /\ received \in Seq(Reply)
    BY <1>2 DEF Queue, TypeInv, TypeOK
  <2>2. QED
    BY <1>2, <2>1 DEF Queued, Queue
<1>3. ASSUME NEW t \in Tasks, Received(t)
      PROVE  Queued' = Queued /\ sleeping' = sleeping /\ answered' = answered
  <2>1. /\ channel' = Tail(channel) /\ received' = Append(received, Head(channel))
        /\ channel \in Seq(Reply) /\ received \in Seq(Reply) /\ channel # <<>>
    BY <1>3 DEF Received, TypeInv, TypeOK
  <2>2. Append(received, Head(channel)) \o Tail(channel) = received \o channel
    BY <2>1
  <2>3. QED
    BY <1>3, <2>1, <2>2 DEF Queued, Received, Leave
<1>4. ASSUME \/ Close
             \/ \E t \in Tasks : Recv(t) \/ Cancelled(t) \/ Dropped(t) \/ Fire(t)
      PROVE  Queued' = Queued /\ sleeping' = sleeping /\ answered' = answered
  BY <1>4 DEF Close, Recv, Cancelled, Dropped, Fire, Leave, Queued
<1>5. QED
  BY <1>1, <1>2, <1>3, <1>4 DEF Next, Poll

\* The replies queued so far are replies.
LEMMA QueuedType ==
  ASSUME TypeInv
  PROVE  Queued \in Seq(Reply) /\ sleeping \subseteq Reply
  BY DEF TypeInv, TypeOK, Queued

\* The replies of one answer: each device once, those due now in order.
LEMMA AnswerIs ==
  ASSUME NEW answer \in Answers, NEW n \in 1..MaxSends
  PROVE  /\ IsInjective(Now(answer, n)) /\ Range(Now(answer, n)) \cap Later(answer, n) = {}
         /\ \A r \in Range(Now(answer, n)) : r.request = n /\ r.device \notin Slow
         /\ \A r \in Later(answer, n) : r.request = n /\ r.device \in Slow
         /\ \A i, j \in DOMAIN Now(answer, n) :
              i < j => Before(Now(answer, n)[i], Now(answer, n)[j])
         /\ Range(Now(answer, n)) \cup Later(answer, n) =
              {r \in Reply : r.request = n /\ r.device \in Range(answer.now) \cup answer.later}
<1> DEFINE w == Now(answer, n)
<1>1. /\ answer.now \in Seq(Devices \ Slow) /\ answer.later \subseteq Slow
      /\ Slow \subseteq Devices /\ Position \in [Devices -> Nat]
      /\ \A i, j \in DOMAIN answer.now :
           i < j => Position[answer.now[i]] < Position[answer.now[j]]
  BY MockAssumption
<1>2. /\ DOMAIN w = DOMAIN answer.now /\ DOMAIN w \subseteq Nat
      /\ \A i \in DOMAIN w : w[i] = [device |-> answer.now[i], request |-> n]
  BY <1>1 DEF Now
<1>3. \A i \in DOMAIN w : answer.now[i] \in Devices \ Slow
  BY <1>1, <1>2
<1>4. ASSUME NEW i \in DOMAIN w PROVE w[i].device = answer.now[i] /\ w[i].request = n
  <2>1. w[i] = [device |-> answer.now[i], request |-> n]
    BY <1>2
  <2> HIDE DEF w
  <2>2. QED
    BY <2>1
<1> HIDE DEF w
<1>5. ASSUME NEW i \in DOMAIN w, NEW j \in DOMAIN w, i < j PROVE Before(w[i], w[j])
  <2>1. Position[answer.now[i]] < Position[answer.now[j]]
    BY <1>1, <1>2, <1>5
  <2>2. /\ w[i].request = n /\ w[i].device = answer.now[i]
        /\ w[j].request = n /\ w[j].device = answer.now[j]
    BY <1>2, <1>4
  <2>3. QED
    BY <2>1, <2>2 DEF Before
<1>6. IsInjective(w)
  <2>1. ASSUME NEW i \in DOMAIN w, NEW j \in DOMAIN w, w[i] = w[j] PROVE i = j
    <3>1. answer.now[i] = answer.now[j]
      <4>1. w[i].device = answer.now[i] /\ w[j].device = answer.now[j]
        BY <1>4
      <4>2. QED
        BY <2>1, <4>1
    <3>2. Position[answer.now[i]] \in Nat
      BY <1>1, <1>3
    <3>3. ~(i < j) /\ ~(j < i)
      BY <1>1, <1>2, <3>1, <3>2
    <3>4. QED
      BY <1>2, <3>3
  <2>2. QED
    BY <2>1 DEF IsInjective
<1>7. ASSUME NEW r \in Range(w) PROVE r.request = n /\ r.device \notin Slow
  <2>1. PICK i \in DOMAIN w : r = w[i]
    BY DEF Range
  <2>2. r = [device |-> answer.now[i], request |-> n]
    BY <1>2, <2>1
  <2>3. QED
    BY <1>3, <2>1, <2>2
<1>8. \A r \in Later(answer, n) : r.request = n /\ r.device \in Slow
  BY <1>1 DEF Later
<1>9. Range(w) \cup Later(answer, n) =
        {r \in Reply : r.request = n /\ r.device \in Range(answer.now) \cup answer.later}
  <2>1. ASSUME NEW r \in Range(w) \cup Later(answer, n)
        PROVE  r \in Reply /\ r.request = n /\ r.device \in Range(answer.now) \cup answer.later
    <3>1. CASE r \in Later(answer, n)
      BY <1>1, <3>1 DEF Later, Reply
    <3>2. CASE r \in Range(w)
      <4>1. PICK i \in DOMAIN w : r = w[i]
        BY <3>2 DEF Range
      <4>2. r = [device |-> answer.now[i], request |-> n] /\ i \in DOMAIN answer.now
        BY <1>2, <4>1
      <4>3. answer.now[i] \in Devices /\ answer.now[i] \in Range(answer.now)
        BY <1>3, <4>1, <4>2 DEF Range
      <4>4. QED
        BY <4>2, <4>3 DEF Reply
    <3>3. QED
      BY <3>1, <3>2
  <2>2. ASSUME NEW r \in Reply, r.request = n, r.device \in Range(answer.now) \cup answer.later
        PROVE  r \in Range(w) \cup Later(answer, n)
    <3>1. r = [device |-> r.device, request |-> n]
      BY <2>2 DEF Reply
    <3>2. CASE r.device \in answer.later
      BY <3>1, <3>2 DEF Later
    <3>3. CASE r.device \in Range(answer.now)
      <4>1. PICK i \in DOMAIN answer.now : answer.now[i] = r.device
        BY <3>3 DEF Range
      <4>2. i \in DOMAIN w /\ w[i] = r
        BY <1>2, <3>1, <4>1
      <4>3. QED
        BY <4>2 DEF Range
    <3>4. QED
      BY <2>2, <3>2, <3>3
  <2>3. QED
    BY <2>1, <2>2
<1>10. QED
  BY <1>5, <1>6, <1>7, <1>8, <1>9 DEF w

-----------------------------------------------------------------------------
(* Every reply once.                                                       *)

\* A new answer adds its replies to what is owed.
LEMMA OwedGrows ==
  ASSUME TypeInv, NEW answer \in Answers, answered' = Append(answered, answer),
         Len(answered) + 1 \in 1..MaxSends
  PROVE  Owed' = Owed \cup {r \in Reply : /\ r.request = Len(answered) + 1
                                          /\ r.device \in Range(answer.now) \cup answer.later}
<1>1. /\ answered \in Seq(Answers) /\ Len(answered) \in Nat
      /\ DOMAIN answered = 1..Len(answered)
  BY DEF TypeInv, TypeOK
<1>2. /\ DOMAIN answered' = 1..Len(answered) + 1
      /\ \A n \in DOMAIN answered : answered'[n] = answered[n]
      /\ answered'[Len(answered) + 1] = answer
  BY <1>1
<1>3. ASSUME NEW r \in Reply
      PROVE  r \in Owed' <=> \/ r \in Owed
                             \/ /\ r.request = Len(answered) + 1
                                /\ r.device \in Range(answer.now) \cup answer.later
  <2>1. CASE r.request \in DOMAIN answered
    BY <1>1, <1>2, <2>1 DEF Owed
  <2>2. CASE r.request = Len(answered) + 1
    BY <1>1, <1>2, <2>2 DEF Owed
  <2>3. CASE r.request \notin DOMAIN answered /\ r.request # Len(answered) + 1
    <3>1. r.request \notin DOMAIN answered'
      BY <1>1, <1>2, <2>3
    <3>2. QED
      BY <2>3, <3>1 DEF Owed
  <2>4. QED
    BY <2>1, <2>2, <2>3
<1>4. QED
  BY <1>3 DEF Owed

\* Every step keeps each reply once.
LEMMA OnceNext ==
  ASSUME TypeInv, RepliesOnce, [Next]_vars
  PROVE  RepliesOnce'
<1>1. Queued \in Seq(Reply) /\ sleeping \subseteq Reply
  BY QueuedType
<1>2. ASSUME NEW answer \in Answers, Len(answered) + 1 \in 1..MaxSends,
             answered' = Append(answered, answer),
             Queued' = Queued \o Now(answer, Len(answered) + 1),
             sleeping' = sleeping \cup Later(answer, Len(answered) + 1)
      PROVE  RepliesOnce'
  <2> DEFINE n == Len(answered) + 1
             w == Now(answer, n)
             l == Later(answer, n)
  <2>1. /\ w \in Seq(Reply) /\ IsInjective(w) /\ Range(w) \cap l = {}
        /\ \A r \in Range(w) \cup l : r.request = n
        /\ Owed' = Owed \cup Range(w) \cup l
    <3>1. n \in 1..MaxSends
      BY <1>2
    <3>2. Owed' = Owed \cup {r \in Reply : /\ r.request = n
                                           /\ r.device \in Range(answer.now) \cup answer.later}
      BY <1>2, OwedGrows
    <3> HIDE DEF n
    <3>3. w \in Seq(Reply)
      BY <3>1, NowType
    <3>4. QED
      BY <3>1, <3>2, <3>3, AnswerIs
  <2>2. \A r \in Owed : r.request # n
    <3>1. DOMAIN answered = 1..Len(answered) /\ Len(answered) \in Nat
      BY DEF TypeInv, TypeOK
    <3>2. QED
      BY <3>1 DEF Owed
  <2>3. Queued' = Queued \o w /\ sleeping' = sleeping \cup l
    BY <1>2
  <2> HIDE DEF n, w, l
  <2>4. /\ IsInjective(Queued) /\ sleeping \cap Range(Queued) = {}
        /\ sleeping \cup Range(Queued) = Owed
    BY DEF RepliesOnce
  <2>5. Range(Queued) \cap Range(w) = {}
    BY <2>1, <2>2, <2>4
  <2>6. IsInjective(Queued') /\ Range(Queued') = Range(Queued) \cup Range(w)
    BY <1>1, <2>1, <2>3, <2>4, <2>5, ConcatIs, ConcatInjective
  <2>7. /\ sleeping' \cap Range(Queued') = {}
        /\ sleeping' \cup Range(Queued') = Owed'
    BY <2>1, <2>2, <2>3, <2>4, <2>6
  <2>8. QED
    BY <2>6, <2>7 DEF RepliesOnce
<1>3. ASSUME NEW r \in sleeping, Queued' = Append(Queued, r), sleeping' = sleeping \ {r},
             answered' = answered
      PROVE  RepliesOnce'
  <2>1. /\ r \in Reply /\ IsInjective(Queued) /\ sleeping \cap Range(Queued) = {}
        /\ sleeping \cup Range(Queued) = Owed
    BY <1>1 DEF RepliesOnce
  <2>2. IsInjective(Queued') /\ Range(Queued') = Range(Queued) \cup {r}
    BY <1>1, <1>3, <2>1, AppendIs
  <2>3. Owed' = Owed
    BY <1>3 DEF Owed
  <2>4. QED
    BY <1>3, <2>1, <2>2, <2>3 DEF RepliesOnce
<1>4. CASE Queued' = Queued /\ sleeping' = sleeping /\ answered' = answered
  BY <1>4 DEF RepliesOnce, Owed
<1>5. CASE UNCHANGED vars
  BY <1>4, <1>5 DEF vars, Queued
<1>6. QED
  BY <1>2, <1>3, <1>4, <1>5, QueuedStep

\* No reply is lost or comes twice (transport.rs:12-18).
THEOREM RepliesComeOnce == Spec => []RepliesOnce
<1>1. Init => RepliesOnce
  BY DEF Init, RepliesOnce, Queued, Owed, IsInjective, Range
<1>2. QED
  BY <1>1, OnceNext, TypeAlways, PTL DEF Spec

-----------------------------------------------------------------------------
(* In order.                                                               *)

\* Every step keeps the replies of devices without a delay in order: those
\* of a new request follow all that were queued, a delayed one is not among
\* them.
LEMMA OrderNext ==
  ASSUME TypeInv, RepliesOnce, InstantRepliesInOrder, [Next]_vars
  PROVE  InstantRepliesInOrder'
<1>1. /\ Queued \in Seq(Reply) /\ sleeping \subseteq Reply
      /\ DOMAIN Queued = 1..Len(Queued) /\ Len(Queued) \in Nat
  BY QueuedType
<1>2. ASSUME NEW answer \in Answers, Len(answered) + 1 \in 1..MaxSends,
             answered' = Append(answered, answer),
             Queued' = Queued \o Now(answer, Len(answered) + 1),
             sleeping' = sleeping \cup Later(answer, Len(answered) + 1)
      PROVE  InstantRepliesInOrder'
  <2> DEFINE n == Len(answered) + 1
             w == Now(answer, n)
  <2>1. /\ w \in Seq(Reply) /\ DOMAIN w = 1..Len(w) /\ Len(w) \in Nat /\ n \in Nat
        /\ \A r \in Range(w) : r.request = n
        /\ \A i, j \in DOMAIN w : i < j => Before(w[i], w[j])
        /\ \A r \in Later(answer, n) : r.device \in Slow
    <3>1. n \in 1..MaxSends /\ n \in Nat
      BY <1>2
    <3>2. w \in Seq(Reply)
      BY <3>1, NowType
    <3>3. QED
      BY <3>1, <3>2, AnswerIs
  <2>2. \A k \in DOMAIN Queued : Queued[k].request \in Nat /\ Queued[k].request < n
    <3>1. DOMAIN answered = 1..Len(answered) /\ Len(answered) \in Nat
      BY DEF TypeInv, TypeOK
    <3>2. \A k \in DOMAIN Queued : Queued[k] \in Owed
      BY DEF RepliesOnce, Range
    <3>3. QED
      BY <3>1, <3>2 DEF Owed
  <2>3. Queued' = Queued \o w
    BY <1>2
  <2>4. \A r \in sleeping' : r.device \in Slow
    BY <1>2, <2>1 DEF InstantRepliesInOrder
  <2> HIDE DEF n, w
  <2>5. /\ DOMAIN Queued' = 1..Len(Queued) + Len(w)
        /\ \A k \in DOMAIN Queued : Queued'[k] = Queued[k]
        /\ \A k \in DOMAIN Queued' :
             k \notin DOMAIN Queued => /\ k - Len(Queued) \in DOMAIN w
                                       /\ Queued'[k] = w[k - Len(Queued)]
    BY <1>1, <2>1, <2>3
  <2>6. ASSUME NEW i \in DOMAIN Queued', NEW j \in DOMAIN Queued', i < j,
               {Queued'[i].device, Queued'[j].device} \cap Slow = {}
        PROVE  Before(Queued'[i], Queued'[j])
    <3>1. CASE j \in DOMAIN Queued
      <4>1. i \in DOMAIN Queued
        BY <1>1, <2>5, <2>6, <3>1
      <4>2. QED
        BY <2>5, <2>6, <3>1, <4>1 DEF InstantRepliesInOrder
    <3>2. CASE j \notin DOMAIN Queued /\ i \in DOMAIN Queued
      <4>1. Queued'[j] \in Range(w)
        BY <2>5, <3>2 DEF Range
      <4>2. Queued'[j].request = n /\ Queued'[i].request < n
        BY <2>1, <2>2, <2>5, <3>2, <4>1
      <4>3. QED
        BY <4>2 DEF Before
    <3>3. CASE i \notin DOMAIN Queued
      <4>1. j \notin DOMAIN Queued
        BY <1>1, <2>1, <2>5, <2>6, <3>3
      <4>2. i - Len(Queued) < j - Len(Queued)
        BY <1>1, <2>1, <2>5, <2>6
      <4>3. QED
        BY <2>1, <2>5, <3>3, <4>1, <4>2
    <3>4. QED
      BY <3>1, <3>2, <3>3
  <2>7. QED
    BY <2>4, <2>6 DEF InstantRepliesInOrder
<1>3. ASSUME NEW r \in sleeping, Queued' = Append(Queued, r), sleeping' = sleeping \ {r}
      PROVE  InstantRepliesInOrder'
  <2>1. r \in Reply /\ r.device \in Slow
    BY <1>1 DEF InstantRepliesInOrder
  <2>2. /\ DOMAIN Queued' = 1..Len(Queued) + 1
        /\ \A k \in DOMAIN Queued : Queued'[k] = Queued[k]
        /\ Queued'[Len(Queued) + 1] = r
    BY <1>1, <1>3, <2>1
  <2>3. ASSUME NEW i \in DOMAIN Queued', NEW j \in DOMAIN Queued', i < j,
               {Queued'[i].device, Queued'[j].device} \cap Slow = {}
        PROVE  Before(Queued'[i], Queued'[j])
    <3>1. i # Len(Queued) + 1 /\ j # Len(Queued) + 1
      BY <2>1, <2>2, <2>3
    <3>2. i \in DOMAIN Queued /\ j \in DOMAIN Queued
      BY <1>1, <2>2, <3>1
    <3>3. QED
      BY <2>2, <2>3, <3>2 DEF InstantRepliesInOrder
  <2>4. QED
    BY <1>3, <2>3 DEF InstantRepliesInOrder
<1>4. CASE Queued' = Queued /\ sleeping' = sleeping
  BY <1>4 DEF InstantRepliesInOrder
<1>5. CASE UNCHANGED vars
  BY <1>4, <1>5 DEF vars, Queued
<1>6. QED
  BY <1>2, <1>3, <1>4, <1>5, QueuedStep

\* The replies of devices without a delay are received in the order of the
\* requests they answer, however slow the other devices are (transport.rs:42-50).
THEOREM InstantInOrder == Spec => []InstantRepliesInOrder
<1>1. Init => InstantRepliesInOrder
  BY DEF Init, InstantRepliesInOrder, Queued
<1>2. QED
  BY <1>1, OrderNext, TypeAlways, RepliesComeOnce, PTL DEF Spec
=============================================================================
