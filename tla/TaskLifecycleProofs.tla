------------------------ MODULE TaskLifecycleProofs ------------------------
(***************************************************************************)
(* What holds of TaskLifecycle for every number of connections and         *)
(* requests, every first status and every choice of actions.               *)
(*                                                                         *)
(* The bookkeeping of the pool is proved first (PoolOK): no connection is  *)
(* with two requests, and nobody waits twice.  While nobody has had to     *)
(* wait, a request's block then stays on one connection (BlockOK), and     *)
(* while no two requests have overlapped, what a request has read is still *)
(* so when it writes (SoloOK).                                             *)
(***************************************************************************)
EXTENDS TaskLifecycle, SequenceTheorems, TLAPS

-----------------------------------------------------------------------------
(* Sequences without duplicates. *)

Elems(s) == {s[i] : i \in 1..Len(s)}

Distinct(s) == \A i, j \in 1..Len(s) : s[i] = s[j] => i = j

LEMMA AppendElems ==
  ASSUME NEW S, NEW s \in Seq(S), NEW e \in S
  PROVE  /\ Append(s, e) \in Seq(S)
         /\ Elems(Append(s, e)) = Elems(s) \union {e}
         /\ Distinct(s) /\ e \notin Elems(s) => Distinct(Append(s, e))
BY AppendProperties, LenProperties DEF Elems, Distinct

LEMMA TailElems ==
  ASSUME NEW S, NEW s \in Seq(S), s # << >>, Distinct(s)
  PROVE  /\ Head(s) \in S /\ Head(s) \in Elems(s)
         /\ Tail(s) \in Seq(S)
         /\ Elems(Tail(s)) = Elems(s) \ {Head(s)}
         /\ Distinct(Tail(s))
<1>1. Len(s) \in Nat /\ Len(s) # 0
  BY LenProperties, EmptySeq
<1>2. /\ Head(s) = s[1] /\ Tail(s) \in Seq(S) /\ Len(Tail(s)) = Len(s) - 1
      /\ \A i \in 1..Len(Tail(s)) : Tail(s)[i] = s[i + 1]
  BY HeadTailProperties
<1>3. Head(s) \in S /\ Head(s) \in Elems(s)
  BY <1>1, <1>2, ElementOfSeq DEF Elems
<1>4. Elems(Tail(s)) \subseteq Elems(s) \ {Head(s)}
  BY <1>1, <1>2 DEF Elems, Distinct
<1>5. Elems(s) \ {Head(s)} \subseteq Elems(Tail(s))
  <2> SUFFICES ASSUME NEW i \in 1..Len(s), s[i] # Head(s) PROVE s[i] \in Elems(Tail(s))
    BY DEF Elems
  <2>1. i - 1 \in 1..Len(Tail(s)) /\ Tail(s)[i - 1] = s[i]
    BY <1>1, <1>2
  <2> QED
    BY <2>1 DEF Elems
<1>6. Distinct(Tail(s))
  BY <1>1, <1>2 DEF Distinct
<1> QED
  BY <1>2, <1>3, <1>4, <1>5, <1>6

\* A sequence without its i-th element.
LEMMA RemoveElems ==
  ASSUME NEW S, NEW s \in Seq(S), NEW i \in 1..Len(s), Distinct(s)
  PROVE  LET t == SubSeq(s, 1, i - 1) \o SubSeq(s, i + 1, Len(s)) IN
         /\ t \in Seq(S)
         /\ Elems(t) = Elems(s) \ {s[i]}
         /\ Distinct(t)
<1> DEFINE a == SubSeq(s, 1, i - 1)
           b == SubSeq(s, i + 1, Len(s))
           t == a \o b
<1>1. Len(s) \in Nat /\ \A j \in 1..Len(s) : s[j] \in S
  BY LenProperties, ElementOfSeq
<1>2. /\ a \in Seq(S) /\ Len(a) = i - 1
      /\ \A j \in 1..(i - 1) : a[j] = s[j]
  BY <1>1, SubSeqProperties
<1>3. /\ b \in Seq(S) /\ Len(b) = Len(s) - i
      /\ \A j \in 1..(Len(s) - i) : b[j] = s[i + j]
  <2>1. \A j \in (i + 1)..Len(s) : s[j] \in S
    BY <1>1
  <2>2. /\ b \in Seq(S)
        /\ Len(b) = IF i + 1 <= Len(s) THEN Len(s) - (i + 1) + 1 ELSE 0
        /\ \A j \in 1..(Len(s) - (i + 1) + 1) : b[j] = s[(i + 1) + j - 1]
    BY <1>1, <2>1, SubSeqProperties
  <2> QED
    BY <1>1, <2>2
<1>4. /\ t \in Seq(S) /\ Len(t) = Len(a) + Len(b)
      /\ \A j \in 1..(Len(a) + Len(b)) :
           t[j] = IF j <= Len(a) THEN a[j] ELSE b[j - Len(a)]
  BY <1>2, <1>3, ConcatProperties
<1> HIDE DEF a, b, t
<1>5. /\ Len(t) = Len(s) - 1
      /\ \A j \in 1..Len(t) : t[j] = IF j < i THEN s[j] ELSE s[j + 1]
  <2>1. Len(t) = Len(s) - 1
    BY <1>1, <1>2, <1>3, <1>4
  <2>2. ASSUME NEW j \in 1..Len(t) PROVE t[j] = IF j < i THEN s[j] ELSE s[j + 1]
    <3>1. CASE j < i
      BY <1>1, <1>2, <1>3, <1>4, <3>1
    <3>2. CASE ~ (j < i)
      <4>1. j - Len(a) \in 1..(Len(s) - i) /\ t[j] = b[j - Len(a)]
        BY <1>1, <1>2, <1>3, <1>4, <2>1, <3>2
      <4>2. b[j - Len(a)] = s[i + (j - Len(a))] /\ i + (j - Len(a)) = j + 1
        BY <1>1, <1>2, <1>3, <4>1
      <4> QED
        BY <3>2, <4>1, <4>2
    <3> QED
      BY <3>1, <3>2
  <2> QED
    BY <2>1, <2>2
<1>6. Elems(t) \subseteq Elems(s) \ {s[i]}
  BY <1>1, <1>5 DEF Elems, Distinct
<1>7. Elems(s) \ {s[i]} \subseteq Elems(t)
  <2> SUFFICES ASSUME NEW j \in 1..Len(s), s[j] # s[i] PROVE s[j] \in Elems(t)
    BY DEF Elems
  <2>1. CASE j < i
    BY <1>1, <1>5, <2>1 DEF Elems
  <2>2. CASE j > i
    <3>1. j - 1 \in 1..Len(t) /\ t[j - 1] = s[j]
      BY <1>1, <1>5, <2>2
    <3> QED
      BY <3>1 DEF Elems
  <2> QED
    BY <1>1, <2>1, <2>2
<1>8. Distinct(t)
  BY <1>1, <1>5 DEF Distinct
<1> QED
  BY <1>4, <1>6, <1>7, <1>8 DEF t, a, b

\* A sequence without its last element.
LEMMA FrontElems ==
  ASSUME NEW S, NEW s \in Seq(S), s # << >>, Distinct(s)
  PROVE  /\ s[Len(s)] \in S /\ s[Len(s)] \in Elems(s)
         /\ SubSeq(s, 1, Len(s) - 1) \in Seq(S)
         /\ Elems(SubSeq(s, 1, Len(s) - 1)) = Elems(s) \ {s[Len(s)]}
         /\ Distinct(SubSeq(s, 1, Len(s) - 1))
<1> DEFINE n == Len(s)
           a == SubSeq(s, 1, n - 1)
<1>1. n \in Nat /\ n # 0 /\ \A j \in 1..n : s[j] \in S
  BY LenProperties, ElementOfSeq, EmptySeq
<1>2. /\ a \in Seq(S) /\ Len(a) = n - 1
      /\ \A j \in 1..(n - 1) : a[j] = s[j]
  <2>1. n - 1 \in Int /\ \A j \in 1..(n - 1) : s[j] \in S
    BY <1>1
  <2>2. /\ a \in Seq(S)
        /\ Len(a) = IF 1 <= n - 1 THEN (n - 1) - 1 + 1 ELSE 0
        /\ \A j \in 1..((n - 1) - 1 + 1) : a[j] = s[1 + j - 1]
    BY <2>1, SubSeqProperties
  <2> HIDE DEF a, n
  <2>3. Len(a) = n - 1
    BY <1>1, <2>2
  <2>4. ASSUME NEW j \in 1..(n - 1) PROVE a[j] = s[j]
    <3>1. j \in 1..((n - 1) - 1 + 1) /\ 1 + j - 1 = j
      BY <1>1
    <3>2. a[j] = s[1 + j - 1]
      BY <2>2, <3>1
    <3> QED
      BY <3>1, <3>2
  <2> QED
    BY <2>2, <2>3, <2>4
<1> HIDE DEF a
<1>3. Elems(a) = Elems(s) \ {s[n]}
  BY <1>1, <1>2 DEF Elems, Distinct
<1>4. Distinct(a) /\ s[n] \in S /\ s[n] \in Elems(s)
  BY <1>1, <1>2 DEF Elems, Distinct
<1> QED
  BY <1>2, <1>3, <1>4 DEF a

-----------------------------------------------------------------------------
(* The pool. *)

Flying(slot) == slot.pc \notin {"new", "over"}

\* No connection is with two requests, none with a request is idle too, and those that
\* wait for one are in the queue, once.
PoolOK ==
  /\ idle \in Seq(Client) /\ Distinct(idle)
  /\ queue \in Seq(TaskRequest) /\ Distinct(queue)
  /\ taskReq \in [TaskRequest -> TaskSlot]
  /\ \A r \in TaskRequest :
       /\ taskReq[r].on # None => Flying(taskReq[r]) /\ taskReq[r].on \notin Elems(idle)
       /\ r \in Elems(queue) <=> Flying(taskReq[r]) /\ taskReq[r].on = None
  /\ \A r, s \in TaskRequest :
       taskReq[r].on # None /\ taskReq[r].on = taskReq[s].on => r = s

\* The connections that are open, with a request or idle.
Opened(c) == c \in Elems(idle) \/ \E r \in TaskRequest : taskReq[r].on = c

TxOK ==
  /\ tx \in [Client -> Transaction]
  /\ \A c \in Client : tx[c].open => Opened(c)

\* Slot a is slot b, but for the connection.
Alike(a, b) ==
  /\ a.pc = b.pc /\ a.action = b.action /\ a.override = b.override
  /\ a.from = b.from /\ a.to = b.to /\ a.rewrite = b.rewrite

On(slot, c) == [slot EXCEPT !.on = c]

LEMMA OnSlot ==
  ASSUME NEW slot \in TaskSlot, NEW c \in Client \union {None}
  PROVE  On(slot, c) \in TaskSlot /\ On(slot, c).on = c /\ Alike(On(slot, c), slot)
BY DEF On, TaskSlot, Alike

\* A request that has a connection returns it with a statement done.
LEMMA ReturnKeepsPool ==
  ASSUME PoolOK, NEW r \in TaskRequest, NEW c \in Client, taskReq[r].on = c,
         NEW slot \in TaskSlot, slot.pc # "new", Return(r, c, slot)
  PROVE  /\ PoolOK'
         /\ \A d \in Client : Opened(d) => Opened(d)'
         /\ Alike(taskReq'[r], slot)
         /\ \A s \in TaskRequest \ {r} : Alike(taskReq'[s], taskReq[s])
         /\ UNCHANGED starved
         /\ queue = << >> =>
              /\ queue' = << >>
              /\ \A s \in TaskRequest \ {r} : taskReq'[s] = taskReq[s]
              /\ taskReq'[r].on = IF slot.pc = "over" THEN None ELSE c
<1> USE TaskAssumption
<1>0. /\ taskReq \in [TaskRequest -> TaskSlot] /\ c # None
      /\ \A d \in Client \union {None} :
           On(slot, d) \in TaskSlot /\ On(slot, d).on = d /\ Alike(On(slot, d), slot)
      /\ \A s \in TaskRequest : Alike(taskReq[s], taskReq[s])
      /\ \A d \in Client \union {None} : Flying(On(slot, d)) <=> slot.pc # "over"
  <2>1. c # None
    OBVIOUS
  <2>2. ASSUME NEW d \in Client \union {None} PROVE Flying(On(slot, d)) <=> slot.pc # "over"
    BY OnSlot DEF Flying, Alike
  <2> QED
    BY <2>1, <2>2, OnSlot DEF PoolOK, Alike
<1>1. CASE queue = << >> /\ slot.pc = "over"
  <2>1. /\ taskReq' = [taskReq EXCEPT ![r] = On(slot, None)]
        /\ idle' = Append(idle, c) /\ queue' = queue /\ starved' = starved
    BY <1>1 DEF Return, On
  <2>2. /\ taskReq' \in [TaskRequest -> TaskSlot] /\ taskReq'[r] = On(slot, None)
        /\ \A s \in TaskRequest \ {r} : taskReq'[s] = taskReq[s]
    BY <1>0, <2>1
  <2>3. /\ idle' \in Seq(Client) /\ Elems(idle') = Elems(idle) \union {c} /\ Distinct(idle')
    BY <2>1, AppendElems DEF PoolOK
  <2>4. PoolOK'
    BY <1>0, <1>1, <2>1, <2>2, <2>3 DEF PoolOK
  <2>5. ASSUME NEW d \in Client, Opened(d) PROVE Opened(d)'
    BY <2>2, <2>3, <2>5 DEF Opened
  <2> QED
    BY <1>0, <1>1, <2>1, <2>2, <2>4, <2>5
<1>2. CASE queue = << >> /\ slot.pc # "over"
  <2>1. /\ taskReq' = [taskReq EXCEPT ![r] = On(slot, c)]
        /\ idle' = idle /\ queue' = queue /\ starved' = starved
    BY <1>2 DEF Return, On
  <2>2. /\ taskReq' \in [TaskRequest -> TaskSlot] /\ taskReq'[r] = On(slot, c)
        /\ \A s \in TaskRequest \ {r} : taskReq'[s] = taskReq[s]
    BY <1>0, <2>1
  <2>4. PoolOK'
    BY <1>0, <1>2, <2>1, <2>2 DEF PoolOK, Distinct, Elems
  <2>5. ASSUME NEW d \in Client, Opened(d) PROVE Opened(d)'
    BY <1>0, <2>1, <2>2, <2>5 DEF Opened
  <2> QED
    BY <1>0, <1>2, <2>1, <2>2, <2>4, <2>5
<1>3. CASE queue # << >>
  <2> DEFINE h == Head(queue)
             rest == Tail(queue)
             base == [taskReq EXCEPT ![r] = On(slot, None)]
  <2>0. /\ h \in TaskRequest /\ h \in Elems(queue) /\ rest \in Seq(TaskRequest)
        /\ Elems(rest) = Elems(queue) \ {h} /\ Distinct(rest)
    BY <1>3, TailElems DEF PoolOK
  <2>1. /\ taskReq' = [base EXCEPT ![h] = On(base[h], c)]
        /\ queue' = IF slot.pc = "over" THEN rest ELSE Append(rest, r)
        /\ idle' = idle /\ starved' = starved
    BY <1>3 DEF Return, On
  <2>2. h # r /\ taskReq[h].on = None /\ Flying(taskReq[h])
    BY <1>0, <2>0 DEF PoolOK
  <2>3. /\ taskReq'[r] = On(slot, None) /\ taskReq'[h] = On(taskReq[h], c)
        /\ \A s \in TaskRequest \ {r, h} : taskReq'[s] = taskReq[s]
        /\ On(taskReq[h], c) \in TaskSlot /\ On(taskReq[h], c).on = c
        /\ Alike(On(taskReq[h], c), taskReq[h]) /\ Flying(On(taskReq[h], c))
    <3>1. taskReq[h] \in TaskSlot
      BY <1>0, <2>0
    <3>2. /\ On(taskReq[h], c) \in TaskSlot /\ On(taskReq[h], c).on = c
          /\ Alike(On(taskReq[h], c), taskReq[h])
      BY <3>1, OnSlot
    <3> QED
      BY <1>0, <2>0, <2>1, <2>2, <3>2 DEF Flying, Alike
  <2>4. taskReq' \in [TaskRequest -> TaskSlot]
    BY <1>0, <2>0, <2>1, <2>3
  <2>5. r \notin Elems(queue)
    BY <1>0 DEF PoolOK
  <2>6. /\ queue' \in Seq(TaskRequest) /\ Distinct(queue')
        /\ Elems(queue') = IF slot.pc = "over" THEN Elems(queue) \ {h}
                           ELSE (Elems(queue) \ {h}) \union {r}
    <3>1. r \notin Elems(rest)
      BY <2>0, <2>5
    <3> HIDE DEF rest, h
    <3>2. /\ Append(rest, r) \in Seq(TaskRequest)
          /\ Elems(Append(rest, r)) = Elems(rest) \union {r} /\ Distinct(Append(rest, r))
      BY <2>0, <3>1, AppendElems
    <3> QED
      BY <2>0, <2>1, <3>2
  <2> HIDE DEF rest, h
  <2>7. PoolOK'
    <3>1. Elems(idle)' = Elems(idle) /\ Distinct(idle)' /\ idle' \in Seq(Client)
      BY <2>1 DEF PoolOK, Elems, Distinct
    <3>2. ASSUME NEW s \in TaskRequest
          PROVE  /\ taskReq'[s].on # None =>
                      Flying(taskReq'[s]) /\ taskReq'[s].on \notin Elems(idle)
                 /\ s \in Elems(queue') <=> (Flying(taskReq'[s]) /\ taskReq'[s].on = None)
      BY <1>0, <2>0, <2>2, <2>3, <2>6 DEF PoolOK
    <3>3. \A s, t \in TaskRequest :
            taskReq'[s].on # None /\ taskReq'[s].on = taskReq'[t].on => s = t
      BY <1>0, <2>0, <2>2, <2>3 DEF PoolOK
    <3> QED
      BY <2>4, <2>6, <3>1, <3>2, <3>3 DEF PoolOK
  <2>8. ASSUME NEW d \in Client, Opened(d) PROVE Opened(d)'
    BY <1>0, <2>0, <2>1, <2>2, <2>3, <2>8 DEF Opened
  <2>9. \A s \in TaskRequest \ {r} : Alike(taskReq'[s], taskReq[s])
    BY <1>0, <2>3
  <2> QED
    BY <1>0, <1>3, <2>1, <2>3, <2>7, <2>8, <2>9
<1> QED
  BY <1>1, <1>2, <1>3

\* A request that is not waiting issues a statement: the connection it may have had is
\* left to whom the pool gives it, or is the one it gets.
LEMMA IssueKeepsPool ==
  ASSUME PoolOK, NEW r \in TaskRequest, NEW slot \in TaskSlot, Flying(slot),
         r \notin Elems(queue), Issue(r, slot)
  PROVE  /\ PoolOK'
         /\ \A d \in Client : Opened(d) /\ taskReq[r].on # d => Opened(d)'
         /\ Alike(taskReq'[r], slot)
         /\ \A s \in TaskRequest \ {r} : taskReq'[s] = taskReq[s]
         /\ starved => starved'
         /\ ~ starved' =>
              UNCHANGED <<starved, queue>> /\ taskReq'[r].on \in Client
         /\ Client \ InUse(r) # {} => UNCHANGED <<starved, queue>>
<1> USE TaskAssumption
<1>0. /\ taskReq \in [TaskRequest -> TaskSlot]
      /\ \A d \in Client \union {None} :
           /\ On(slot, d) \in TaskSlot /\ On(slot, d).on = d /\ Alike(On(slot, d), slot)
           /\ Flying(On(slot, d))
      /\ \A d \in Client : taskReq[r].on # d /\ (\E s \in TaskRequest : taskReq[s].on = d) =>
           \E s \in TaskRequest \ {r} : taskReq[s].on = d
  <2>1. ASSUME NEW d \in Client \union {None} PROVE Flying(On(slot, d))
    BY OnSlot DEF Flying, Alike
  <2> QED
    BY <2>1, OnSlot DEF PoolOK
<1>1. CASE idle # << >>
  <2> DEFINE c == idle[Len(idle)]
             rest == SubSeq(idle, 1, Len(idle) - 1)
  <2>0. /\ c \in Client /\ c \in Elems(idle) /\ rest \in Seq(Client)
        /\ Elems(rest) = Elems(idle) \ {c} /\ Distinct(rest)
    BY <1>1, FrontElems DEF PoolOK
  <2>1. /\ taskReq' = [taskReq EXCEPT ![r] = On(slot, c)] /\ idle' = rest
        /\ UNCHANGED <<queue, starved>>
    BY <1>1 DEF Issue, On
  <2> HIDE DEF c, rest
  <2>2. /\ taskReq' \in [TaskRequest -> TaskSlot] /\ taskReq'[r] = On(slot, c)
        /\ \A s \in TaskRequest \ {r} : taskReq'[s] = taskReq[s]
    BY <1>0, <2>0, <2>1
  <2>3. PoolOK'
    <3>1. ASSUME NEW s \in TaskRequest
          PROVE  /\ taskReq'[s].on # None =>
                      Flying(taskReq'[s]) /\ taskReq'[s].on \notin Elems(rest)
                 /\ s \in Elems(queue) <=> (Flying(taskReq'[s]) /\ taskReq'[s].on = None)
      BY <1>0, <2>0, <2>2 DEF PoolOK
    <3>2. \A s, t \in TaskRequest :
            taskReq'[s].on # None /\ taskReq'[s].on = taskReq'[t].on => s = t
      BY <1>0, <2>0, <2>2 DEF PoolOK
    <3> QED
      BY <2>0, <2>1, <2>2, <3>1, <3>2 DEF PoolOK
  <2>4. ASSUME NEW d \in Client, Opened(d), taskReq[r].on # d PROVE Opened(d)'
    BY <1>0, <2>0, <2>1, <2>2, <2>4 DEF Opened
  <2> QED
    BY <1>0, <2>0, <2>1, <2>2, <2>3, <2>4
<1>2. ASSUME idle = << >>, NEW c \in Client \ InUse(r),
             taskReq' = [taskReq EXCEPT ![r] = On(slot, c)], UNCHANGED <<idle, queue, starved>>
      PROVE  /\ PoolOK'
             /\ \A d \in Client : Opened(d) /\ taskReq[r].on # d => Opened(d)'
             /\ Alike(taskReq'[r], slot)
             /\ \A s \in TaskRequest \ {r} : taskReq'[s] = taskReq[s]
             /\ UNCHANGED <<starved, queue>> /\ taskReq'[r].on \in Client
  <2>0. /\ \A s \in TaskRequest \ {r} : taskReq[s].on # c
        /\ Elems(idle) = {}
    <3>1. Len(idle) = 0
      BY <1>2, EmptySeq
    <3> QED
      BY <1>0, <1>2, <3>1 DEF InUse, Served, Elems
  <2>2. /\ taskReq' \in [TaskRequest -> TaskSlot] /\ taskReq'[r] = On(slot, c)
        /\ \A s \in TaskRequest \ {r} : taskReq'[s] = taskReq[s]
    BY <1>0, <1>2
  <2>3. PoolOK'
    <3>1. ASSUME NEW s \in TaskRequest
          PROVE  /\ taskReq'[s].on # None =>
                      Flying(taskReq'[s]) /\ taskReq'[s].on \notin Elems(idle)
                 /\ s \in Elems(queue) <=> (Flying(taskReq'[s]) /\ taskReq'[s].on = None)
      <4>1. CASE s = r
        BY <1>0, <1>2, <2>0, <2>2, <4>1
      <4>2. CASE s # r
        BY <2>0, <2>2, <4>2 DEF PoolOK
      <4> QED
        BY <4>1, <4>2
    <3>2. \A s, t \in TaskRequest :
            taskReq'[s].on # None /\ taskReq'[s].on = taskReq'[t].on => s = t
      <4>1. \A s, t \in TaskRequest :
              taskReq[s].on # None /\ taskReq[s].on = taskReq[t].on => s = t
        BY DEF PoolOK
      <4>2. taskReq'[r].on = c
        BY <1>0, <2>2
      <4> QED
        BY <2>0, <2>2, <4>1, <4>2
    <3> QED
      BY <1>2, <2>2, <3>1, <3>2 DEF PoolOK
  <2>4. ASSUME NEW d \in Client, Opened(d), taskReq[r].on # d PROVE Opened(d)'
    BY <1>0, <1>2, <2>0, <2>2, <2>4 DEF Opened
  <2> QED
    BY <1>0, <1>2, <2>2, <2>3, <2>4
<1>3. CASE idle = << >> /\ Client \ InUse(r) = {}
  <2>1. /\ taskReq' = [taskReq EXCEPT ![r] = On(slot, None)] /\ idle' = idle
        /\ queue' = Append(queue, r) /\ starved'
    BY <1>3 DEF Issue, On
  <2>2. /\ taskReq' \in [TaskRequest -> TaskSlot] /\ taskReq'[r] = On(slot, None)
        /\ \A s \in TaskRequest \ {r} : taskReq'[s] = taskReq[s]
    BY <1>0, <2>1
  <2>3. /\ queue' \in Seq(TaskRequest) /\ Distinct(queue')
        /\ Elems(queue') = Elems(queue) \union {r}
    BY <2>1, AppendElems DEF PoolOK
  <2>4. PoolOK'
    <3>1. ASSUME NEW s \in TaskRequest
          PROVE  /\ taskReq'[s].on # None =>
                      Flying(taskReq'[s]) /\ taskReq'[s].on \notin Elems(idle)
                 /\ s \in Elems(queue') <=> (Flying(taskReq'[s]) /\ taskReq'[s].on = None)
      BY <1>0, <2>2, <2>3 DEF PoolOK
    <3>2. \A s, t \in TaskRequest :
            taskReq'[s].on # None /\ taskReq'[s].on = taskReq'[t].on => s = t
      <4>1. \A s, t \in TaskRequest :
              taskReq[s].on # None /\ taskReq[s].on = taskReq[t].on => s = t
        BY DEF PoolOK
      <4>2. taskReq'[r].on = None
        BY <1>0, <2>2
      <4> QED
        BY <2>2, <4>1, <4>2
    <3> QED
      BY <2>1, <2>2, <2>3, <3>1, <3>2 DEF PoolOK
  <2>5. ASSUME NEW d \in Client, Opened(d), taskReq[r].on # d PROVE Opened(d)'
    BY <1>0, <2>1, <2>2, <2>5 DEF Opened
  <2> QED
    BY <1>0, <1>3, <2>1, <2>2, <2>4, <2>5
<1>4. CASE idle = << >> /\ Client \ InUse(r) # {}
  <2>1. PICK c \in Client \ InUse(r) :
          /\ taskReq' = [taskReq EXCEPT ![r] = On(slot, c)]
          /\ UNCHANGED <<idle, queue, starved>>
    BY <1>4 DEF Issue, On
  <2> QED
    BY <1>2, <1>4, <2>1
<1> QED
  BY <1>1, <1>3, <1>4

\* A request ends without its connection, which is closed.
LEMMA EndKeepsPool ==
  ASSUME PoolOK, NEW r \in TaskRequest, taskReq[r].on # None,
         NEW slot \in TaskSlot, slot.pc = "over",
         taskReq' = [taskReq EXCEPT ![r] = On(slot, None)], UNCHANGED <<idle, queue>>
  PROVE  /\ PoolOK'
         /\ \A d \in Client : Opened(d) /\ taskReq[r].on # d => Opened(d)'
         /\ Alike(taskReq'[r], slot) /\ taskReq'[r].on = None
         /\ \A s \in TaskRequest \ {r} : taskReq'[s] = taskReq[s]
<1>0. On(slot, None) \in TaskSlot /\ On(slot, None).on = None /\ Alike(On(slot, None), slot)
  BY OnSlot
<1>1. ~ Flying(On(slot, None))
  BY <1>0 DEF Flying, Alike
<1>2. /\ taskReq' \in [TaskRequest -> TaskSlot] /\ taskReq'[r] = On(slot, None)
      /\ \A s \in TaskRequest \ {r} : taskReq'[s] = taskReq[s]
  BY <1>0 DEF PoolOK
<1>3. PoolOK'
  BY <1>0, <1>1, <1>2 DEF PoolOK, Elems, Distinct
<1>4. ASSUME NEW d \in Client, Opened(d), taskReq[r].on # d PROVE Opened(d)'
  BY <1>2, <1>4 DEF Opened, Elems
<1> QED
  BY <1>0, <1>2, <1>3, <1>4

-----------------------------------------------------------------------------
(* The invariant. *)

ValuesOK ==
  /\ status \in TaskStatus /\ history \in Seq(HistoryRow) /\ answered \subseteq TaskRequest
  /\ starved \in BOOLEAN /\ overlapped \in BOOLEAN /\ overridden \in BOOLEAN
  /\ queue # << >> => starved

Block == {"update", "history", "commit"}

\* While nobody has waited for a connection: a transaction is open exactly on the
\* connections of the requests in their block, and a request that is about to commit has
\* its row in there.
BlockOK ==
  ~ starved =>
    /\ \A c \in Client :
         IF tx[c].open
           THEN \E r \in TaskRequest : taskReq[r].on = c /\ taskReq[r].pc \in Block
           ELSE tx[c] = NoTx
    /\ \A r \in TaskRequest : taskReq[r].on # None =>
         /\ taskReq[r].pc \in Block => tx[taskReq[r].on].open
         /\ taskReq[r].pc = "commit" =>
              \E i \in 1..Len(tx[taskReq[r].on].rows) : tx[taskReq[r].on].rows[i].by = r
    /\ AnsweredIsRecorded

\* The history so far explains the status.
Explains(h, s) ==
  /\ \A i \in 1..(Len(h) - 1) : h[i + 1].from \in {h[i].to, Blank}
  /\ h # << >> => s \in {h[Len(h)].to, Blank}

\* What request r knows, with slot and with transaction t on its connection, is still so
\* while s is the status.
Current(r, slot, t, s) ==
  /\ slot.pc \in {"begin"} \union Block =>
       slot.from = s /\ Valid(slot.action, s, slot.override)
  /\ slot.pc = "update" => t.status = None /\ t.rows = << >>
  /\ slot.pc = "history" => t.status = slot.to /\ t.rows = << >>
  /\ slot.pc = "commit" =>
       t.status = slot.to /\ t.rows = << [by |-> r, from |-> s, to |-> slot.to] >>
  /\ slot.pc = "rewrite" => slot.to \in {s, Blank}

\* While requests come one at a time.
SoloOK ==
  ~ overlapped =>
    /\ \A r, s \in TaskRequest : Flying(taskReq[r]) /\ Flying(taskReq[s]) => r = s
    /\ Client # {} => ~ starved
    /\ Explains(history, status)
    /\ \A r \in TaskRequest : taskReq[r].on # None =>
         Current(r, taskReq[r], tx[taskReq[r].on], status)

OverrideOK == \A r \in TaskRequest : taskReq[r].override => overridden

IInv == ValuesOK /\ PoolOK /\ TxOK /\ BlockOK /\ SoloOK /\ OverrideOK

LEMMA NoTxType == NoTx \in Transaction /\ ~ NoTx.open /\ NoTx.status = None /\ NoTx.rows = << >>
BY EmptySeq DEF NoTx, Transaction

LEMMA InitIInv == TaskInit => IInv
<1> USE TaskAssumption
<1> SUFFICES ASSUME TaskInit PROVE IInv
  OBVIOUS
<1>1. /\ TaskNew \in TaskSlot /\ TaskNew.pc = "new" /\ TaskNew.on = None
      /\ ~ TaskNew.override /\ ~ Flying(TaskNew)
  BY DEF TaskNew, TaskSlot, Flying, Action, TaskStatus
<1>2. \A r \in TaskRequest : taskReq[r] = TaskNew
  BY DEF TaskInit
<1>3. \A S : << >> \in Seq(S) /\ Len(<< >>) = 0
  BY EmptySeq
<1>4. ValuesOK
  BY <1>3 DEF TaskInit, ValuesOK
<1>5. PoolOK
  BY <1>1, <1>2, <1>3 DEF TaskInit, PoolOK, Distinct, Elems
<1>6. TxOK
  BY NoTxType DEF TaskInit, TxOK
<1>7. BlockOK
  BY <1>1, <1>2, NoTxType DEF TaskInit, BlockOK, AnsweredIsRecorded
<1>8. SoloOK
  <2>1. Explains(history, status)
    BY <1>3 DEF TaskInit, Explains
  <2> QED
    BY <1>1, <1>2, <2>1 DEF TaskInit, SoloOK
<1>9. OverrideOK
  BY <1>1, <1>2 DEF OverrideOK
<1> QED
  BY <1>4, <1>5, <1>6, <1>7, <1>8, <1>9 DEF IInv

\* Outside its block a request's connection has no transaction, if nobody has waited.
LEMMA OutsideBlock ==
  ASSUME IInv, ~ starved, NEW r \in TaskRequest, NEW c \in Client, taskReq[r].on = c,
         taskReq[r].pc \notin Block
  PROVE  tx[c] = NoTx
BY TaskAssumption DEF IInv, BlockOK, PoolOK

\* A statement of r has run on its connection c; slot is what r goes on with.
LEMMA StatementIInv ==
  ASSUME IInv, NEW r \in TaskRequest, NEW c \in Client, taskReq[r].on = c,
         NEW slot \in TaskSlot, slot.pc # "new", Return(r, c, slot),
         slot.override = taskReq[r].override,
         tx' \in [Client -> Transaction], \A d \in Client \ {c} : tx'[d] = tx[d],
         status' \in TaskStatus, history' \in Seq(HistoryRow), answered' \subseteq TaskRequest,
         UNCHANGED overlapped, UNCHANGED overridden,
         ~ starved =>
           /\ IF slot.pc \in Block THEN tx'[c].open ELSE tx'[c] = NoTx
           /\ slot.pc = "commit" => \E i \in 1..Len(tx'[c].rows) : tx'[c].rows[i].by = r
           /\ AnsweredIsRecorded',
         ~ starved /\ ~ overlapped =>
           Explains(history', status') /\ Current(r, slot, tx'[c], status')
  PROVE  IInv'
<1> USE TaskAssumption
<1>1. /\ PoolOK'
      /\ \A d \in Client : Opened(d) => Opened(d)'
      /\ Alike(taskReq'[r], slot)
      /\ \A s \in TaskRequest \ {r} : Alike(taskReq'[s], taskReq[s])
      /\ UNCHANGED starved
      /\ queue = << >> =>
           /\ queue' = << >>
           /\ \A s \in TaskRequest \ {r} : taskReq'[s] = taskReq[s]
           /\ taskReq'[r].on = IF slot.pc = "over" THEN None ELSE c
  BY ReturnKeepsPool DEF IInv
<1>2. ValuesOK'
  <2>1. starved \in BOOLEAN /\ (queue # << >> => starved)
    BY DEF IInv, ValuesOK
  <2>2. overlapped \in BOOLEAN /\ overridden \in BOOLEAN
    BY DEF IInv, ValuesOK
  <2> QED
    BY <1>1, <2>1, <2>2 DEF ValuesOK
<1>3. TxOK'
  <2>1. Opened(c)
    BY DEF Opened
  <2>2. \A d \in Client : tx[d].open => Opened(d)
    BY DEF IInv, TxOK
  <2> QED
    BY <1>1, <2>1, <2>2 DEF TxOK
<1>4. ASSUME ~ starved
      PROVE  /\ queue = << >>
             /\ \A s \in TaskRequest \ {r} : taskReq'[s] = taskReq[s] /\ taskReq[s].on # c
             /\ taskReq'[r].on = IF slot.pc = "over" THEN None ELSE c
             /\ \A s \in TaskRequest : taskReq[s].on \in Client \union {None}
  BY <1>1, <1>4 DEF IInv, ValuesOK, PoolOK, TaskSlot
<1>5. BlockOK'
  <2> SUFFICES ASSUME ~ starved
               PROVE  /\ \A d \in Client :
                           IF tx'[d].open
                             THEN \E s \in TaskRequest :
                                    taskReq'[s].on = d /\ taskReq'[s].pc \in Block
                             ELSE tx'[d] = NoTx
                      /\ \A s \in TaskRequest : taskReq'[s].on # None =>
                           /\ taskReq'[s].pc \in Block => tx'[taskReq'[s].on].open
                           /\ taskReq'[s].pc = "commit" =>
                                \E i \in 1..Len(tx'[taskReq'[s].on].rows) :
                                  tx'[taskReq'[s].on].rows[i].by = s
    BY <1>1 DEF BlockOK
  <2>1. taskReq'[r].pc = slot.pc
    BY <1>1 DEF Alike
  <2>2. ASSUME NEW d \in Client
        PROVE  IF tx'[d].open
                 THEN \E s \in TaskRequest : taskReq'[s].on = d /\ taskReq'[s].pc \in Block
                 ELSE tx'[d] = NoTx
    <3>1. CASE d = c
      BY <1>4, <2>1, <3>1, NoTxType DEF Block
    <3>2. CASE d # c
      <4>1. IF tx[d].open
              THEN \E s \in TaskRequest : taskReq[s].on = d /\ taskReq[s].pc \in Block
              ELSE tx[d] = NoTx
        BY DEF IInv, BlockOK
      <4> QED
        BY <1>4, <3>2, <4>1
    <3> QED
      BY <3>1, <3>2
  <2>3. ASSUME NEW s \in TaskRequest, taskReq'[s].on # None
        PROVE  /\ taskReq'[s].pc \in Block => tx'[taskReq'[s].on].open
               /\ taskReq'[s].pc = "commit" =>
                    \E i \in 1..Len(tx'[taskReq'[s].on].rows) :
                      tx'[taskReq'[s].on].rows[i].by = s
    <3>1. CASE s = r
      BY <1>4, <2>1, <2>3, <3>1
    <3>2. CASE s # r
      <4>1. /\ taskReq'[s] = taskReq[s] /\ taskReq[s].on \in Client \ {c}
            /\ tx'[taskReq[s].on] = tx[taskReq[s].on]
        BY <1>4, <2>3, <3>2
      <4> QED
        BY <2>3, <4>1 DEF IInv, BlockOK
    <3> QED
      BY <3>1, <3>2
  <2> QED
    BY <2>2, <2>3
<1>6. SoloOK'
  <2> SUFFICES ASSUME ~ overlapped
               PROVE  /\ \A s, t \in TaskRequest :
                           Flying(taskReq'[s]) /\ Flying(taskReq'[t]) => s = t
                      /\ Client # {} => ~ starved'
                      /\ Explains(history', status')
                      /\ \A s \in TaskRequest : taskReq'[s].on # None =>
                           Current(s, taskReq'[s], tx'[taskReq'[s].on], status')
    BY DEF SoloOK
  <2>1. ~ starved
    BY DEF IInv, SoloOK
  <2>2. Flying(taskReq[r])
    BY DEF IInv, PoolOK
  <2>3. \A s \in TaskRequest \ {r} : ~ Flying(taskReq'[s])
    BY <1>4, <2>1, <2>2 DEF IInv, SoloOK
  <2>4. ASSUME NEW s \in TaskRequest, taskReq'[s].on # None
        PROVE  Current(s, taskReq'[s], tx'[taskReq'[s].on], status')
    <3>1. s = r
      BY <1>1, <2>3, <2>4 DEF PoolOK
    <3>2. taskReq'[r].on = c /\ Current(r, slot, tx'[c], status')
      BY <1>4, <2>1, <2>4, <3>1
    <3>3. Current(r, taskReq'[r], tx'[c], status')
      BY <1>1, <3>2 DEF Current, Alike
    <3> QED
      BY <3>1, <3>2, <3>3
  <2> QED
    BY <1>1, <2>1, <2>3, <2>4
<1>7. OverrideOK'
  BY <1>1 DEF IInv, OverrideOK, Alike
<1> QED
  BY <1>1, <1>2, <1>3, <1>5, <1>6, <1>7 DEF IInv

-----------------------------------------------------------------------------
(* The statements. *)

Pcs == {"look", "validate", "begin", "update", "history", "commit", "rollback", "rewrite",
        "over"}

LEMMA GotoSlot ==
  ASSUME PoolOK, NEW r \in TaskRequest, NEW pc \in Pcs
  PROVE  LET g == Goto(pc, r) IN
         /\ g \in TaskSlot /\ g.pc = pc /\ g.action = taskReq[r].action
         /\ g.override = taskReq[r].override /\ g.from = taskReq[r].from
         /\ g.to = taskReq[r].to /\ g.rewrite = taskReq[r].rewrite
BY DEF PoolOK, Goto, TaskSlot, Pcs

LEMMA SlotType ==
  ASSUME PoolOK, NEW r \in TaskRequest
  PROVE  /\ taskReq[r] \in TaskSlot /\ taskReq[r].from \in TaskStatus
         /\ taskReq[r].to \in TaskStatus /\ taskReq[r].rewrite \in BOOLEAN
BY DEF PoolOK, TaskSlot

\* What the invariant says of the request whose statement runs.
LEMMA Running ==
  ASSUME IInv, NEW r \in TaskRequest, NEW c \in Client, taskReq[r].on = c
  PROVE  /\ ~ overlapped => ~ starved
         /\ ~ overlapped => Explains(history, status) /\ Current(r, taskReq[r], tx[c], status)
         /\ ~ starved /\ taskReq[r].pc \in Block => tx[c].open
         /\ ~ starved /\ taskReq[r].pc \notin Block => tx[c] = NoTx
         /\ ~ starved /\ taskReq[r].pc = "commit" =>
              \E i \in 1..Len(tx[c].rows) : tx[c].rows[i].by = r
         /\ ~ starved => AnsweredIsRecorded
         /\ tx[c] \in Transaction /\ tx \in [Client -> Transaction]
         /\ status \in TaskStatus /\ history \in Seq(HistoryRow)
         /\ answered \subseteq TaskRequest
<1>1. c # None /\ Client # {}
  BY TaskAssumption
<1>2. ~ starved /\ taskReq[r].pc \notin Block => tx[c] = NoTx
  BY OutsideBlock
<1>3. /\ ~ overlapped => ~ starved
      /\ ~ overlapped => Explains(history, status) /\ Current(r, taskReq[r], tx[c], status)
  BY <1>1 DEF IInv, SoloOK
<1>4. /\ ~ starved /\ taskReq[r].pc \in Block => tx[c].open
      /\ ~ starved /\ taskReq[r].pc = "commit" =>
           \E i \in 1..Len(tx[c].rows) : tx[c].rows[i].by = r
      /\ ~ starved => AnsweredIsRecorded
  BY <1>1 DEF IInv, BlockOK
<1> QED
  BY <1>2, <1>3, <1>4 DEF IInv, TxOK, ValuesOK

LEMMA PatchLookIInv ==
  ASSUME IInv, NEW r \in TaskRequest, NEW c \in Client, PatchLook(r, c)
  PROVE  IInv'
<1> DEFINE pc == IF taskReq[r].to \in {Seen(c), Blank} THEN "rewrite" ELSE "validate"
           slot == Goto(pc, r)
<1>1. /\ taskReq[r].on = c /\ taskReq[r].pc = "look" /\ Return(r, c, slot)
      /\ UNCHANGED <<status, history, tx, answered, overlapped, overridden>>
  BY DEF PatchLook, TaskAt
<1>2. /\ slot \in TaskSlot /\ slot.pc = pc /\ slot.to = taskReq[r].to
      /\ slot.override = taskReq[r].override /\ pc \in {"rewrite", "validate"}
  BY GotoSlot DEF IInv, Pcs
<1>3. ~ starved => tx[c] = NoTx /\ AnsweredIsRecorded
  BY <1>1, Running DEF Block
<1>4. ~ starved => Seen(c) = status
  BY <1>3, NoTxType DEF Seen
<1>5. ~ starved /\ pc = "rewrite" => slot.to \in {status, Blank}
  BY <1>2, <1>4
<1> HIDE DEF pc, slot
<1>6. ~ starved => Current(r, slot, tx'[c], status')
  BY <1>1, <1>2, <1>5 DEF Current, Block
<1>7. ~ overlapped => Explains(history', status')
  BY <1>1, Running
<1>8. AnsweredIsRecorded => AnsweredIsRecorded'
  BY <1>1 DEF AnsweredIsRecorded, Recorded
<1>9. slot.pc # "new" /\ slot.pc \notin Block
  BY <1>2 DEF Block
<1> QED
  BY <1>1, <1>2, <1>3, <1>6, <1>7, <1>8, <1>9, Running, StatementIInv DEF Block

LEMMA ValidateIInv ==
  ASSUME IInv, NEW r \in TaskRequest, NEW c \in Client, Validate(r, c)
  PROVE  IInv'
<1> DEFINE ok == Valid(taskReq[r].action, Seen(c), taskReq[r].override)
           slot == IF ok THEN [taskReq[r] EXCEPT !.pc = "begin", !.from = Seen(c)]
                   ELSE Goto("over", r)
<1>1. /\ taskReq[r].on = c /\ taskReq[r].pc = "validate" /\ Return(r, c, slot)
      /\ UNCHANGED <<status, history, tx, answered, overlapped, overridden>>
  BY DEF Validate, TaskAt
<1>2. Seen(c) \in TaskStatus
  BY <1>1, Running DEF Seen, Transaction
<1>3. /\ slot \in TaskSlot /\ slot.override = taskReq[r].override
      /\ slot.pc = "over" \/ (slot.pc = "begin" /\ ok /\ slot.from = Seen(c)
                                /\ slot.action = taskReq[r].action)
  <2>1. CASE ok
    BY <1>2, <2>1, SlotType DEF IInv, TaskSlot
  <2>2. CASE ~ ok
    BY <2>2, GotoSlot DEF IInv, Pcs
  <2> QED
    BY <2>1, <2>2
<1>4. ~ starved => tx[c] = NoTx /\ AnsweredIsRecorded
  BY <1>1, Running DEF Block
<1>5. ~ starved => Seen(c) = status
  BY <1>4, NoTxType DEF Seen
<1>6. ~ starved => Current(r, slot, tx'[c], status')
  <2>1. ~ starved /\ slot.pc = "begin" =>
          slot.from = status /\ Valid(slot.action, status, slot.override)
    BY <1>3, <1>5
  <2> HIDE DEF slot, ok
  <2> QED
    BY <1>1, <1>3, <2>1 DEF Current, Block
<1> HIDE DEF slot, ok
<1>7. ~ overlapped => Explains(history', status')
  BY <1>1, Running
<1>8. AnsweredIsRecorded => AnsweredIsRecorded'
  BY <1>1 DEF AnsweredIsRecorded, Recorded
<1>9. slot.pc # "new" /\ slot.pc \notin Block
  BY <1>3 DEF Block
<1> QED
  BY <1>1, <1>3, <1>4, <1>6, <1>7, <1>8, <1>9, Running, StatementIInv DEF Block

LEMMA BeginIInv ==
  ASSUME IInv, NEW r \in TaskRequest, NEW c \in Client, BeginTx(r, c)
  PROVE  IInv'
<1> DEFINE slot == Goto("update", r)
           begun == [tx[c] EXCEPT !.open = TRUE]
<1>1. /\ taskReq[r].on = c /\ taskReq[r].pc = "begin" /\ Return(r, c, slot)
      /\ tx' = [tx EXCEPT ![c] = begun]
      /\ UNCHANGED <<status, history, answered, overlapped, overridden>>
  BY DEF BeginTx, TaskAt
<1>2. /\ slot \in TaskSlot /\ slot.pc = "update" /\ slot.from = taskReq[r].from
      /\ slot.override = taskReq[r].override /\ slot.action = taskReq[r].action
  BY GotoSlot DEF IInv, Pcs
<1>3. ~ starved => tx[c] = NoTx /\ AnsweredIsRecorded
  BY <1>1, Running DEF Block
<1>4. /\ begun \in Transaction /\ begun.open
      /\ begun.status = tx[c].status /\ begun.rows = tx[c].rows
  <2>1. tx[c] \in Transaction
    BY <1>1, Running
  <2> QED
    BY <2>1 DEF Transaction
<1> HIDE DEF slot, begun
<1>5. /\ tx' \in [Client -> Transaction] /\ tx'[c] = begun
      /\ \A d \in Client \ {c} : tx'[d] = tx[d]
  BY <1>1, <1>4, Running
<1>6. ~ starved /\ ~ overlapped =>
        Explains(history', status') /\ Current(r, slot, tx'[c], status')
  <2>1. ~ overlapped => Explains(history, status) /\ Current(r, taskReq[r], tx[c], status)
    BY <1>1, Running
  <2>2. ~ starved => begun.status = None /\ begun.rows = << >>
    BY <1>3, <1>4, NoTxType
  <2> QED
    BY <1>1, <1>2, <1>5, <2>1, <2>2 DEF Current, Block
<1>8. AnsweredIsRecorded => AnsweredIsRecorded'
  BY <1>1 DEF AnsweredIsRecorded, Recorded
<1>9. slot.pc # "new" /\ slot.pc \in Block /\ slot.pc # "commit"
  BY <1>2 DEF Block
<1>10. ~ starved =>
         /\ IF slot.pc \in Block THEN tx'[c].open ELSE tx'[c] = NoTx
         /\ slot.pc = "commit" => \E i \in 1..Len(tx'[c].rows) : tx'[c].rows[i].by = r
         /\ AnsweredIsRecorded'
  BY <1>3, <1>4, <1>5, <1>8, <1>9
<1>11. /\ status' \in TaskStatus /\ history' \in Seq(HistoryRow)
       /\ answered' \subseteq TaskRequest
  BY <1>1, Running
<1>12. /\ taskReq[r].on = c /\ Return(r, c, slot)
       /\ UNCHANGED overlapped /\ UNCHANGED overridden
  BY <1>1
<1> QED
  BY <1>2, <1>5, <1>6, <1>9, <1>10, <1>11, <1>12, StatementIInv

LEMMA UpdateIInv ==
  ASSUME IInv, NEW r \in TaskRequest, NEW c \in Client, UpdateTask(r, c)
  PROVE  IInv'
<1> DEFINE slot == Goto("history", r)
           to == taskReq[r].to
           set == [tx[c] EXCEPT !.status = to]
<1>1. /\ taskReq[r].on = c /\ taskReq[r].pc = "update" /\ Return(r, c, slot)
      /\ IF tx[c].open THEN tx' = [tx EXCEPT ![c] = set] /\ UNCHANGED status
         ELSE status' = to /\ UNCHANGED tx
      /\ UNCHANGED <<history, answered, overlapped, overridden>>
  BY DEF UpdateTask, TaskAt, WriteStatus
<1>2. /\ slot \in TaskSlot /\ slot.pc = "history" /\ slot.from = taskReq[r].from
      /\ slot.override = taskReq[r].override /\ slot.action = taskReq[r].action
      /\ slot.to = to /\ to \in TaskStatus
  BY GotoSlot, SlotType DEF IInv, Pcs
<1>3. ~ starved => tx[c].open /\ AnsweredIsRecorded
  BY <1>1, Running DEF Block
<1>4. /\ set \in Transaction /\ set.open = tx[c].open
      /\ set.status = to /\ set.rows = tx[c].rows
  BY <1>1, <1>2, Running DEF Transaction
<1> HIDE DEF slot, set, to
<1>5. /\ tx' \in [Client -> Transaction]
      /\ tx[c].open => tx'[c] = set
      /\ \A d \in Client \ {c} : tx'[d] = tx[d]
  BY <1>1, <1>4, Running
<1>6. ~ starved /\ ~ overlapped =>
        Explains(history', status') /\ Current(r, slot, tx'[c], status')
  <2>1. ~ overlapped => Explains(history, status) /\ Current(r, taskReq[r], tx[c], status)
    BY <1>1, Running
  <2> QED
    BY <1>1, <1>2, <1>3, <1>4, <1>5, <2>1 DEF Current, Block
<1>8. AnsweredIsRecorded => AnsweredIsRecorded'
  BY <1>1 DEF AnsweredIsRecorded, Recorded
<1>9. slot.pc # "new" /\ slot.pc \in Block /\ slot.pc # "commit"
  BY <1>2 DEF Block
<1>10. ~ starved =>
         /\ IF slot.pc \in Block THEN tx'[c].open ELSE tx'[c] = NoTx
         /\ slot.pc = "commit" => \E i \in 1..Len(tx'[c].rows) : tx'[c].rows[i].by = r
         /\ AnsweredIsRecorded'
  BY <1>3, <1>4, <1>5, <1>8, <1>9
<1>11. /\ status' \in TaskStatus /\ history' \in Seq(HistoryRow)
       /\ answered' \subseteq TaskRequest
  BY <1>1, <1>2, Running
<1>12. /\ taskReq[r].on = c /\ Return(r, c, slot)
       /\ UNCHANGED overlapped /\ UNCHANGED overridden
  BY <1>1
<1> QED
  BY <1>2, <1>5, <1>6, <1>9, <1>10, <1>11, <1>12, StatementIInv

LEMMA RecordIInv ==
  ASSUME IInv, NEW r \in TaskRequest, NEW c \in Client, RecordHistory(r, c)
  PROVE  IInv'
<1> DEFINE slot == Goto("commit", r)
           row == [by |-> r, from |-> taskReq[r].from, to |-> taskReq[r].to]
           kept == [tx[c] EXCEPT !.rows = Append(@, row)]
<1>1. /\ taskReq[r].on = c /\ taskReq[r].pc = "history" /\ Return(r, c, slot)
      /\ IF tx[c].open THEN tx' = [tx EXCEPT ![c] = kept] /\ UNCHANGED history
         ELSE history' = Append(history, row) /\ UNCHANGED tx
      /\ UNCHANGED <<status, answered, overlapped, overridden>>
  BY DEF RecordHistory, TaskAt, WriteRow
<1>2. /\ slot \in TaskSlot /\ slot.pc = "commit" /\ slot.from = taskReq[r].from
      /\ slot.override = taskReq[r].override /\ slot.action = taskReq[r].action
      /\ slot.to = taskReq[r].to
  BY GotoSlot DEF IInv, Pcs
<1>3. ~ starved => tx[c].open /\ AnsweredIsRecorded
  BY <1>1, Running DEF Block
<1>4. row \in HistoryRow /\ row.by = r
  BY SlotType DEF IInv, HistoryRow
<1>5. /\ tx[c].rows \in Seq(HistoryRow)
      /\ Append(tx[c].rows, row) \in Seq(HistoryRow)
      /\ Len(Append(tx[c].rows, row)) \in Nat \ {0}
      /\ Append(tx[c].rows, row)[Len(Append(tx[c].rows, row))] = row
      /\ Append(history, row) \in Seq(HistoryRow)
  <2>1. tx[c] \in Transaction /\ history \in Seq(HistoryRow)
    BY <1>1, Running
  <2>2. tx[c].rows \in Seq(HistoryRow)
    BY <2>1 DEF Transaction
  <2> HIDE DEF row
  <2>3. Len(tx[c].rows) \in Nat
    BY <2>2, LenProperties
  <2> QED
    BY <1>4, <2>1, <2>2, <2>3, AppendProperties
<1>6. /\ kept \in Transaction /\ kept.open = tx[c].open
      /\ kept.status = tx[c].status /\ kept.rows = Append(tx[c].rows, row)
  <2>1. tx[c] \in Transaction
    BY <1>1, Running
  <2> HIDE DEF row
  <2> QED
    BY <1>5, <2>1 DEF Transaction
<1>7. ~ starved /\ ~ overlapped =>
        Explains(history', status') /\ Current(r, slot, kept, status')
  <2>1. ~ overlapped => Explains(history, status) /\ Current(r, taskReq[r], tx[c], status)
    BY <1>1, Running
  <2>2. tx[c].rows = << >> => Append(tx[c].rows, row) = << row >>
    OBVIOUS
  <2>3. ~ starved /\ ~ overlapped =>
          /\ taskReq[r].from = status
          /\ Valid(taskReq[r].action, status, taskReq[r].override)
          /\ tx[c].status = taskReq[r].to /\ tx[c].rows = << >>
    BY <1>1, <2>1 DEF Current, Block
  <2>4. ~ starved /\ ~ overlapped =>
          kept.rows = << [by |-> r, from |-> status, to |-> slot.to] >>
    BY <1>2, <1>6, <2>2, <2>3
  <2> HIDE DEF slot, kept, row
  <2> QED
    BY <1>1, <1>2, <1>3, <1>6, <2>1, <2>3, <2>4 DEF Current, Block
<1> HIDE DEF slot, kept, row
<1>8. /\ tx' \in [Client -> Transaction]
      /\ tx[c].open => tx'[c] = kept
      /\ \A d \in Client \ {c} : tx'[d] = tx[d]
  BY <1>1, <1>6, Running
<1>9. ~ starved =>
        /\ IF slot.pc \in Block THEN tx'[c].open ELSE tx'[c] = NoTx
        /\ slot.pc = "commit" => \E i \in 1..Len(tx'[c].rows) : tx'[c].rows[i].by = r
        /\ AnsweredIsRecorded'
  <2>1. ~ starved => AnsweredIsRecorded'
    BY <1>1, <1>3 DEF AnsweredIsRecorded, Recorded
  <2>2. \E i \in 1..Len(kept.rows) : kept.rows[i].by = r
    BY <1>4, <1>5, <1>6
  <2> QED
    BY <1>2, <1>3, <1>6, <1>8, <2>1, <2>2 DEF Block
<1>10. /\ status' \in TaskStatus /\ history' \in Seq(HistoryRow)
       /\ answered' \subseteq TaskRequest
  <2>1. status \in TaskStatus /\ history \in Seq(HistoryRow) /\ answered \subseteq TaskRequest
    BY <1>1, Running
  <2> QED
    BY <1>1, <1>5, <2>1
<1>11. ~ starved /\ ~ overlapped =>
         Explains(history', status') /\ Current(r, slot, tx'[c], status')
  BY <1>3, <1>7, <1>8
<1>12. /\ taskReq[r].on = c /\ Return(r, c, slot) /\ slot.pc # "new"
       /\ UNCHANGED overlapped /\ UNCHANGED overridden
  BY <1>1, <1>2
<1> QED
  BY <1>2, <1>8, <1>9, <1>10, <1>11, <1>12, StatementIInv

\* What a history recorded stays recorded.
LEMMA ConcatRecorded ==
  ASSUME NEW h \in Seq(HistoryRow), NEW t \in Seq(HistoryRow)
  PROVE  /\ h \o t \in Seq(HistoryRow)
         /\ \A i \in 1..Len(h) : \E j \in 1..Len(h \o t) : (h \o t)[j].by = h[i].by
         /\ \A i \in 1..Len(t) : \E j \in 1..Len(h \o t) : (h \o t)[j].by = t[i].by
<1>1. Len(h) \in Nat /\ Len(t) \in Nat
  BY LenProperties
<1>2. /\ h \o t \in Seq(HistoryRow) /\ Len(h \o t) = Len(h) + Len(t)
      /\ \A i \in 1..(Len(h) + Len(t)) :
           (h \o t)[i] = IF i <= Len(h) THEN h[i] ELSE t[i - Len(h)]
  BY ConcatProperties
<1>3. ASSUME NEW i \in 1..Len(h) PROVE \E j \in 1..Len(h \o t) : (h \o t)[j].by = h[i].by
  <2>1. i \in 1..Len(h \o t) /\ (h \o t)[i] = h[i]
    BY <1>1, <1>2
  <2> QED
    BY <2>1
<1>4. ASSUME NEW i \in 1..Len(t) PROVE \E j \in 1..Len(h \o t) : (h \o t)[j].by = t[i].by
  <2>1. Len(h) + i \in 1..Len(h \o t) /\ (Len(h) + i) - Len(h) = i /\ ~ (Len(h) + i <= Len(h))
    BY <1>1, <1>2
  <2>2. (h \o t)[Len(h) + i] = t[i]
    BY <1>2, <2>1
  <2> QED
    BY <2>1, <2>2
<1> QED
  BY <1>2, <1>3, <1>4

\* One more row, from the status that was there, explains the new status.
LEMMA ExplainsOn ==
  ASSUME NEW h \in Seq(HistoryRow), NEW s, NEW row \in HistoryRow,
         Explains(h, s), row.from = s
  PROVE  Explains(h \o << row >>, row.to)
<1> DEFINE n == Len(h)
           g == h \o << row >>
<1>1. g = Append(h, row)
  BY AppendIsConcat
<1>2. n \in Nat /\ Len(g) = n + 1 /\ g[n + 1] = row /\ \A i \in 1..n : g[i] = h[i]
  BY <1>1, AppendProperties, LenProperties
<1>3. n = 0 => h = << >>
  BY EmptySeq
<1> HIDE DEF g
<1>4. ASSUME NEW i \in 1..(Len(g) - 1) PROVE g[i + 1].from \in {g[i].to, Blank}
  <2>1. CASE i = n
    <3>1. h # << >> /\ g[i] = h[n] /\ g[i + 1] = row
      BY <1>2, <1>4, <2>1, EmptySeq
    <3> QED
      BY <3>1 DEF Explains
  <2>2. CASE i # n
    <3>1. i \in 1..(n - 1) /\ g[i] = h[i] /\ g[i + 1] = h[i + 1]
      BY <1>2, <1>4, <2>2
    <3> QED
      BY <3>1 DEF Explains
  <2> QED
    BY <2>1, <2>2
<1>5. g[Len(g)].to = row.to
  BY <1>2
<1> QED
  BY <1>4, <1>5 DEF Explains, g

LEMMA CommitIInv ==
  ASSUME IInv, NEW r \in TaskRequest, NEW c \in Client, CommitTx(r, c)
  PROVE  IInv'
<1> USE TaskAssumption
<1> DEFINE pc == IF taskReq[r].rewrite THEN "rewrite" ELSE "over"
           slot == Goto(pc, r)
           rows == tx[c].rows
<1>1. /\ taskReq[r].on = c /\ taskReq[r].pc = "commit" /\ Return(r, c, slot)
      /\ tx' = [tx EXCEPT ![c] = NoTx]
      /\ status' = Seen(c) /\ history' = history \o rows
      /\ answered' = answered \union {r}
      /\ UNCHANGED <<overlapped, overridden>>
  BY DEF CommitTx, TaskAt, CommitOn, Answer
<1>2. /\ slot \in TaskSlot /\ slot.pc = pc /\ slot.to = taskReq[r].to
      /\ slot.override = taskReq[r].override /\ pc \in {"rewrite", "over"}
      /\ taskReq[r].to \in TaskStatus
  BY GotoSlot, SlotType DEF IInv, Pcs
<1>3. tx[c] \in Transaction /\ history \in Seq(HistoryRow) /\ status \in TaskStatus
      /\ answered \subseteq TaskRequest /\ tx \in [Client -> Transaction]
  BY <1>1, Running
<1>4. rows \in Seq(HistoryRow) /\ tx[c].status \in TaskStatus \union {None}
  BY <1>3 DEF Transaction
<1> HIDE DEF pc, slot, rows
<1>5. status' \in TaskStatus /\ history' \in Seq(HistoryRow) /\ answered' \subseteq TaskRequest
  BY <1>1, <1>3, <1>4, ConcatRecorded DEF Seen
<1>6. tx' \in [Client -> Transaction] /\ tx'[c] = NoTx /\ \A d \in Client \ {c} : tx'[d] = tx[d]
  BY <1>1, <1>3, NoTxType
<1>7. ~ starved => AnsweredIsRecorded'
  <2>0. /\ history' = history \o rows
        /\ \A i \in 1..Len(history) :
             \E j \in 1..Len(history \o rows) : (history \o rows)[j].by = history[i].by
        /\ \A i \in 1..Len(rows) :
             \E j \in 1..Len(history \o rows) : (history \o rows)[j].by = rows[i].by
    BY <1>1, <1>3, <1>4, ConcatRecorded
  <2> SUFFICES ASSUME ~ starved, NEW a \in answered' PROVE \E j \in 1..Len(history') :
                                                            history'[j].by = a
    BY DEF AnsweredIsRecorded, Recorded
  <2>1. CASE a \in answered
    <3>1. AnsweredIsRecorded
      BY <1>1, Running
    <3>2. PICK i \in 1..Len(history) : history[i].by = a
      BY <2>1, <3>1 DEF AnsweredIsRecorded, Recorded
    <3> QED
      BY <2>0, <3>2
  <2>2. CASE a = r
    <3>1. PICK i \in 1..Len(rows) : rows[i].by = r
      BY <1>1, Running DEF rows
    <3> QED
      BY <2>0, <2>2, <3>1
  <2> QED
    BY <1>1, <2>1, <2>2
<1>8. ~ starved /\ ~ overlapped =>
        Explains(history', status') /\ Current(r, slot, tx'[c], status')
  <2> SUFFICES ASSUME ~ starved, ~ overlapped
               PROVE  Explains(history', status') /\ Current(r, slot, tx'[c], status')
    OBVIOUS
  <2> DEFINE row == [by |-> r, from |-> status, to |-> taskReq[r].to]
  <2>1. Explains(history, status) /\ Current(r, taskReq[r], tx[c], status)
    BY <1>1, Running
  <2>2. tx[c].status = taskReq[r].to /\ rows = << row >>
    BY <1>1, <2>1 DEF Current, rows
  <2>3. status' = taskReq[r].to
    BY <1>1, <1>2, <2>2 DEF Seen
  <2>4. row \in HistoryRow /\ row.from = status /\ row.to = taskReq[r].to
    BY <1>2, <1>3 DEF HistoryRow
  <2> HIDE DEF row
  <2>5. Explains(history \o << row >>, row.to)
    BY <1>3, <2>1, <2>4, ExplainsOn
  <2>6. Explains(history', status')
    BY <1>1, <2>2, <2>3, <2>4, <2>5
  <2>7. Current(r, slot, tx'[c], status')
    BY <1>2, <2>3 DEF Current, Block
  <2> QED
    BY <2>6, <2>7
<1>9. slot.pc # "new" /\ slot.pc \notin Block
  BY <1>2 DEF Block
<1>10. ~ starved =>
         /\ IF slot.pc \in Block THEN tx'[c].open ELSE tx'[c] = NoTx
         /\ slot.pc = "commit" => \E i \in 1..Len(tx'[c].rows) : tx'[c].rows[i].by = r
         /\ AnsweredIsRecorded'
  BY <1>6, <1>7, <1>9 DEF Block
<1>11. /\ taskReq[r].on = c /\ Return(r, c, slot)
       /\ UNCHANGED overlapped /\ UNCHANGED overridden
  BY <1>1
<1> QED
  BY <1>2, <1>5, <1>6, <1>8, <1>9, <1>10, <1>11, StatementIInv

LEMMA RewriteIInv ==
  ASSUME IInv, NEW r \in TaskRequest, NEW c \in Client, RewriteStatus(r, c)
  PROVE  IInv'
<1> DEFINE slot == Goto("over", r)
           to == taskReq[r].to
           set == [tx[c] EXCEPT !.status = to]
<1>1. /\ taskReq[r].on = c /\ taskReq[r].pc = "rewrite" /\ Return(r, c, slot)
      /\ IF tx[c].open THEN tx' = [tx EXCEPT ![c] = set] /\ UNCHANGED status
         ELSE status' = to /\ UNCHANGED tx
      /\ UNCHANGED <<history, answered, overlapped, overridden>>
  BY DEF RewriteStatus, TaskAt, WriteStatus
<1>2. /\ slot \in TaskSlot /\ slot.pc = "over"
      /\ slot.override = taskReq[r].override /\ to \in TaskStatus
  BY GotoSlot, SlotType DEF IInv, Pcs
<1>3. /\ tx[c] \in Transaction /\ history \in Seq(HistoryRow) /\ status \in TaskStatus
      /\ answered \subseteq TaskRequest /\ tx \in [Client -> Transaction]
  BY <1>1, Running
<1>4. set \in Transaction
  BY <1>2, <1>3 DEF Transaction
<1>5. ~ starved => tx[c] = NoTx /\ AnsweredIsRecorded
  BY <1>1, Running DEF Block
<1>6. ~ starved => UNCHANGED tx /\ status' = to
  BY <1>1, <1>5, NoTxType
<1> HIDE DEF slot, set, to
<1>7. /\ tx' \in [Client -> Transaction]
      /\ \A d \in Client \ {c} : tx'[d] = tx[d]
  BY <1>1, <1>3, <1>4
<1>8. ~ starved /\ ~ overlapped =>
        Explains(history', status') /\ Current(r, slot, tx'[c], status')
  <2>1. ~ overlapped => Explains(history, status) /\ Current(r, taskReq[r], tx[c], status)
    BY <1>1, Running
  <2>2. ~ overlapped => to \in {status, Blank}
    BY <1>1, <2>1 DEF Current, to
  <2>3. Current(r, slot, tx'[c], status')
    BY <1>2 DEF Current, Block
  <2>4. Explains(history, status) => Explains(history, Blank)
    BY DEF Explains
  <2> QED
    BY <1>1, <1>6, <2>1, <2>2, <2>3, <2>4
<1>9. slot.pc # "new" /\ slot.pc \notin Block
  BY <1>2 DEF Block
<1>10. ~ starved =>
         /\ IF slot.pc \in Block THEN tx'[c].open ELSE tx'[c] = NoTx
         /\ slot.pc = "commit" => \E i \in 1..Len(tx'[c].rows) : tx'[c].rows[i].by = r
         /\ AnsweredIsRecorded'
  <2>1. AnsweredIsRecorded => AnsweredIsRecorded'
    BY <1>1 DEF AnsweredIsRecorded, Recorded
  <2> QED
    BY <1>5, <1>6, <1>9, <2>1 DEF Block
<1>11. status' \in TaskStatus /\ history' \in Seq(HistoryRow) /\ answered' \subseteq TaskRequest
  BY <1>1, <1>2, <1>3
<1>12. /\ taskReq[r].on = c /\ Return(r, c, slot)
       /\ UNCHANGED overlapped /\ UNCHANGED overridden
  BY <1>1
<1> QED
  BY <1>2, <1>7, <1>8, <1>9, <1>10, <1>11, <1>12, StatementIInv

LEMMA RollbackIInv ==
  ASSUME IInv, NEW r \in TaskRequest, NEW c \in Client, RollbackTx(r, c)
  PROVE  IInv'
<1> DEFINE slot == Goto("over", r)
<1>1. /\ taskReq[r].on = c /\ taskReq[r].pc = "rollback" /\ Return(r, c, slot)
      /\ tx' = [tx EXCEPT ![c] = NoTx]
      /\ UNCHANGED <<status, history, answered, overlapped, overridden>>
  BY DEF RollbackTx, TaskAt
<1>2. slot \in TaskSlot /\ slot.pc = "over" /\ slot.override = taskReq[r].override
  BY GotoSlot DEF IInv, Pcs
<1>3. /\ history \in Seq(HistoryRow) /\ status \in TaskStatus
      /\ answered \subseteq TaskRequest /\ tx \in [Client -> Transaction]
      /\ ~ starved => AnsweredIsRecorded
      /\ ~ overlapped => Explains(history, status)
  BY <1>1, Running
<1> HIDE DEF slot
<1>4. tx' \in [Client -> Transaction] /\ tx'[c] = NoTx /\ \A d \in Client \ {c} : tx'[d] = tx[d]
  BY <1>1, <1>3, NoTxType
<1>5. Current(r, slot, tx'[c], status') /\ slot.pc # "new" /\ slot.pc \notin Block
  BY <1>2 DEF Current, Block
<1>6. ~ starved =>
        /\ IF slot.pc \in Block THEN tx'[c].open ELSE tx'[c] = NoTx
        /\ slot.pc = "commit" => \E i \in 1..Len(tx'[c].rows) : tx'[c].rows[i].by = r
        /\ AnsweredIsRecorded'
  <2>1. AnsweredIsRecorded => AnsweredIsRecorded'
    BY <1>1 DEF AnsweredIsRecorded, Recorded
  <2> QED
    BY <1>3, <1>4, <1>5, <2>1 DEF Block
<1>7. /\ status' \in TaskStatus /\ history' \in Seq(HistoryRow) /\ answered' \subseteq TaskRequest
      /\ ~ overlapped => Explains(history', status')
  BY <1>1, <1>3
<1>8. /\ taskReq[r].on = c /\ Return(r, c, slot)
      /\ UNCHANGED overlapped /\ UNCHANGED overridden
  BY <1>1
<1> QED
  BY <1>2, <1>4, <1>5, <1>6, <1>7, <1>8, StatementIInv

\* Request r, outside any block, starts, goes on to its ROLLBACK, or ends: old is the
\* connection it had, if it had one.
LEMMA OutsideIInv ==
  ASSUME IInv, PoolOK', NEW r \in TaskRequest, NEW old \in Client \union {None},
         NEW slot \in TaskSlot, slot.pc \in {"look", "validate", "rollback", "over"},
         Alike(taskReq'[r], slot), slot.override => overridden',
         \A s \in TaskRequest \ {r} : taskReq'[s] = taskReq[s],
         \A d \in Client : Opened(d) /\ d # old => Opened(d)',
         taskReq[r].on = old,
         tx' \in [Client -> Transaction], \A d \in Client \ {old} : tx'[d] = tx[d],
         old \in Client => tx'[old] = NoTx,
         UNCHANGED <<status, history, answered>>,
         starved' \in BOOLEAN, starved => starved', queue' # << >> => starved',
         overlapped' \in BOOLEAN, overlapped => overlapped',
         overridden' \in BOOLEAN, overridden => overridden',
         ~ overlapped' => \A s \in TaskRequest \ {r} : ~ Flying(taskReq[s]),
         ~ overlapped' /\ Client # {} => ~ starved'
  PROVE  IInv'
<1> USE TaskAssumption
<1>1. ValuesOK'
  BY DEF IInv, ValuesOK
<1>2. \A s, t \in TaskRequest : taskReq[s].on # None /\ taskReq[s].on = taskReq[t].on => s = t
  BY DEF IInv, PoolOK
<1>3. \A s \in TaskRequest : taskReq[s].on \in Client \union {None}
  BY DEF IInv, PoolOK, TaskSlot
<1>4. \A s \in TaskRequest : taskReq'[s].on \in Client \union {None}
  BY DEF PoolOK, TaskSlot
<1>5. taskReq'[r].pc = slot.pc /\ slot.pc \notin Block
  BY DEF Alike, Block
<1>6. TxOK'
  <2> SUFFICES ASSUME NEW d \in Client, tx'[d].open PROVE Opened(d)'
    BY DEF TxOK
  <2>1. d # old
    BY NoTxType
  <2>2. Opened(d)
    BY <2>1 DEF IInv, TxOK
  <2> QED
    BY <2>1, <2>2
<1>7. BlockOK'
  <2> SUFFICES ASSUME ~ starved' PROVE BlockOK'
    BY DEF BlockOK
  <2>0. ~ starved
    OBVIOUS
  <2>1. ASSUME NEW d \in Client
        PROVE  IF tx'[d].open
                 THEN \E s \in TaskRequest : taskReq'[s].on = d /\ taskReq'[s].pc \in Block
                 ELSE tx'[d] = NoTx
    <3>1. CASE d = old
      BY <3>1, NoTxType
    <3>2. CASE d # old
      <4>1. IF tx[d].open
              THEN \E s \in TaskRequest : taskReq[s].on = d /\ taskReq[s].pc \in Block
              ELSE tx[d] = NoTx
        BY <2>0 DEF IInv, BlockOK
      <4>2. \A s \in TaskRequest : taskReq[s].on = d => taskReq'[s] = taskReq[s]
        BY <3>2
      <4>3. tx'[d] = tx[d]
        BY <3>2
      <4> QED
        BY <4>1, <4>2, <4>3
    <3> QED
      BY <3>1, <3>2
  <2>2. ASSUME NEW s \in TaskRequest, taskReq'[s].on # None
        PROVE  /\ taskReq'[s].pc \in Block => tx'[taskReq'[s].on].open
               /\ taskReq'[s].pc = "commit" =>
                    \E i \in 1..Len(tx'[taskReq'[s].on].rows) :
                      tx'[taskReq'[s].on].rows[i].by = s
    <3>1. CASE s = r
      BY <1>5, <3>1 DEF Block
    <3>2. CASE s # r
      <4>1. /\ taskReq'[s] = taskReq[s] /\ taskReq[s].on \in Client \ {old}
            /\ tx'[taskReq[s].on] = tx[taskReq[s].on]
        BY <1>2, <1>3, <2>2, <3>2
      <4> QED
        BY <2>0, <2>2, <4>1 DEF IInv, BlockOK
    <3> QED
      BY <3>1, <3>2
  <2>3. AnsweredIsRecorded'
    BY <2>0 DEF IInv, BlockOK, AnsweredIsRecorded, Recorded
  <2> QED
    BY <2>1, <2>2, <2>3 DEF BlockOK
<1>8. SoloOK'
  <2> SUFFICES ASSUME ~ overlapped'
               PROVE  /\ \A s, t \in TaskRequest :
                           Flying(taskReq'[s]) /\ Flying(taskReq'[t]) => s = t
                      /\ Client # {} => ~ starved'
                      /\ Explains(history', status')
                      /\ \A s \in TaskRequest : taskReq'[s].on # None =>
                           Current(s, taskReq'[s], tx'[taskReq'[s].on], status')
    BY DEF SoloOK
  <2>1. \A s \in TaskRequest \ {r} : ~ Flying(taskReq'[s])
    BY DEF Flying
  <2>2. Explains(history', status')
    BY DEF IInv, SoloOK
  <2>3. ASSUME NEW s \in TaskRequest, taskReq'[s].on # None
        PROVE  Current(s, taskReq'[s], tx'[taskReq'[s].on], status')
    <3>1. s = r
      BY <2>1, <2>3 DEF PoolOK
    <3> QED
      BY <1>5, <3>1 DEF Current, Block
  <2> QED
    BY <2>1, <2>2, <2>3
<1>9. OverrideOK'
  <2> SUFFICES ASSUME NEW s \in TaskRequest, taskReq'[s].override PROVE overridden'
    BY DEF OverrideOK
  <2> QED
    BY DEF Alike, IInv, OverrideOK
<1> QED
  BY <1>1, <1>6, <1>7, <1>8, <1>9 DEF IInv

LEMMA StartIInv ==
  ASSUME IInv, NEW r \in TaskRequest, NEW slot \in TaskSlot, slot.pc \in {"look", "validate"},
         StartRequest(r, slot)
  PROVE  IInv'
<1> USE TaskAssumption
<1>1. /\ taskReq[r].pc = "new" /\ Issue(r, slot)
      /\ overlapped' = (overlapped \/ InFlight # {})
      /\ overridden' = (overridden \/ slot.override)
      /\ UNCHANGED <<status, history, tx, answered>>
  BY DEF StartRequest
<1>2. taskReq[r].on = None /\ r \notin Elems(queue) /\ Flying(slot)
  BY <1>1 DEF IInv, PoolOK, Flying
<1>3. /\ PoolOK'
      /\ \A d \in Client : Opened(d) /\ taskReq[r].on # d => Opened(d)'
      /\ Alike(taskReq'[r], slot)
      /\ \A s \in TaskRequest \ {r} : taskReq'[s] = taskReq[s]
      /\ starved => starved'
      /\ ~ starved' => UNCHANGED <<starved, queue>> /\ taskReq'[r].on \in Client
      /\ Client \ InUse(r) # {} => UNCHANGED <<starved, queue>>
  BY <1>1, <1>2, IssueKeepsPool DEF IInv
<1>4. /\ tx \in [Client -> Transaction]
      /\ starved \in BOOLEAN /\ overlapped \in BOOLEAN /\ overridden \in BOOLEAN
      /\ queue # << >> => starved
  BY DEF IInv, TxOK, ValuesOK
<1>5. ~ overlapped' => \A s \in TaskRequest \ {r} : ~ Flying(taskReq[s])
  BY <1>1 DEF InFlight, Flying
<1>6. ~ overlapped' /\ Client # {} => ~ starved'
  <2> SUFFICES ASSUME ~ overlapped', Client # {} PROVE ~ starved'
    OBVIOUS
  <2>1. ~ starved
    BY <1>1 DEF IInv, SoloOK
  <2>2. InUse(r) = {}
    BY <1>5 DEF InUse, Served, IInv, PoolOK
  <2> QED
    BY <1>3, <2>1, <2>2
<1>7. starved' \in BOOLEAN /\ (queue' # << >> => starved')
  <2>1. starved' \in BOOLEAN
    BY <1>1, <1>4 DEF Issue
  <2> QED
    BY <1>3, <1>4, <2>1
<1>8. overlapped' \in BOOLEAN /\ overridden' \in BOOLEAN /\ (overlapped => overlapped')
      /\ (overridden => overridden') /\ (slot.override => overridden')
  BY <1>1, <1>4 DEF TaskSlot
<1>9. /\ tx' \in [Client -> Transaction] /\ \A d \in Client \ {None} : tx'[d] = tx[d]
      /\ None \in Client => tx'[None] = NoTx
      /\ None \in Client \union {None}
      /\ \A d \in Client : Opened(d) /\ d # None => Opened(d)'
      /\ UNCHANGED <<status, history, answered>>
  BY <1>1, <1>2, <1>3, <1>4
<1> QED
  BY <1>2, <1>3, <1>5, <1>6, <1>7, <1>8, <1>9, OutsideIInv

LEMMA BlockFailsIInv ==
  ASSUME IInv, NEW r \in TaskRequest, NEW c \in Client, BlockFails(r, c)
  PROVE  IInv'
<1> USE TaskAssumption
<1> DEFINE slot == Goto("rollback", r)
<1>1. /\ taskReq[r].on = c /\ tx' = [tx EXCEPT ![c] = NoTx]
      /\ IF queue = << >> THEN Issue(r, slot) ELSE Return(r, c, slot)
      /\ UNCHANGED <<status, history, answered, overlapped, overridden>>
  BY DEF BlockFails
<1>2. /\ slot \in TaskSlot /\ slot.pc = "rollback" /\ slot.override = taskReq[r].override
      /\ Flying(slot) /\ slot.pc # "new" /\ slot.pc \notin Block
  BY GotoSlot DEF IInv, Pcs, Flying, Block
<1>3. /\ status \in TaskStatus /\ history \in Seq(HistoryRow) /\ answered \subseteq TaskRequest
      /\ tx \in [Client -> Transaction]
      /\ starved \in BOOLEAN /\ overlapped \in BOOLEAN /\ overridden \in BOOLEAN
      /\ queue # << >> => starved
  BY DEF IInv, ValuesOK, TxOK
<1>4. tx' \in [Client -> Transaction] /\ tx'[c] = NoTx /\ \A d \in Client \ {c} : tx'[d] = tx[d]
  BY <1>1, <1>3, NoTxType
<1>5. slot.override => overridden
  BY <1>2 DEF IInv, OverrideOK
<1>6. Flying(taskReq[r]) /\ r \notin Elems(queue) /\ Client # {}
  BY <1>1 DEF IInv, PoolOK
<1>7. ~ overlapped => ~ starved /\ \A s \in TaskRequest \ {r} : ~ Flying(taskReq[s])
  BY <1>6 DEF IInv, SoloOK
<1> HIDE DEF slot
<1>8. CASE queue = << >>
  <2>1. Issue(r, slot)
    BY <1>1, <1>8
  <2>2. /\ PoolOK'
        /\ \A d \in Client : Opened(d) /\ taskReq[r].on # d => Opened(d)'
        /\ Alike(taskReq'[r], slot)
        /\ \A s \in TaskRequest \ {r} : taskReq'[s] = taskReq[s]
        /\ starved => starved'
        /\ ~ starved' => UNCHANGED <<starved, queue>> /\ taskReq'[r].on \in Client
        /\ Client \ InUse(r) # {} => UNCHANGED <<starved, queue>>
    BY <1>2, <1>6, <2>1, IssueKeepsPool DEF IInv
  <2>3. starved' \in BOOLEAN
    BY <1>3, <2>1 DEF Issue
  <2>4. ~ overlapped => InUse(r) = {}
    BY <1>7 DEF InUse, Served, IInv, PoolOK
  <2>5. ~ overlapped => ~ starved'
    BY <1>6, <1>7, <2>2, <2>4
  <2>6. queue' # << >> => starved'
    BY <1>3, <2>2, <2>3
  <2>7. /\ overlapped' \in BOOLEAN /\ overridden' \in BOOLEAN
        /\ overlapped => overlapped'
        /\ overridden => overridden'
        /\ slot.override => overridden'
        /\ ~ overlapped' => \A s \in TaskRequest \ {r} : ~ Flying(taskReq[s])
        /\ ~ overlapped' /\ Client # {} => ~ starved'
        /\ \A d \in Client : Opened(d) /\ d # c => Opened(d)'
        /\ UNCHANGED <<status, history, answered>>
    BY <1>1, <1>3, <1>5, <1>7, <2>2, <2>5
  <2>8. c \in Client \union {None} /\ (c \in Client => tx'[c] = NoTx) /\ taskReq[r].on = c
        /\ slot.pc \in {"look", "validate", "rollback", "over"}
    BY <1>1, <1>2, <1>4
  <2> QED
    BY <1>2, <1>4, <2>2, <2>3, <2>6, <2>7, <2>8, OutsideIInv
<1>9. CASE queue # << >>
  <2>1. Return(r, c, slot) /\ taskReq[r].on = c
        /\ UNCHANGED overlapped /\ UNCHANGED overridden
    BY <1>1, <1>9
  <2>2. starved
    BY <1>3, <1>9
  <2>3. status' \in TaskStatus /\ history' \in Seq(HistoryRow) /\ answered' \subseteq TaskRequest
    BY <1>1, <1>3
  <2> QED
    BY <1>2, <1>4, <2>1, <2>2, <2>3, StatementIInv
<1> QED
  BY <1>8, <1>9

LEMMA RequestFailsIInv ==
  ASSUME IInv, NEW r \in TaskRequest, NEW c \in Client, RequestFails(r, c)
  PROVE  IInv'
<1> USE TaskAssumption
<1> DEFINE slot == Goto("over", r)
<1>1. /\ taskReq[r].on = c /\ tx' = [tx EXCEPT ![c] = NoTx]
      /\ IF queue = << >>
           THEN /\ taskReq' = [taskReq EXCEPT ![r] = On(slot, None)]
                /\ UNCHANGED <<idle, queue, starved>>
           ELSE Return(r, c, slot)
      /\ UNCHANGED <<status, history, answered, overlapped, overridden>>
  BY DEF RequestFails, On
<1>2. /\ slot \in TaskSlot /\ slot.pc = "over" /\ slot.override = taskReq[r].override
      /\ slot.pc # "new" /\ slot.pc \notin Block
  BY GotoSlot DEF IInv, Pcs, Block
<1>3. /\ status \in TaskStatus /\ history \in Seq(HistoryRow) /\ answered \subseteq TaskRequest
      /\ tx \in [Client -> Transaction]
      /\ starved \in BOOLEAN /\ overlapped \in BOOLEAN /\ overridden \in BOOLEAN
      /\ queue # << >> => starved
  BY DEF IInv, ValuesOK, TxOK
<1>4. tx' \in [Client -> Transaction] /\ tx'[c] = NoTx /\ \A d \in Client \ {c} : tx'[d] = tx[d]
  BY <1>1, <1>3, NoTxType
<1>5. slot.override => overridden
  BY <1>2 DEF IInv, OverrideOK
<1>6. Flying(taskReq[r]) /\ Client # {} /\ taskReq[r].on # None
  BY <1>1 DEF IInv, PoolOK
<1>7. ~ overlapped => ~ starved /\ \A s \in TaskRequest \ {r} : ~ Flying(taskReq[s])
  BY <1>6 DEF IInv, SoloOK
<1> HIDE DEF slot
<1>8. CASE queue = << >>
  <2>1. /\ taskReq' = [taskReq EXCEPT ![r] = On(slot, None)]
        /\ UNCHANGED <<idle, queue>> /\ starved' = starved /\ queue' = queue
    BY <1>1, <1>8
  <2>2. /\ PoolOK'
        /\ \A d \in Client : Opened(d) /\ taskReq[r].on # d => Opened(d)'
        /\ Alike(taskReq'[r], slot)
        /\ \A s \in TaskRequest \ {r} : taskReq'[s] = taskReq[s]
    BY <1>2, <1>6, <2>1, EndKeepsPool DEF IInv
  <2>7. /\ overlapped' \in BOOLEAN /\ overridden' \in BOOLEAN /\ starved' \in BOOLEAN
        /\ overlapped => overlapped'
        /\ overridden => overridden'
        /\ starved => starved'
        /\ queue' # << >> => starved'
        /\ slot.override => overridden'
        /\ ~ overlapped' => \A s \in TaskRequest \ {r} : ~ Flying(taskReq[s])
        /\ ~ overlapped' /\ Client # {} => ~ starved'
        /\ \A d \in Client : Opened(d) /\ d # c => Opened(d)'
        /\ UNCHANGED <<status, history, answered>>
    BY <1>1, <1>3, <1>5, <1>7, <2>1, <2>2
  <2>8. c \in Client \union {None} /\ (c \in Client => tx'[c] = NoTx) /\ taskReq[r].on = c
        /\ slot.pc \in {"look", "validate", "rollback", "over"}
    BY <1>1, <1>2, <1>4
  <2> QED
    BY <1>2, <1>4, <2>2, <2>7, <2>8, OutsideIInv
<1>9. CASE queue # << >>
  <2>1. Return(r, c, slot) /\ taskReq[r].on = c
        /\ UNCHANGED overlapped /\ UNCHANGED overridden
    BY <1>1, <1>9
  <2>2. starved
    BY <1>3, <1>9
  <2>3. status' \in TaskStatus /\ history' \in Seq(HistoryRow) /\ answered' \subseteq TaskRequest
    BY <1>1, <1>3
  <2> QED
    BY <1>2, <1>4, <2>1, <2>2, <2>3, StatementIInv
<1> QED
  BY <1>8, <1>9

LEMMA CloseIdleIInv ==
  ASSUME IInv, NEW i \in 1..Len(idle), CloseIdle(i)
  PROVE  IInv'
<1> USE TaskAssumption
<1> DEFINE c == idle[i]
<1>1. /\ tx' = [tx EXCEPT ![c] = NoTx]
      /\ idle' = SubSeq(idle, 1, i - 1) \o SubSeq(idle, i + 1, Len(idle))
      /\ UNCHANGED <<status, history, queue, taskReq, answered, flags>>
  BY DEF CloseIdle
<1>2. idle \in Seq(Client) /\ Distinct(idle) /\ tx \in [Client -> Transaction]
  BY DEF IInv, PoolOK, TxOK
<1>3. idle' \in Seq(Client) /\ Elems(idle') = Elems(idle) \ {c} /\ Distinct(idle')
  BY <1>1, <1>2, RemoveElems
<1>4. c \in Client /\ c \in Elems(idle)
  BY <1>2, ElementOfSeq DEF Elems
<1>5. \A r \in TaskRequest : taskReq[r].on # c
  BY <1>4 DEF IInv, PoolOK
<1> HIDE DEF c
<1>6. tx' \in [Client -> Transaction] /\ tx'[c] = NoTx /\ \A d \in Client \ {c} : tx'[d] = tx[d]
  BY <1>1, <1>2, <1>4, NoTxType
<1>7. /\ taskReq' = taskReq /\ queue' = queue /\ starved' = starved /\ status' = status
      /\ history' = history /\ answered' = answered /\ overlapped' = overlapped
      /\ overridden' = overridden
  BY <1>1 DEF flags
<1>8. ValuesOK'
  BY <1>7 DEF IInv, ValuesOK
<1>9. PoolOK'
  <2>1. Distinct(idle') /\ idle' \in Seq(Client) /\ Elems(idle') \subseteq Elems(idle)
    BY <1>3
  <2> QED
    BY <1>7, <2>1 DEF IInv, PoolOK
<1>10. TxOK'
  <2> SUFFICES ASSUME NEW d \in Client, tx'[d].open PROVE Opened(d)'
    BY <1>6 DEF TxOK
  <2>1. d # c
    BY <1>6, NoTxType
  <2>2. Opened(d)
    BY <1>6, <2>1 DEF IInv, TxOK
  <2> QED
    BY <1>3, <1>7, <2>1, <2>2 DEF Opened
<1>11. \A r \in TaskRequest : taskReq[r].on # None =>
         taskReq[r].on \in Client \ {c} /\ tx'[taskReq[r].on] = tx[taskReq[r].on]
  BY <1>5, <1>6 DEF IInv, PoolOK, TaskSlot
<1>12. BlockOK'
  <2> SUFFICES ASSUME ~ starved PROVE BlockOK'
    BY <1>7 DEF BlockOK
  <2>1. ASSUME NEW d \in Client
        PROVE  IF tx'[d].open
                 THEN \E s \in TaskRequest : taskReq'[s].on = d /\ taskReq'[s].pc \in Block
                 ELSE tx'[d] = NoTx
    <3>1. CASE d = c
      BY <1>6, <3>1, NoTxType
    <3>2. CASE d # c
      BY <1>6, <1>7, <3>2 DEF IInv, BlockOK
    <3> QED
      BY <3>1, <3>2
  <2>2. ASSUME NEW s \in TaskRequest, taskReq'[s].on # None
        PROVE  /\ taskReq'[s].pc \in Block => tx'[taskReq'[s].on].open
               /\ taskReq'[s].pc = "commit" =>
                    \E j \in 1..Len(tx'[taskReq'[s].on].rows) :
                      tx'[taskReq'[s].on].rows[j].by = s
    BY <1>7, <1>11, <2>2 DEF IInv, BlockOK
  <2>3. AnsweredIsRecorded'
    BY <1>7 DEF IInv, BlockOK, AnsweredIsRecorded, Recorded
  <2> QED
    BY <2>1, <2>2, <2>3 DEF BlockOK
<1>13. SoloOK'
  BY <1>7, <1>11 DEF IInv, SoloOK
<1>14. OverrideOK'
  BY <1>7 DEF IInv, OverrideOK
<1> QED
  BY <1>8, <1>9, <1>10, <1>12, <1>13, <1>14 DEF IInv

LEMMA ProcessDiesIInv ==
  ASSUME IInv, ProcessDies
  PROVE  IInv'
<1> USE TaskAssumption
<1> DEFINE dead == [TaskNew EXCEPT !.pc = "over"]
<1>1. /\ taskReq' = [r \in TaskRequest |-> IF Flying(taskReq[r]) THEN dead ELSE taskReq[r]]
      /\ tx' = [c \in Client |-> NoTx] /\ idle' = << >> /\ queue' = << >>
      /\ UNCHANGED <<status, history, answered, flags>>
  BY DEF ProcessDies, InFlight, Flying
<1>2. dead \in TaskSlot /\ dead.pc = "over" /\ dead.on = None /\ ~ dead.override
  BY DEF TaskNew, TaskSlot, Action, TaskStatus
<1> HIDE DEF dead
<1>3. taskReq' \in [TaskRequest -> TaskSlot]
  BY <1>1, <1>2 DEF IInv, PoolOK
<1>4. \A r \in TaskRequest : ~ Flying(taskReq'[r]) /\ taskReq'[r].on = None
  BY <1>1, <1>2 DEF IInv, PoolOK, Flying
<1>5. \A S : << >> \in Seq(S) /\ Len(<< >>) = 0
  BY EmptySeq
<1>6. PoolOK'
  BY <1>1, <1>3, <1>4, <1>5 DEF PoolOK, Distinct, Elems
<1>7. ValuesOK'
  BY <1>1 DEF IInv, ValuesOK, flags
<1>8. TxOK'
  BY <1>1, NoTxType DEF TxOK
<1>9. BlockOK'
  <2>1. starved' = starved /\ answered' = answered /\ history' = history
    BY <1>1 DEF flags
  <2>2. ~ starved => AnsweredIsRecorded'
    BY <2>1 DEF IInv, BlockOK, AnsweredIsRecorded, Recorded
  <2> QED
    BY <1>1, <1>4, <2>1, <2>2, NoTxType DEF BlockOK
<1>10. SoloOK'
  BY <1>1, <1>4 DEF IInv, SoloOK, flags
<1>11. OverrideOK'
  BY <1>1, <1>2 DEF IInv, OverrideOK, flags
<1> QED
  BY <1>6, <1>7, <1>8, <1>9, <1>10, <1>11 DEF IInv

LEMMA NextIInv ==
  ASSUME IInv, [TaskNext]_taskVars
  PROVE  IInv'
<1>1. CASE UNCHANGED taskVars
  <2>1. /\ status' = status /\ history' = history /\ idle' = idle /\ queue' = queue /\ tx' = tx
        /\ taskReq' = taskReq /\ answered' = answered /\ starved' = starved
        /\ overlapped' = overlapped /\ overridden' = overridden
    BY <1>1 DEF taskVars, pool, flags
  <2> QED
    BY <2>1 DEF IInv, ValuesOK, PoolOK, Elems, Distinct, TxOK, Opened, BlockOK,
                AnsweredIsRecorded, Recorded, SoloOK, OverrideOK
<1>2. ASSUME NEW r \in TaskRequest, NEW c \in Client,
             \/ PatchLook(r, c) \/ Validate(r, c) \/ BeginTx(r, c) \/ UpdateTask(r, c)
             \/ RecordHistory(r, c) \/ CommitTx(r, c) \/ RewriteStatus(r, c)
             \/ RollbackTx(r, c) \/ BlockFails(r, c) \/ RequestFails(r, c)
      PROVE  IInv'
  BY <1>2, PatchLookIInv, ValidateIInv, BeginIInv, UpdateIInv, RecordIInv, CommitIInv,
     RewriteIInv, RollbackIInv, BlockFailsIInv, RequestFailsIInv
<1>3. ASSUME NEW r \in TaskRequest, PauseStart(r) PROVE IInv'
  <2> DEFINE slot == [TaskNew EXCEPT !.pc = "validate", !.action = "pause", !.to = "paused",
                                     !.rewrite = TRUE]
  <2>1. StartRequest(r, slot)
    BY <1>3 DEF PauseStart
  <2>2. slot \in TaskSlot /\ slot.pc = "validate"
    BY DEF TaskNew, TaskSlot, Action, TaskStatus
  <2> HIDE DEF slot
  <2> QED
    BY <2>1, <2>2, StartIInv
<1>4. ASSUME NEW r \in TaskRequest, NEW s \in Patched, PatchStart(r, s) PROVE IInv'
  <2> DEFINE slot == [TaskNew EXCEPT !.pc = "look", !.action = PatchAction[s], !.to = s,
                                     !.rewrite = TRUE]
  <2>1. StartRequest(r, slot)
    BY <1>4 DEF PatchStart
  <2>2. s \in TaskStatus /\ PatchAction[s] \in Action
    BY TaskAssumption DEF PatchAction, Action
  <2>3. slot \in TaskSlot /\ slot.pc = "look"
    BY <2>2 DEF TaskNew, TaskSlot, Action, TaskStatus
  <2> HIDE DEF slot
  <2> QED
    BY <2>1, <2>3, StartIInv
<1>5. ASSUME NEW r \in TaskRequest, NEW a \in Action, NEW b \in Action,
             NEW override \in BOOLEAN, TransitionStart(r, a, Produces[b], override)
      PROVE  IInv'
  <2> DEFINE slot == [TaskNew EXCEPT !.pc = "validate", !.action = a, !.to = Produces[b],
                                     !.override = override]
  <2>1. StartRequest(r, slot)
    BY <1>5 DEF TransitionStart
  <2>2. Produces[b] \in TaskStatus
    BY DEF Produces, Action, TaskStatus
  <2>3. slot \in TaskSlot /\ slot.pc = "validate"
    BY <2>2 DEF TaskNew, TaskSlot, Action, TaskStatus
  <2> HIDE DEF slot
  <2> QED
    BY <2>1, <2>3, StartIInv
<1>6. CASE TaskNext
  <2>1. Asked \subseteq Action /\ Forced \subseteq Action
    BY TaskAssumption
  <2>2. CASE \E r \in TaskRequest : TaskStatement(r) \/ TaskFailure(r)
    BY <1>2, <2>2 DEF TaskStatement, TaskFailure
  <2>3. CASE \E r \in TaskRequest : PauseStart(r) \/ \E s \in Patched : PatchStart(r, s)
    BY <1>3, <1>4, <2>3
  <2>4. CASE \E r \in TaskRequest :
               \/ \E a \in Asked : TransitionStart(r, a, Produces[a], FALSE)
               \/ \E a, b \in Forced : TransitionStart(r, a, Produces[b], TRUE)
    BY <1>5, <2>1, <2>4
  <2>5. CASE \E i \in 1..Len(idle) : CloseIdle(i)
    BY <2>5, CloseIdleIInv
  <2>6. CASE ProcessDies
    BY <2>6, ProcessDiesIInv
  <2> QED
    BY <1>6, <2>2, <2>3, <2>4, <2>5, <2>6 DEF TaskNext
<1> QED
  BY <1>1, <1>6

-----------------------------------------------------------------------------
(* The theorems. *)

\* The inductive invariant: the pool's bookkeeping is right whatever fails, a block stays on
\* its connection while nobody has had to wait, and what a lone request knows is so.
THEOREM Invariance == TaskSpec => []IInv
BY InitIInv, NextIInv, PTL DEF TaskSpec

\* Every variable has its type, no connection is with two requests or both with one and
\* idle, and the queue of the pool is the requests in flight that have none.
THEOREM TypeCorrect == TaskSpec => []TaskTypeOK
<1> USE TaskAssumption
<1>1. IInv => TaskTypeOK
  <2> SUFFICES ASSUME IInv PROVE TaskTypeOK
    OBVIOUS
  <2>1. \A r \in TaskRequest :
          /\ taskReq[r].on # None => Flying(taskReq[r]) /\ taskReq[r].on \notin Elems(idle)
          /\ r \in Elems(queue) <=> Flying(taskReq[r]) /\ taskReq[r].on = None
    BY DEF IInv, PoolOK
  <2>2. Elems(queue) \subseteq TaskRequest
    BY ElementOfSeq DEF IInv, PoolOK, Elems
  <2>3. Busy \intersect IdleClients = {}
    BY <2>1 DEF Busy, Served, IdleClients, Elems
  <2>4. Served \subseteq InFlight
    BY <2>1 DEF Served, InFlight, Flying
  <2>5. {queue[i] : i \in 1..Len(queue)} = InFlight \ Served
    <3>1. Elems(queue) = InFlight \ Served
      BY <2>1, <2>2 DEF Served, InFlight, Flying
    <3> QED
      BY <3>1 DEF Elems
  <2>6. \A c \in Client : tx[c].open => c \in Busy \union IdleClients
    <3> SUFFICES ASSUME NEW c \in Client, tx[c].open PROVE c \in Busy \union IdleClients
      OBVIOUS
    <3>1. Opened(c)
      BY DEF IInv, TxOK
    <3> QED
      BY <3>1 DEF Opened, Elems, Busy, Served, IdleClients
  <2> QED
    BY <2>3, <2>4, <2>5, <2>6 DEF TaskTypeOK, IInv, ValuesOK, PoolOK, TxOK
<1> QED
  BY <1>1, Invariance, PTL

\* executeTransition's block is atomic while no request has had to wait for a connection:
\* every transition answered as done is in the history, and an open transaction belongs to
\* a request that is in its block.
THEOREM AtomicWhilePoolLastsHolds == TaskSpec => []AtomicWhilePoolLasts
<1>1. IInv => AtomicWhilePoolLasts
  BY DEF IInv, BlockOK, Block, AtomicWhilePoolLasts
<1> QED
  BY <1>1, Invariance, PTL

\* With one request at a time the rows of task_status_history lead from each to the next and
\* the last to the status, whatever statement fails and wherever the process dies, but for a
\* status left empty by a PATCH.
THEOREM HistoryExplainsStatusHolds == TaskSpec => []HistoryExplainsStatus
<1>1. IInv => HistoryExplainsStatus
  BY DEF IInv, SoloOK, Explains, HistoryExplainsStatus
<1> QED
  BY <1>1, Invariance, PTL

\* No statement of a lone request gives a task that is archived or has no status another
\* one, unless it is overridden.
LEMMA ArchivedStays ==
  ASSUME IInv, TaskNext, status \in {"archived", Blank}, ~ overlapped', ~ overridden
  PROVE  status' \in {status, Blank}
<1> USE TaskAssumption
<1>1. ~ overlapped
  <2>1. ASSUME NEW r \in TaskRequest,
               PauseStart(r) \/ TaskStatement(r) \/ TaskFailure(r)
        PROVE  overlapped => overlapped'
    BY <2>1 DEF PauseStart, StartRequest, TaskStatement, PatchLook, Validate, BeginTx,
                UpdateTask, RecordHistory, CommitTx, RewriteStatus, RollbackTx, TaskFailure,
                BlockFails, RequestFails
  <2>2. ASSUME NEW r \in TaskRequest, NEW a, NEW to, NEW override,
               PatchStart(r, a) \/ TransitionStart(r, a, to, override)
        PROVE  overlapped => overlapped'
    BY <2>2 DEF PatchStart, TransitionStart, StartRequest
  <2>3. ASSUME ProcessDies \/ \E i \in 1..Len(idle) : CloseIdle(i)
        PROVE  overlapped => overlapped'
    BY <2>3 DEF ProcessDies, CloseIdle, flags
  <2> QED
    BY <2>1, <2>2, <2>3 DEF TaskNext
<1>2. ASSUME NEW r \in TaskRequest, NEW c \in Client, UpdateTask(r, c)
      PROVE  status' = status
  <2>1. taskReq[r].on = c /\ taskReq[r].pc \in Block /\ (tx[c].open => status' = status)
    BY <1>2 DEF UpdateTask, TaskAt, WriteStatus, Block
  <2> QED
    BY <1>1, <2>1, Running
<1>3. ASSUME NEW r \in TaskRequest, NEW c \in Client, CommitTx(r, c)
      PROVE  FALSE
  <2>1. taskReq[r].on = c /\ taskReq[r].pc = "commit"
    BY <1>3 DEF CommitTx, TaskAt
  <2>2. Valid(taskReq[r].action, status, taskReq[r].override)
    BY <1>1, <2>1, Running DEF Current, Block
  <2>3. ~ taskReq[r].override
    BY DEF IInv, OverrideOK
  <2> QED
    BY <2>2, <2>3 DEF Valid, Allowed, TaskStatus
<1>4. ASSUME NEW r \in TaskRequest, NEW c \in Client, RewriteStatus(r, c)
      PROVE  status' \in {status, Blank}
  <2>1. /\ taskReq[r].on = c /\ taskReq[r].pc = "rewrite"
        /\ status' = taskReq[r].to \/ status' = status
    BY <1>4 DEF RewriteStatus, TaskAt, WriteStatus
  <2>2. taskReq[r].to \in {status, Blank}
    BY <1>1, <2>1, Running DEF Current
  <2> QED
    BY <2>1, <2>2
<1>5. ASSUME NEW r \in TaskRequest, TaskStatement(r) PROVE status' \in {status, Blank}
  <2>1. PICK c \in Client :
          \/ UpdateTask(r, c) \/ CommitTx(r, c) \/ RewriteStatus(r, c) \/ status' = status
    BY <1>5 DEF TaskStatement, PatchLook, Validate, BeginTx, RecordHistory, RollbackTx
  <2> QED
    BY <1>2, <1>3, <1>4, <2>1
<1>6. (\E r \in TaskRequest : TaskStatement(r)) \/ status' = status
  BY DEF TaskNext, PauseStart, PatchStart, TransitionStart, StartRequest, TaskFailure,
         BlockFails, RequestFails, CloseIdle, ProcessDies
<1> QED
  BY <1>5, <1>6

\* "Archives are final": with one request at a time and without an administrator's override
\* no route, the second UPDATE of the pause and PATCH routes included, takes a task out of
\* "archived", but for a PATCH that leaves it without a status, which it then never gets.
THEOREM ArchivedIsFinalHolds == TaskSpec => ArchivedIsFinal
<1>1. ASSUME IInv, [TaskNext]_taskVars, status \in {"archived", Blank}, ~ overlapped', ~ overridden
      PROVE  status' \in {status, Blank}
  BY <1>1, ArchivedStays DEF taskVars
<1>2. IInv /\ [TaskNext]_taskVars =>
        [~ overlapped' /\ ~ overridden /\ status \in {"archived", Blank}
           => status' \in {status, Blank}]_taskVars
  BY <1>1
<1> QED
  BY <1>2, Invariance, PTL DEF TaskSpec, ArchivedIsFinal
=============================================================================
