------------------------- MODULE ResourceLockProofs -------------------------
(***************************************************************************)
(* The promise chains of ResourceLock exclude each other and serve in FIFO *)
(* order, for any number of calls and keys.  The argument: the history     *)
(* variable `queue` lists the unfinished calls of a key; each waits for    *)
(* the promise of the one before it, which cannot settle while that call   *)
(* is unfinished, so only the first can be inside (ChainInv).              *)
(***************************************************************************)
EXTENDS ResourceLock, TLAPS

-----------------------------------------------------------------------------
(* Appending to a queue keeps its members where they are.                  *)
LEMMA AppendFacts ==
  ASSUME NEW S, NEW s \in Seq(S), NEW e \in S
  PROVE  /\ Append(s, e) \in Seq(S)
         /\ Append(s, e) # <<>>
         /\ Len(Append(s, e)) = Len(s) + 1
         /\ Append(s, e)[Len(s) + 1] = e
         /\ \A i \in 1..Len(s) : Append(s, e)[i] = s[i]
  OBVIOUS

(* Removing the head of a queue moves every other member up by one.        *)
LEMMA TailFacts ==
  ASSUME NEW S, NEW s \in Seq(S), s # <<>>
  PROVE  /\ Tail(s) \in Seq(S)
         /\ Len(s) \in Nat
         /\ Len(s) >= 1
         /\ Len(Tail(s)) = Len(s) - 1
         /\ \A i \in 1..(Len(s) - 1) : Tail(s)[i] = s[i + 1]
         /\ Head(s) = s[1]
  OBVIOUS

(* Only the empty queue has length 0.                                      *)
LEMMA EmptyFact ==
  ASSUME NEW S, NEW s \in Seq(S)
  PROVE  Len(s) = 0 <=> s = <<>>
  OBVIOUS

-----------------------------------------------------------------------------
(* A call joins the end of the queue and waits for the old tail.           *)
LEMMA EnqueueKeeps ==
  ASSUME TypeOK, ChainInv, NEW c \in Call, NEW k \in Key, Enqueue(c, k)
  PROVE  TypeOK' /\ ChainInv'
  <1> USE DEF Active, Done, Outcome
  <1>1. /\ queue[k] \in Seq(Call)
        /\ queue'[k] = Append(queue[k], c)
        /\ \A j \in Key : j # k => queue'[j] = queue[j]
    BY DEF TypeOK, Enqueue
  <1>2. /\ queue'[k] \in Seq(Call)
        /\ queue'[k] # <<>>
        /\ Len(queue[k]) \in Nat
        /\ Len(queue'[k]) = Len(queue[k]) + 1
        /\ queue'[k][Len(queue[k]) + 1] = c
        /\ \A i \in 1..Len(queue[k]) : queue'[k][i] = queue[k][i]
    BY <1>1, AppendFacts
  <1>3. \A d \in Call : d # c => pc'[d] = pc[d] /\ key'[d] = key[d]
                                 /\ previous'[d] = previous[d]
    BY DEF TypeOK, Enqueue
  <1>4. pc[c] = "idle" /\ pc'[c] = "queued" /\ key'[c] = k
    BY DEF TypeOK, Enqueue
  <1>5. \A j \in Key : \A i \in 1..Len(queue[j]) :
           queue[j][i] \in Call /\ queue[j][i] # c
    BY <1>4 DEF TypeOK, ChainInv, QueueMembers
  <1>6. TypeOK'
    BY NamesAssumption DEF TypeOK, Enqueue, Previous
  <1>7. QueueMembers'
    <2> SUFFICES ASSUME NEW j \in Key, NEW i \in 1..Len(queue'[j])
                 PROVE  /\ key'[queue'[j][i]] = j
                        /\ pc'[queue'[j][i]] \in {"queued", "critical"}
                        /\ \A m \in 1..Len(queue'[j]) :
                             queue'[j][i] = queue'[j][m] => i = m
      BY DEF QueueMembers, Active
    <2>1. CASE j # k
      <3>1. queue'[j] = queue[j]
        BY <2>1, <1>1
      <3>2. queue[j][i] \in Call /\ queue[j][i] # c
        BY <3>1, <1>5
      <3>3. QED
        BY <3>1, <3>2, <1>3 DEF ChainInv, QueueMembers
    <2>2. CASE j = k
      <3>1. \A m \in 1..Len(queue'[k]) :
               m = Len(queue[k]) + 1 \/ m \in 1..Len(queue[k])
        BY <1>2
      <3>2. CASE i = Len(queue[k]) + 1
        BY <2>2, <3>1, <3>2, <1>2, <1>4, <1>5
      <3>3. CASE i \in 1..Len(queue[k])
        <4>1. queue[k][i] \in Call /\ queue[k][i] # c
          BY <3>3, <1>5
        <4>2. \A m \in 1..Len(queue[k]) : queue[k][i] = queue[k][m] => i = m
          BY <3>3 DEF ChainInv, QueueMembers
        <4>3. key[queue[k][i]] = k /\ Active(queue[k][i])
          BY <3>3 DEF ChainInv, QueueMembers
        <4>4. QED
          BY <2>2, <3>1, <3>3, <4>1, <4>2, <4>3, <1>2, <1>3
      <3>4. QED
        BY <2>2, <3>1, <3>2, <3>3
    <2>3. QED
      BY <2>1, <2>2
  <1>8. QueueComplete'
    <2> SUFFICES ASSUME NEW d \in Call, Active(d)'
                 PROVE  /\ key'[d] \in Key
                        /\ \E i \in 1..Len(queue'[key'[d]]) :
                             queue'[key'[d]][i] = d
      BY DEF QueueComplete
    <2>1. CASE d = c
      BY <2>1, <1>2, <1>4
    <2>2. CASE d # c
      <3>1. key'[d] = key[d] /\ Active(d)
        BY <2>2, <1>3
      <3>2. key[d] \in Key
        BY <3>1 DEF ChainInv, QueueComplete
      <3>3. PICK i \in 1..Len(queue[key[d]]) : queue[key[d]][i] = d
        BY <3>1 DEF ChainInv, QueueComplete
      <3>4. i \in 1..Len(queue'[key[d]]) /\ queue'[key[d]][i] = d
        <4>1. CASE key[d] = k
          BY <4>1, <3>3, <1>2
        <4>2. CASE key[d] # k
          BY <4>2, <3>2, <3>3, <1>1
        <4>3. QED
          BY <4>1, <4>2
      <3>5. QED
        BY <3>1, <3>2, <3>4
    <2>3. QED
      BY <2>1, <2>2
  <1>9. QueueLinks'
    <2> SUFFICES ASSUME NEW j \in Key, NEW i \in 2..Len(queue'[j])
                 PROVE  previous'[queue'[j][i]] = queue'[j][i - 1]
      BY DEF QueueLinks
    <2>1. CASE j # k
      BY <2>1, <1>1, <1>3, <1>5 DEF ChainInv, QueueLinks, TypeOK
    <2>2. CASE j = k /\ i <= Len(queue[k])
      <3>1. i \in 1..Len(queue[k]) /\ i - 1 \in 1..Len(queue[k])
        BY <2>2, <1>2
      <3>2. previous[queue[k][i]] = queue[k][i - 1]
        BY <2>2, <1>2 DEF ChainInv, QueueLinks
      <3>3. QED
        BY <3>1, <3>2, <2>2, <1>2, <1>3, <1>5
    <2>3. CASE j = k /\ i = Len(queue[k]) + 1
      <3>1. queue[k] # <<>> /\ tails[k] = queue[k][Len(queue[k])]
        BY <2>3, <1>1, <1>2 DEF ChainInv, TailIsLast
      <3>2. tails[k] # NoTail
        BY <3>1, <1>1, NamesAssumption
      <3>3. previous'[c] = tails[k]
        BY <3>2 DEF TypeOK, Enqueue, Previous
      <3>4. QED
        BY <2>3, <3>1, <3>3, <1>2
    <2>4. QED
      BY <2>1, <2>2, <2>3, <1>2
  <1>10. TailIsLast'
    BY <1>1, <1>2 DEF ChainInv, TailIsLast, TypeOK, Enqueue
  <1>11. ReleasedAreDone'
    BY <1>3, <1>4 DEF ChainInv, ReleasedAreDone, TypeOK, Enqueue
  <1>12. HeldIsHead'
    <2> SUFFICES ASSUME NEW j \in Key
                 PROVE  (j \in held <=> /\ queue[j] # <<>>
                                        /\ pc[queue[j][1]] = "critical")'
      BY DEF HeldIsHead
    <2>1. held' = held
      BY DEF Enqueue
    <2>2. CASE j # k
      <3>1. queue[j] # <<>> => 1 \in 1..Len(queue[j])
        BY DEF TypeOK
      <3>2. QED
        BY <2>1, <2>2, <3>1, <1>1, <1>3, <1>5 DEF ChainInv, HeldIsHead
    <2>3. CASE j = k /\ queue[k] # <<>>
      <3>1. 1 \in 1..Len(queue[k])
        BY <2>3, <1>1
      <3>2. QED
        BY <2>1, <2>3, <3>1, <1>2, <1>3, <1>5 DEF ChainInv, HeldIsHead
    <2>4. CASE j = k /\ queue[k] = <<>>
      <3>1. queue'[k][1] = c
        BY <2>4, <1>2
      <3>2. QED
        BY <2>1, <2>4, <3>1, <1>4 DEF ChainInv, HeldIsHead
    <2>5. QED
      BY <2>2, <2>3, <2>4
  <1>13. CriticalIsHead'
    <2> SUFFICES ASSUME NEW j \in Key, NEW i \in 1..Len(queue'[j]),
                        pc'[queue'[j][i]] = "critical"
                 PROVE  i = 1
      BY DEF CriticalIsHead
    <2>1. CASE j # k
      <3>1. queue'[j] = queue[j]
        BY <2>1, <1>1
      <3>2. queue[j][i] \in Call /\ queue[j][i] # c
        BY <3>1, <1>5
      <3>3. QED
        BY <3>1, <3>2, <1>3 DEF ChainInv, CriticalIsHead
    <2>2. CASE j = k /\ i \in 1..Len(queue[k])
      BY <2>2, <1>2, <1>3, <1>5 DEF ChainInv, CriticalIsHead
    <2>3. QED
      BY <2>1, <2>2, <1>2, <1>4
  <1>14. QED
    BY <1>6, <1>7, <1>8, <1>9, <1>10, <1>11, <1>12, <1>13 DEF ChainInv

(* A call enters only when the promise it waits for has settled, so no     *)
(* unfinished call is in front of it.                                      *)
LEMMA AcquireKeeps ==
  ASSUME TypeOK, ChainInv, NEW c \in Call, Acquire(c)
  PROVE  TypeOK' /\ ChainInv'
  <1> USE DEF Active, Done, Outcome
  <1>1. /\ pc[c] = "queued"
        /\ pc'[c] = "critical"
        /\ \A d \in Call : d # c => pc'[d] = pc[d]
        /\ held' = held \cup {key[c]}
        /\ UNCHANGED <<tails, key, previous, released, settled, queue>>
    BY DEF TypeOK, Acquire
  <1>2. PICK p \in 1..Len(queue[key[c]]) :
          key[c] \in Key /\ queue[key[c]][p] = c
    BY <1>1 DEF ChainInv, QueueComplete
  <1>3. queue[key[c]] \in Seq(Call)
    BY <1>2 DEF TypeOK
  <1>4. ~(previous[c] \in Call /\ Active(previous[c]))
    BY NamesAssumption DEF Acquire, MayEnter, IsSettled, ChainInv, ReleasedAreDone, TypeOK
  <1>5. p = 1
    <2> SUFFICES ASSUME p \in 2..Len(queue[key[c]])
                 PROVE  FALSE
      BY <1>2, <1>3
    <2>1. previous[c] = queue[key[c]][p - 1]
      BY <1>2 DEF ChainInv, QueueLinks
    <2>2. p - 1 \in 1..Len(queue[key[c]])
      BY <1>3
    <2>3. queue[key[c]][p - 1] \in Call /\ Active(queue[key[c]][p - 1])
      BY <2>2, <1>2, <1>3 DEF ChainInv, QueueMembers
    <2>4. QED
      BY <2>1, <2>3, <1>4
  <1>6. \A j \in Key : \A i \in 1..Len(queue[j]) :
          queue[j][i] = c => j = key[c] /\ i = 1
    BY <1>2, <1>5 DEF ChainInv, QueueMembers
  <1>7. \A j \in Key : \A i \in 1..Len(queue[j]) : queue[j][i] \in Call
    BY DEF TypeOK
  <1>8. TypeOK'
    BY <1>1, <1>2 DEF TypeOK, Acquire
  <1>9. QueueMembers' /\ QueueComplete' /\ QueueLinks' /\ TailIsLast'
    BY <1>1, <1>7 DEF ChainInv, QueueMembers, QueueComplete, QueueLinks, TailIsLast
  <1>10. ReleasedAreDone'
    BY <1>1 DEF ChainInv, ReleasedAreDone, TypeOK
  <1>11. HeldIsHead'
    <2> SUFFICES ASSUME NEW j \in Key
                 PROVE  (j \in held <=> /\ queue[j] # <<>>
                                        /\ pc[queue[j][1]] = "critical")'
      BY DEF HeldIsHead
    <2>1. CASE j = key[c]
      BY <2>1, <1>1, <1>2, <1>3, <1>5
    <2>2. CASE j # key[c]
      <3>1. queue[j] # <<>> => queue[j][1] \in Call /\ queue[j][1] # c
        BY <2>2, <1>6 DEF TypeOK
      <3>2. QED
        BY <2>2, <3>1, <1>1 DEF ChainInv, HeldIsHead
    <2>3. QED
      BY <2>1, <2>2
  <1>12. CriticalIsHead'
    <2> SUFFICES ASSUME NEW j \in Key, NEW i \in 1..Len(queue[j]),
                        pc'[queue[j][i]] = "critical"
                 PROVE  i = 1
      BY <1>1 DEF CriticalIsHead
    <2>1. CASE queue[j][i] = c
      BY <2>1, <1>6
    <2>2. CASE queue[j][i] # c
      BY <2>2, <1>1, <1>7 DEF ChainInv, CriticalIsHead
    <2>3. QED
      BY <2>1, <2>2
  <1>13. QED
    BY <1>8, <1>9, <1>10, <1>11, <1>12 DEF ChainInv

(* The call that finishes is the head of its queue; the map entry goes     *)
(* exactly when it was also the last.                                      *)
LEMMA FinishKeeps ==
  ASSUME TypeOK, ChainInv, NEW c \in Call, NEW outcome \in Outcome,
         Finish(c, outcome)
  PROVE  TypeOK' /\ ChainInv'
  <1> DEFINE k == key[c]
  <1> DEFINE Q == queue[k]
  <1>1. /\ pc[c] = "critical"
        /\ pc'[c] = outcome
        /\ \A d \in Call : d # c => pc'[d] = pc[d]
        /\ held' = held \ {k}
        /\ released' = released \cup {c}
        /\ UNCHANGED <<key, previous, settled>>
    BY DEF TypeOK, Finish
  <1>2. k \in Key
    BY <1>1 DEF ChainInv, QueueComplete, Active
  <1>3. PICK p \in 1..Len(Q) : Q[p] = c
    BY <1>1 DEF ChainInv, QueueComplete, Active
  <1>4. Q \in Seq(Call) /\ Q # <<>>
    BY <1>2, <1>3 DEF TypeOK
  <1>5. p = 1 /\ Q[1] = c
    BY <1>1, <1>2, <1>3 DEF ChainInv, CriticalIsHead
  <1>6. /\ queue'[k] = Tail(Q)
        /\ \A j \in Key : j # k => queue'[j] = queue[j]
    BY <1>2 DEF TypeOK, Finish
  <1>7. /\ Tail(Q) \in Seq(Call)
        /\ Len(Q) \in Nat
        /\ Len(Q) >= 1
        /\ Len(Tail(Q)) = Len(Q) - 1
        /\ \A i \in 1..(Len(Q) - 1) : Tail(Q)[i] = Q[i + 1]
    BY <1>4, TailFacts
  <1>8. \A j \in Key : \A i \in 1..Len(queue'[j]) :
           /\ queue'[j][i] \in Call
           /\ queue'[j][i] # c
           /\ \E m \in 1..Len(queue[j]) :
                queue'[j][i] = queue[j][m] /\ m = (IF j = k THEN i + 1 ELSE i)
    <2> SUFFICES ASSUME NEW j \in Key, NEW i \in 1..Len(queue'[j])
                 PROVE  /\ queue'[j][i] \in Call
                        /\ queue'[j][i] # c
                        /\ \E m \in 1..Len(queue[j]) :
                             /\ queue'[j][i] = queue[j][m]
                             /\ m = (IF j = k THEN i + 1 ELSE i)
      OBVIOUS
    <2>1. CASE j = k
      <3>1. i \in 1..(Len(Q) - 1) /\ i + 1 \in 1..Len(Q)
        BY <2>1, <1>6, <1>7
      <3>2. queue'[j][i] = Q[i + 1] /\ Q[i + 1] \in Call
        BY <2>1, <3>1, <1>4, <1>6, <1>7
      <3>3. Q[i + 1] = Q[1] => i + 1 = 1
        BY <3>1, <1>2, <1>7 DEF ChainInv, QueueMembers
      <3>4. QED
        BY <2>1, <3>1, <3>2, <3>3, <1>5
    <2>2. CASE j # k
      <3>1. queue'[j] = queue[j]
        BY <2>2, <1>6
      <3>2. key[queue[j][i]] = j
        BY <3>1 DEF ChainInv, QueueMembers
      <3>3. QED
        BY <2>2, <3>1, <3>2 DEF TypeOK
    <2>3. QED
      BY <2>1, <2>2
  <1>9. TypeOK'
    <2>1. pc' \in [Call -> {"idle", "queued", "critical"} \cup Outcome]
      BY DEF TypeOK, Finish
    <2>2. tails' \in [Key -> Call \cup {NoTail}]
      BY DEF TypeOK, Finish, TailAfter
    <2>3. queue' \in [Key -> Seq(Call)]
      BY <1>6, <1>7 DEF TypeOK, Finish
    <2>4. QED
      BY <2>1, <2>2, <2>3, <1>1 DEF TypeOK
  <1>10. QueueMembers'
    <2> SUFFICES ASSUME NEW j \in Key, NEW i \in 1..Len(queue'[j])
                 PROVE  /\ key'[queue'[j][i]] = j
                        /\ pc'[queue'[j][i]] \in {"queued", "critical"}
                        /\ \A m \in 1..Len(queue'[j]) :
                             queue'[j][i] = queue'[j][m] => i = m
      BY DEF QueueMembers, Active
    <2>1. PICK m \in 1..Len(queue[j]) :
            queue'[j][i] = queue[j][m] /\ m = (IF j = k THEN i + 1 ELSE i)
      BY <1>8
    <2>2. /\ key[queue[j][m]] = j
          /\ Active(queue[j][m])
          /\ \A n \in 1..Len(queue[j]) : queue[j][m] = queue[j][n] => m = n
      BY DEF ChainInv, QueueMembers
    <2>3. key'[queue'[j][i]] = j /\ pc'[queue'[j][i]] \in {"queued", "critical"}
      BY <2>1, <2>2, <1>1, <1>8 DEF Active
    <2>4. ASSUME NEW n \in 1..Len(queue'[j]), queue'[j][i] = queue'[j][n]
          PROVE  i = n
      <3>1. PICK l \in 1..Len(queue[j]) :
              queue'[j][n] = queue[j][l] /\ l = (IF j = k THEN n + 1 ELSE n)
        BY <1>8
      <3>2. m = l
        BY <2>1, <2>2, <2>4, <3>1
      <3>3. i \in Nat /\ n \in Nat
        OBVIOUS
      <3>4. QED
        BY <2>1, <3>1, <3>2, <3>3
    <2>5. QED
      BY <2>3, <2>4
  <1>11. QueueComplete'
    <2> SUFFICES ASSUME NEW d \in Call, Active(d)'
                 PROVE  /\ key'[d] \in Key
                        /\ \E i \in 1..Len(queue'[key'[d]]) :
                             queue'[key'[d]][i] = d
      BY DEF QueueComplete
    <2>1. d # c
      BY <1>1 DEF Active, Outcome
    <2>2. Active(d) /\ key'[d] = key[d]
      BY <2>1, <1>1 DEF Active
    <2>3. key[d] \in Key
      BY <2>2 DEF ChainInv, QueueComplete
    <2>4. PICK i \in 1..Len(queue[key[d]]) : queue[key[d]][i] = d
      BY <2>2 DEF ChainInv, QueueComplete
    <2>5. CASE key[d] = k
      <3>1. i # 1
        BY <2>1, <2>4, <2>5, <1>5
      <3>2. i - 1 \in 1..(Len(Q) - 1) /\ (i - 1) + 1 = i
        BY <2>5, <3>1, <1>7
      <3>3. Tail(Q)[i - 1] = d
        BY <2>4, <2>5, <3>2, <1>7
      <3>4. QED
        BY <2>2, <2>3, <2>5, <3>2, <3>3, <1>6, <1>7
    <2>6. CASE key[d] # k
      BY <2>2, <2>3, <2>4, <2>6, <1>6
    <2>7. QED
      BY <2>5, <2>6
  <1>12. QueueLinks'
    <2> SUFFICES ASSUME NEW j \in Key, NEW i \in 2..Len(queue'[j])
                 PROVE  previous[queue'[j][i]] = queue'[j][i - 1]
      BY <1>1 DEF QueueLinks
    <2>1. CASE j = k
      <3>1. /\ i \in 1..(Len(Q) - 1)
            /\ i - 1 \in 1..(Len(Q) - 1)
            /\ i + 1 \in 2..Len(Q)
            /\ (i - 1) + 1 = i
            /\ (i + 1) - 1 = i
        BY <2>1, <1>6, <1>7
      <3>2. queue'[j][i] = Q[i + 1] /\ queue'[j][i - 1] = Q[i]
        BY <2>1, <3>1, <1>6, <1>7
      <3>3. previous[Q[i + 1]] = Q[(i + 1) - 1]
        BY <3>1, <1>2 DEF ChainInv, QueueLinks
      <3>4. QED
        BY <3>1, <3>2, <3>3
    <2>2. CASE j # k
      BY <2>2, <1>6 DEF ChainInv, QueueLinks
    <2>3. QED
      BY <2>1, <2>2
  <1>13. TailIsLast'
    <2> SUFFICES ASSUME NEW j \in Key
                 PROVE  tails'[j] = IF queue'[j] = <<>> THEN NoTail
                                    ELSE queue'[j][Len(queue'[j])]
      BY DEF TailIsLast
    <2>1. CASE j # k
      <3>1. tails'[j] = tails[j]
        BY <2>1 DEF TypeOK, Finish, TailAfter
      <3>2. QED
        BY <2>1, <3>1, <1>6 DEF ChainInv, TailIsLast
    <2>2. CASE j = k
      <3>1. tails'[k] = IF tails[k] = c THEN NoTail ELSE tails[k]
        BY <1>2 DEF TypeOK, Finish, TailAfter
      <3>2. tails[k] = Q[Len(Q)]
        BY <1>2, <1>4 DEF ChainInv, TailIsLast
      <3>3. Q[Len(Q)] = Q[1] => Len(Q) = 1
        <4>1. 1 \in 1..Len(Q) /\ Len(Q) \in 1..Len(Q)
          BY <1>7
        <4>2. \A i, m \in 1..Len(Q) : Q[i] = Q[m] => i = m
          BY <1>2 DEF ChainInv, QueueMembers
        <4>3. QED
          BY <4>1, <4>2
      <3>4. CASE Len(Q) = 1
        <4>1. Tail(Q) \in Seq(Call) /\ Len(Tail(Q)) = 0
          BY <3>4, <1>7
        <4>2. Tail(Q) = <<>>
          BY <4>1, EmptyFact
        <4>3. QED
          BY <2>2, <3>1, <3>2, <3>4, <4>2, <1>5, <1>6
      <3>5. CASE Len(Q) > 1
        <4>1. Tail(Q) # <<>> /\ Tail(Q)[Len(Q) - 1] = Q[Len(Q)]
          BY <3>5, <1>7
        <4>2. tails'[k] = Q[Len(Q)]
          BY <3>1, <3>2, <3>3, <3>5, <1>5
        <4>3. QED
          BY <2>2, <4>1, <4>2, <1>6, <1>7
      <3>6. Len(Q) = 1 \/ Len(Q) > 1
        <4>1. Len(Q) \in Nat /\ Len(Q) >= 1
          BY <1>7
        <4>2. \A n \in Nat : n >= 1 => n = 1 \/ n > 1
          OBVIOUS
        <4>3. QED
          BY <4>1, <4>2, Zenon
      <3>7. QED
        BY <3>4, <3>5, <3>6, Zenon
    <2>3. QED
      BY <2>1, <2>2
  <1>14. ReleasedAreDone'
    BY <1>1 DEF ChainInv, ReleasedAreDone, TypeOK, Done, Outcome
  <1>15. CriticalIsHead'
    <2> SUFFICES ASSUME NEW j \in Key, NEW i \in 1..Len(queue'[j]),
                        pc'[queue'[j][i]] = "critical"
                 PROVE  i = 1
      BY DEF CriticalIsHead
    <2>1. PICK m \in 1..Len(queue[j]) :
            queue'[j][i] = queue[j][m] /\ m = (IF j = k THEN i + 1 ELSE i)
      BY <1>8
    <2>2. pc[queue[j][m]] = "critical"
      BY <2>1, <1>1, <1>8
    <2>3. m = 1
      BY <2>2 DEF ChainInv, CriticalIsHead
    <2>4. QED
      BY <2>1, <2>3
  <1>16. HeldIsHead'
    <2> SUFFICES ASSUME NEW j \in Key
                 PROVE  (j \in held <=> /\ queue[j] # <<>>
                                        /\ pc[queue[j][1]] = "critical")'
      BY DEF HeldIsHead
    <2>1. CASE j = k
      <3>1. k \notin held'
        BY <1>1
      <3>2. ASSUME queue'[k] # <<>>, pc'[queue'[k][1]] = "critical"
            PROVE  FALSE
        <4>1. 1 \in 1..(Len(Q) - 1) /\ 2 \in 1..Len(Q)
          BY <3>2, <1>6, <1>7
        <4>2. queue'[k][1] = Q[2]
          BY <4>1, <1>6, <1>7
        <4>3. 1 \in 1..Len(queue'[k])
          BY <4>1, <1>6, <1>7
        <4>4. pc[Q[2]] = "critical"
          BY <3>2, <4>2, <4>3, <1>1, <1>2, <1>8
        <4>5. QED
          BY <4>1, <4>4, <1>2 DEF ChainInv, CriticalIsHead
      <3>3. QED
        BY <2>1, <3>1, <3>2
    <2>2. CASE j # k
      <3>1. queue'[j] = queue[j]
        BY <2>2, <1>6
      <3>2. queue[j] # <<>> => 1 \in 1..Len(queue[j])
        BY DEF TypeOK
      <3>3. ASSUME queue[j] # <<>>
            PROVE  pc'[queue[j][1]] = pc[queue[j][1]]
        <4>1. 1 \in 1..Len(queue'[j])
          BY <3>1, <3>2, <3>3
        <4>2. queue'[j][1] \in Call /\ queue'[j][1] # c
          BY <4>1, <1>8
        <4>3. QED
          BY <3>1, <4>2, <1>1
      <3>4. QED
        BY <2>2, <3>1, <3>3, <1>1 DEF ChainInv, HeldIsHead
    <2>3. QED
      BY <2>1, <2>2
  <1>17. QED
    BY <1>9, <1>10, <1>11, <1>12, <1>13, <1>14, <1>15, <1>16 DEF ChainInv

(* A chain settles only after its own call and all before it are done.     *)
LEMMA SettleKeeps ==
  ASSUME TypeOK, ChainInv, NEW c \in Call, Settle(c)
  PROVE  TypeOK' /\ ChainInv'
  BY DEF TypeOK, ChainInv, Settle, QueueMembers, QueueComplete, QueueLinks,
         TailIsLast, ReleasedAreDone, HeldIsHead, CriticalIsHead, Active, Done

-----------------------------------------------------------------------------
(* The shape of the promise chains is an invariant: the lemmas above, one  *)
(* per action of the lock.                                                 *)
THEOREM ChainInvariant == Spec => [](TypeOK /\ ChainInv)
  <1>1. Init => TypeOK /\ ChainInv
    BY DEF Init, TypeOK, ChainInv, QueueMembers, QueueComplete, QueueLinks,
           TailIsLast, ReleasedAreDone, HeldIsHead, CriticalIsHead, Active,
           Done, Outcome
  <1>2. (TypeOK /\ ChainInv) /\ [Next]_vars => (TypeOK /\ ChainInv)'
    <2> SUFFICES ASSUME TypeOK, ChainInv, [Next]_vars
                 PROVE  TypeOK' /\ ChainInv'
      OBVIOUS
    <2>1. CASE UNCHANGED vars
      BY <2>1 DEF vars, TypeOK, ChainInv, QueueMembers, QueueComplete,
           QueueLinks, TailIsLast, ReleasedAreDone, HeldIsHead,
           CriticalIsHead, Active, Done
    <2>2. QED
      BY <2>1, EnqueueKeeps, AcquireKeeps, FinishKeeps, SettleKeeps DEF Next
  <1>3. QED
    BY <1>1, <1>2, PTL DEF Spec

(* Every reachable state is well typed: no call ever waits on the          *)
(* `undefined` of an absent map entry.                                     *)
THEOREM TypeCorrect == Spec => []TypeOK
  BY ChainInvariant, PTL

(* Mutual exclusion per key: of the calls inside their critical sections   *)
(* no two have the same key, whatever the number of calls and keys.        *)
THEOREM Exclusion == Spec => []MutualExclusion
  <1>1. TypeOK /\ ChainInv => MutualExclusion
    <2> SUFFICES ASSUME TypeOK, ChainInv, NEW c \in Call, NEW d \in Call,
                        pc[c] = "critical", pc[d] = "critical",
                        key[c] = key[d]
                 PROVE  c = d
      BY DEF MutualExclusion
    <2>1. PICK i \in 1..Len(queue[key[c]]) :
            key[c] \in Key /\ queue[key[c]][i] = c
      BY DEF ChainInv, QueueComplete, Active
    <2>2. PICK j \in 1..Len(queue[key[c]]) : queue[key[c]][j] = d
      BY DEF ChainInv, QueueComplete, Active
    <2>3. i = 1 /\ j = 1
      BY <2>1, <2>2 DEF ChainInv, CriticalIsHead
    <2>4. QED
      BY <2>1, <2>2, <2>3
  <1>2. QED
    BY <1>1, ChainInvariant, PTL

(* isLocked and activeLocks report exactly the keys with a call inside.    *)
THEOREM HeldIsExact == Spec => []HeldExact
  <1>1. TypeOK /\ ChainInv => HeldExact
    <2> SUFFICES ASSUME TypeOK, ChainInv
                 PROVE  HeldExact
      OBVIOUS
    <2>1. ASSUME NEW k \in held
          PROVE  \E c \in Call : pc[c] = "critical" /\ key[c] = k
      <3>1. k \in Key /\ queue[k] # <<>> /\ pc[queue[k][1]] = "critical"
        BY <2>1 DEF TypeOK, ChainInv, HeldIsHead
      <3>2. 1 \in 1..Len(queue[k]) /\ queue[k][1] \in Call
        BY <3>1 DEF TypeOK
      <3>3. key[queue[k][1]] = k
        BY <3>1, <3>2 DEF ChainInv, QueueMembers
      <3>4. QED
        BY <3>1, <3>2, <3>3
    <2>2. ASSUME NEW c \in Call, pc[c] = "critical"
          PROVE  key[c] \in held
      <3>1. PICK i \in 1..Len(queue[key[c]]) :
              key[c] \in Key /\ queue[key[c]][i] = c
        BY <2>2 DEF ChainInv, QueueComplete, Active
      <3>2. i = 1
        BY <2>2, <3>1 DEF ChainInv, CriticalIsHead
      <3>3. queue[key[c]] # <<>>
        BY <3>1 DEF TypeOK
      <3>4. QED
        BY <2>2, <3>1, <3>2, <3>3 DEF ChainInv, HeldIsHead
    <2>3. QED
      BY <2>1, <2>2 DEF HeldExact
  <1>2. QED
    BY <1>1, ChainInvariant, PTL

(* A key has a map entry exactly while a call for it is unfinished: the    *)
(* map neither leaks keys nor forgets a waiter.                            *)
THEOREM TailsAreExact == Spec => []TailsExact
  <1>1. TypeOK /\ ChainInv => TailsExact
    <2> SUFFICES ASSUME TypeOK, ChainInv, NEW k \in Key
                 PROVE  tails[k] # NoTail
                          <=> \E c \in Call : key[c] = k /\ Active(c)
      BY DEF TailsExact
    <2>1. ASSUME tails[k] # NoTail
          PROVE  \E c \in Call : key[c] = k /\ Active(c)
      <3>1. queue[k] # <<>> /\ queue[k] \in Seq(Call)
        BY <2>1 DEF ChainInv, TailIsLast, TypeOK
      <3>2. 1 \in 1..Len(queue[k]) /\ queue[k][1] \in Call
        BY <3>1
      <3>3. QED
        BY <3>2 DEF ChainInv, QueueMembers
    <2>2. ASSUME NEW c \in Call, key[c] = k, Active(c)
          PROVE  tails[k] # NoTail
      <3>1. PICK i \in 1..Len(queue[k]) : queue[k][i] = c
        BY <2>2 DEF ChainInv, QueueComplete
      <3>2. /\ queue[k] \in Seq(Call)
            /\ queue[k] # <<>>
            /\ Len(queue[k]) \in 1..Len(queue[k])
        BY <3>1 DEF TypeOK
      <3>3. tails[k] = queue[k][Len(queue[k])] /\ tails[k] \in Call
        BY <3>2 DEF ChainInv, TailIsLast
      <3>4. QED
        BY <3>3, NamesAssumption
    <2>3. QED
      BY <2>1, <2>2
  <1>2. QED
    BY <1>1, ChainInvariant, PTL

(* The promise chains implement FifoMutex: a call enters only as the head  *)
(* of its queue, and the settling of a chain is invisible.                 *)
THEOREM ImplementsFifo == Spec => ImplementsFifoMutex
  <1> DEFINE Inside == {c \in Call : pc[c] = "critical"}
  <1>1. Init => Fifo!Init
    BY DEF Init, Fifo!Init
  <1>2. TypeOK /\ ChainInv /\ [Next]_vars => [Fifo!Next]_(Fifo!vars)
    <2> SUFFICES ASSUME TypeOK, ChainInv, [Next]_vars
                 PROVE  [Fifo!Next]_(Fifo!vars)
      OBVIOUS
    <2>1. ASSUME NEW c \in Call, NEW k \in Key, Enqueue(c, k)
          PROVE  Fifo!Arrive(c, k)
      <3>1. pc[c] = "idle"
        BY <2>1 DEF Enqueue
      <3>2. \A j \in Key : ~Fifo!Queued(c, j)
        BY <3>1 DEF ChainInv, QueueMembers, Active, Fifo!Queued
      <3>3. Inside' = Inside
        BY <2>1 DEF Enqueue, TypeOK
      <3>4. QED
        BY <2>1, <3>2, <3>3 DEF Enqueue, Fifo!Arrive
    <2>2. ASSUME NEW c \in Call, Acquire(c)
          PROVE  \E k \in Key : Fifo!Enter(c, k)
      <3>1. TypeOK' /\ ChainInv'
        BY <2>2, AcquireKeeps
      <3>2. pc'[c] = "critical" /\ pc[c] = "queued" /\ UNCHANGED <<queue, key>>
        BY <2>2 DEF Acquire, TypeOK
      <3>3. PICK i \in 1..Len(queue[key[c]]) :
              key[c] \in Key /\ queue[key[c]][i] = c
        BY <3>2 DEF ChainInv, QueueComplete, Active
      <3>4. i = 1
        BY <3>1, <3>2, <3>3 DEF ChainInv, CriticalIsHead
      <3>5. queue[key[c]] # <<>> /\ Head(queue[key[c]]) = c
        BY <3>3, <3>4 DEF TypeOK
      <3>6. c \notin Inside /\ Inside' = Inside \cup {c}
        BY <2>2, <3>2 DEF Acquire, TypeOK
      <3>7. PICK k \in Key : k = key[c]
        BY <3>3
      <3>8. Fifo!Enter(c, k)
        BY <3>2, <3>5, <3>6, <3>7 DEF Fifo!Enter, Fifo!IsFirst
      <3>9. QED
        BY <3>8
    <2>3. ASSUME NEW c \in Call, NEW outcome \in Outcome, Finish(c, outcome)
          PROVE  \E k \in Key : Fifo!Leave(c, k)
      <3>1. pc[c] = "critical"
        BY <2>3 DEF Finish
      <3>2. PICK i \in 1..Len(queue[key[c]]) :
              key[c] \in Key /\ queue[key[c]][i] = c
        BY <3>1 DEF ChainInv, QueueComplete, Active
      <3>3. i = 1
        BY <3>1, <3>2 DEF ChainInv, CriticalIsHead
      <3>4. queue[key[c]] # <<>> /\ Head(queue[key[c]]) = c
        BY <3>2, <3>3 DEF TypeOK
      <3>5. c \in Inside /\ Inside' = Inside \ {c}
        BY <2>3, <3>1 DEF Finish, TypeOK, Outcome
      <3>6. PICK k \in Key : k = key[c]
        BY <3>2
      <3>7. Fifo!Leave(c, k)
        BY <2>3, <3>4, <3>5, <3>6 DEF Finish, Fifo!Leave, Fifo!IsFirst
      <3>8. QED
        BY <3>7
    <2>4. ASSUME NEW c \in Call, Settle(c)
          PROVE  UNCHANGED Fifo!vars
      BY <2>4 DEF Settle, Fifo!vars
    <2>5. CASE UNCHANGED vars
      BY <2>5 DEF vars, Fifo!vars
    <2>6. ASSUME NEW c \in Call, NEW k \in Key,
                 Fifo!Arrive(c, k) \/ Fifo!Enter(c, k) \/ Fifo!Leave(c, k)
          PROVE  Fifo!Next
      BY <2>6 DEF Fifo!Next
    <2>7. CASE Next
      <3>1. PICK c \in Call :
              \/ \E k \in Key : Enqueue(c, k)
              \/ Acquire(c)
              \/ \E outcome \in Outcome : Finish(c, outcome)
              \/ Settle(c)
        BY <2>7 DEF Next
      <3>2. CASE \E k \in Key : Enqueue(c, k)
        BY <3>2, <2>1, <2>6
      <3>3. CASE Acquire(c)
        BY <3>3, <2>2, <2>6
      <3>4. CASE \E outcome \in Outcome : Finish(c, outcome)
        BY <3>4, <2>3, <2>6
      <3>5. CASE Settle(c)
        BY <3>5, <2>4
      <3>6. QED
        BY <3>1, <3>2, <3>3, <3>4, <3>5
    <2>8. QED
      BY <2>5, <2>7
  <1>3. QED
    BY <1>1, <1>2, ChainInvariant, PTL DEF Spec, Fifo!Spec, ImplementsFifoMutex
=============================================================================
