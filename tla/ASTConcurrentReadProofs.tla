------------------------ MODULE ASTConcurrentReadProofs ------------------------
(***************************************************************************)
(* Proofs about ASTConcurrentRead, for any number of readers, nodes, copies *)
(* and children.  IndInv is inductive; the safety properties follow, and    *)
(* so does that the protocol implements ASTNodeValue: what readers may      *)
(* observe of a node is resolved once, from its text alone.                 *)
(***************************************************************************)
EXTENDS ASTConcurrentRead, SequenceTheorems, TLAPS

\* What a step of g leaves alone of the other goroutines.
Elsewhere(g) ==
    \A h \in Goroutines \ {g} :
        /\ pc'[h] = pc[h] /\ mode'[h] = mode[h] /\ call'[h] = call[h]
        /\ cur'[h] = cur[h] /\ idx'[h] = idx[h] /\ stack'[h] = stack[h] /\ ptr'[h] = ptr[h]

FrameTypeOK ==
    /\ pc \in [Goroutines -> {"idle", "rlock", "rheld", "lock", "drain", "locked", "use"}]
    /\ mode \in [Goroutines -> Modes]
    /\ call \in [Goroutines -> Calls]
    /\ cur \in [Goroutines -> Nodes]
    /\ idx \in [Goroutines -> 1..(MaxKids + 1)]
    /\ stack \in [Goroutines -> Seq(Nodes \X (1..MaxKids))]
    /\ ptr \in [Goroutines -> Nodes]

\* Return ends a call: the goroutine is idle and holds the pointer p.
LEMMA ReturnStep ==
    ASSUME FrameTypeOK, NEW g \in Goroutines, NEW p \in Nodes, Return(g, p)
    PROVE  /\ FrameTypeOK' /\ Elsewhere(g)
           /\ pc'[g] = "idle" /\ cur'[g] = p /\ ptr'[g] = p /\ stack'[g] = <<>>
           /\ mode'[g] = "type"
<1>1. 1 \in 1..(MaxKids + 1) /\ <<>> \in Seq(Nodes \X (1..MaxKids))
  BY ShapeAssumption
<1>2. QED
  BY <1>1 DEF FrameTypeOK, Return, Elsewhere, Modes, Calls

\* Popping a non-empty stack, and pushing a frame, leave the others alone.
LEMMA PopStack ==
    ASSUME NEW S, NEW s \in Seq(S), s # <<>>
    PROVE  /\ Head(s) \in S /\ Tail(s) \in Seq(S)
           /\ Len(s) \in Nat \ {0} /\ Len(Tail(s)) = Len(s) - 1 /\ Head(s) = s[1]
           /\ \A i \in 1..Len(Tail(s)) : Tail(s)[i] = s[i + 1]
  BY HeadTailProperties, EmptySeq

\* ... and that of one pushed on it.
LEMMA PushStack ==
    ASSUME NEW S, NEW s \in Seq(S), NEW e \in S, NEW t, t = <<e>> \o s
    PROVE  /\ t \in Seq(S) /\ Len(t) = Len(s) + 1 /\ t[1] = e
           /\ \A i \in 2..(Len(s) + 1) : t[i] = s[i - 1]
<1>1. <<e>> \in Seq(S) /\ Len(<<e>>) = 1 /\ <<e>>[1] = e
  OBVIOUS
<1>2. QED
  BY <1>1, ConcatProperties, LenProperties

\* Leave ends a visit: the goroutine is idle or back at a settled node.
LEMMA LeaveStep ==
    ASSUME TypeOK, NEW g \in Goroutines, LocalOK(g), pc[g] # "idle", Leave(g), UNCHANGED heap
    PROVE  FrameTypeOK' /\ Elsewhere(g) /\ LocalOK(g)' /\ pc'[g] \in {"idle", "use"}
<1>1. CASE stack[g] = <<>>
  <2>1. Return(g, ptr[g]) /\ FrameTypeOK /\ ptr[g] \in Nodes /\ mu[ptr[g]] # NoMutex
    BY <1>1 DEF Leave, TypeOK, FrameTypeOK, LocalOK
  <2>2. FrameTypeOK' /\ Elsewhere(g) /\ pc'[g] = "idle" /\ stack'[g] = <<>>
        /\ cur'[g] = ptr[g] /\ ptr'[g] = ptr[g]
    BY <2>1, ReturnStep
  <2>3. QED
    BY <2>1, <2>2 DEF LocalOK, StackOK, heap
<1>2. CASE stack[g] # <<>>
  <2> DEFINE top == Head(stack[g])
  <2>1. stack[g] \in Seq(Nodes \X (1..MaxKids))
    BY DEF TypeOK
  <2>2. PICK t : t = Tail(stack[g])
    OBVIOUS
  <2>3. /\ top \in Nodes \X (1..MaxKids) /\ t \in Seq(Nodes \X (1..MaxKids))
        /\ Len(stack[g]) \in Nat \ {0} /\ Len(t) = Len(stack[g]) - 1 /\ top = stack[g][1]
        /\ \A i \in 1..Len(t) : t[i] = stack[g][i + 1]
    BY <1>2, <2>1, <2>2, PopStack, Zenon
  <2>4. /\ pc' = [pc EXCEPT ![g] = "use"]
        /\ cur' = [cur EXCEPT ![g] = top[1]]
        /\ idx' = [idx EXCEPT ![g] = top[2] + 1]
        /\ stack' = [stack EXCEPT ![g] = t]
        /\ UNCHANGED <<mode, call, ptr>>
    BY <1>2, <2>2, Zenon DEF Leave
  <2> HIDE DEF top
  <2>5. top[1] \in Nodes /\ top[2] + 1 \in 1..(MaxKids + 1)
    BY <2>3, ShapeAssumption
  <2>6. FrameTypeOK'
    BY <2>3, <2>4, <2>5 DEF TypeOK, FrameTypeOK
  <2>7. Elsewhere(g) /\ pc'[g] = "use" /\ cur'[g] = top[1] /\ stack'[g] = t
    BY <2>4 DEF TypeOK, Elsewhere
  <2>8. mu[top[1]] # NoMutex /\ Settled(top[1])
    <3>1. 1 \in 1..Len(stack[g]) /\ StackOK(g)
      BY <2>3 DEF LocalOK
    <3>2. QED
      BY <2>3, <3>1 DEF StackOK
  <2>9. StackOK(g)'
    <3>1. \A i \in 1..Len(t) : i + 1 \in 1..Len(stack[g])
      BY <2>3
    <3>2. \A i \in 1..Len(t) : LET n == t[i][1] IN
            mu[n] # NoMutex /\ Settled(n) /\ ~node[n].err /\ t[i][2] <= node[n].len
      BY <2>3, <3>1 DEF LocalOK, StackOK
    <3>3. QED
      BY <2>7, <3>2 DEF StackOK, Settled, heap
  <2>10. call'[g] = call[g] /\ mode'[g] = mode[g] /\ ptr'[g] = ptr[g] /\ mode[g] # "copy"
    BY <1>2, <2>4 DEF LocalOK
  <2>11. QED
    BY <2>6, <2>7, <2>8, <2>9, <2>10 DEF LocalOK, StackOK, Settled, heap
<1>3. QED
  BY <1>1, <1>2

\* Proceed makes the next call or uses the node, if the last call left it fit.
LEMMA ProceedStep ==
    ASSUME TypeOK, NEW g \in Goroutines, LocalOK(g), pc[g] \in {"rheld", "locked"},
           Proceed(g), UNCHANGED heap,
           LET next == After(mode[g], call[g]) IN
             /\ next = "use" \/ (next = "finish" /\ mode[g] = "value") => Settled(cur[g])
             /\ next = "peek" => node[cur[g]].raw \/ Settled(cur[g])
    PROVE  FrameTypeOK' /\ Elsewhere(g) /\ LocalOK(g)' /\ pc'[g] \in {"idle", "use", "rlock"}
<1> DEFINE next == After(mode[g], call[g])
<1>1. CASE next = "leave" /\ Leave(g)
  BY <1>1, LeaveStep
<1>2. CASE next = "use" /\ pc' = [pc EXCEPT ![g] = "use"] /\ UNCHANGED frame
  <2>1. FrameTypeOK' /\ Elsewhere(g) /\ pc'[g] = "use"
    BY <1>2 DEF TypeOK, FrameTypeOK, Elsewhere, frame
  <2>2. call[g] \in {"ensure", "finish"} /\ (mode[g] = "value" => call[g] = "finish")
    BY <1>2 DEF After
  <2>3. mode[g] # "copy"
    BY <1>2 DEF After
  <2>4. QED
    BY <1>2, <2>1, <2>2, <2>3 DEF LocalOK, StackOK, Settled, heap, frame
<1>3. CASE /\ next \in Calls
           /\ pc' = [pc EXCEPT ![g] = "rlock"]
           /\ call' = [call EXCEPT ![g] = next]
           /\ UNCHANGED <<mode, cur, idx, stack, ptr>>
  <2>1. FrameTypeOK' /\ Elsewhere(g) /\ pc'[g] = "rlock" /\ call'[g] = next
    BY <1>3 DEF TypeOK, FrameTypeOK, Elsewhere
  <2>2. next \in Program(mode[g])
    BY <1>3 DEF After, Program, Calls, TypeOK, Modes
  <2>3. QED
    BY <1>3, <2>1, <2>2 DEF LocalOK, StackOK, Settled, heap
<1>4. QED
  BY <1>1, <1>2, <1>3 DEF Proceed

\* RUnlock, by a goroutine that goes on without any lock, keeps LockOK.
LEMMA RUnlockStep ==
    ASSUME TypeOK, LockOK, NEW g \in Goroutines, pc[g] = "rheld",
           \A h \in Goroutines : mu[cur[h]] # NoMutex,
           RUnlock(g), Elsewhere(g),
           \A h \in Goroutines \ {g} : mu'[cur[h]] = mu[cur[h]],
           pc'[g] \notin {"rheld", "drain", "locked"}
    PROVE  /\ LockOK'
           /\ readers' \in [Mutexes -> SUBSET Goroutines]
           /\ writer' \in [Mutexes -> Goroutines \cup {None}]
<1>1. mu[cur[g]] \in Mutexes
  BY DEF TypeOK
<1>2. /\ readers' = [readers EXCEPT ![mu[cur[g]]] = @ \ {g}]
      /\ writer' = writer
  BY DEF RUnlock
<1>3. \A h \in Goroutines \ {g}, m \in Mutexes : h \in readers'[m] <=> h \in readers[m]
  BY <1>1, <1>2 DEF TypeOK
<1>4. \A m \in Mutexes : g \notin readers'[m] /\ writer'[m] # g
  BY <1>1, <1>2 DEF TypeOK, LockOK
<1>5. \A h \in Goroutines \ {g}, m \in Mutexes :
         /\ h \in readers'[m] <=> pc'[h] = "rheld" /\ mu'[cur'[h]] = m
         /\ writer'[m] = h <=> pc'[h] \in {"drain", "locked"} /\ mu'[cur'[h]] = m
  BY <1>2, <1>3 DEF LockOK, Elsewhere
<1>6. \A m \in Mutexes : readers'[m] \subseteq readers[m]
  BY <1>1, <1>2 DEF TypeOK
<1>7. \A h \in Goroutines : pc'[h] = "locked" => readers'[mu'[cur'[h]]] = {}
  <2> SUFFICES ASSUME NEW h \in Goroutines, pc'[h] = "locked"
               PROVE  readers'[mu'[cur'[h]]] = {}
    OBVIOUS
  <2>1. h # g /\ pc[h] = "locked" /\ mu'[cur'[h]] = mu[cur[h]]
    BY DEF Elsewhere
  <2>2. writer'[mu[cur[h]]] = h /\ readers[mu[cur[h]]] = {}
    <3>1. mu[cur[h]] \in Mutexes
      BY DEF TypeOK
    <3>2. QED
      BY <2>1, <3>1, <1>5 DEF LockOK
  <2>3. QED
    BY <2>1, <2>2, <1>6 DEF TypeOK
<1>8. QED
  BY <1>1, <1>2, <1>4, <1>5, <1>7 DEF LockOK, TypeOK

LocksTypeOK ==
    /\ readers \in [Mutexes -> SUBSET Goroutines]
    /\ writer \in [Mutexes -> Goroutines \cup {None}]

\* A step of g that writes no node preserves IndInv if it keeps LockOK and its
\* own LocalOK: the others' LocalOK reads g's state only through InFlight, and
\* g leaves a node it was loading when the node is settled.
LEMMA QuietStep ==
    ASSUME IndInv, NEW g \in Goroutines, UNCHANGED heap, Elsewhere(g),
           FrameTypeOK', LocksTypeOK', LockOK', LocalOK(g)',
           pc[g] = "locked" => (pc'[g] = "locked" /\ cur'[g] = cur[g]) \/ Settled(cur[g])
    PROVE  IndInv'
<1>1. TypeOK'
  BY DEF IndInv, TypeOK, FrameTypeOK, LocksTypeOK, heap
<1>2. HeapOK'
  BY DEF IndInv, HeapOK, heap
<1>3. ASSUME NEW h \in Goroutines, h # g
      PROVE  LocalOK(h)'
  <2>1. LocalOK(h)
    BY DEF IndInv
  <2>2. InFlight(cur[h]) => InFlight(cur[h])' \/ Settled(cur[h])
    BY <1>3 DEF InFlight, Elsewhere
  <2>3. /\ pc'[h] = pc[h] /\ mode'[h] = mode[h] /\ call'[h] = call[h]
        /\ cur'[h] = cur[h] /\ stack'[h] = stack[h] /\ ptr'[h] = ptr[h]
        /\ node' = node /\ mu' = mu
    BY <1>3 DEF Elsewhere, heap
  <2>4. (\A n \in Nodes : Settled(n)' = Settled(n)) /\ Settled(cur[h])' = Settled(cur[h])
    BY <2>3 DEF Settled
  <2>5. InFlight(cur[h])' = \E k \in Goroutines : pc'[k] = "locked" /\ cur'[k] = cur[h]
    BY <2>3 DEF InFlight
  <2>6. QED
    BY <2>1, <2>2, <2>3, <2>4, <2>5 DEF LocalOK, StackOK, Settled, InFlight
<1>4. QED
  BY <1>1, <1>2, <1>3 DEF IndInv

\* A call that releases the read lock and goes on without any lock.
LEMMA ReadStep ==
    ASSUME IndInv, NEW g \in Goroutines, pc[g] = "rheld", RUnlock(g), UNCHANGED heap,
           Elsewhere(g), FrameTypeOK', LocalOK(g)', pc'[g] \notin {"rheld", "drain", "locked"}
    PROVE  IndInv'
<1>1. \A h \in Goroutines : mu[cur[h]] # NoMutex /\ mu'[cur[h]] = mu[cur[h]]
  BY DEF IndInv, LocalOK, heap
<1>2. LockOK' /\ LocksTypeOK'
  BY <1>1, RUnlockStep DEF IndInv, LocksTypeOK
<1>3. QED
  BY <1>2, QuietStep

\* An error, or the end of a call, returns with the pointer it was given.
LEMMA FailStep ==
    ASSUME IndInv, NEW g \in Goroutines, Fail(g), UNCHANGED heap
    PROVE  FrameTypeOK' /\ Elsewhere(g) /\ LocalOK(g)' /\ pc'[g] = "idle"
<1>1. Return(g, ptr[g]) /\ ptr[g] \in Nodes /\ FrameTypeOK
  BY DEF Fail, IndInv, TypeOK, FrameTypeOK
<1>2. FrameTypeOK' /\ Elsewhere(g) /\ pc'[g] = "idle" /\ stack'[g] = <<>>
      /\ cur'[g] = ptr[g] /\ ptr'[g] = ptr[g]
  BY <1>1, ReturnStep
<1>3. QED
  BY <1>2 DEF LocalOK, StackOK, IndInv, heap

\* A goroutine that calls a read API holds a pointer to the node.
LEMMA StartStep ==
    ASSUME IndInv, NEW g \in Goroutines, NEW n \in Nodes, NEW m \in APIs, Start(g, n, m)
    PROVE  IndInv'
<1>1. /\ pc' = [pc EXCEPT ![g] = "rlock"]
      /\ mode' = [mode EXCEPT ![g] = m]
      /\ call' = [call EXCEPT ![g] = FirstCall(m)]
      /\ cur' = [cur EXCEPT ![g] = n]
      /\ ptr' = [ptr EXCEPT ![g] = n]
      /\ UNCHANGED <<heap, locks, idx, stack>>
  BY DEF Start
<1>2. m \in Modes
  BY ShapeAssumption
<1>3. FirstCall(m) \in Program(m) /\ FirstCall(m) \in Calls /\ FirstCall(m) # "peek"
      /\ (m = "value" => FirstCall(m) # "finish")
  BY <1>2 DEF FirstCall, Program, Modes, Calls
<1>4. mu[n] # NoMutex
  BY ShapeAssumption DEF Start, IndInv, LocalOK, HeapOK
<1>5. FrameTypeOK' /\ Elsewhere(g)
  BY <1>1, <1>2, <1>3 DEF IndInv, TypeOK, FrameTypeOK, Elsewhere
<1>6. LocksTypeOK'
  BY <1>1 DEF IndInv, TypeOK, LocksTypeOK, locks
<1>7. LockOK'
  <2>1. \A h \in Goroutines : h # g => pc'[h] = pc[h] /\ mu'[cur'[h]] = mu[cur[h]]
    BY <1>1, <1>5 DEF Elsewhere, heap
  <2>2. pc[g] = "idle" /\ pc'[g] = "rlock"
    BY <1>1 DEF Start, IndInv, TypeOK
  <2>3. QED
    BY <1>1, <2>1, <2>2 DEF LockOK, IndInv, locks
<1>8. LocalOK(g)'
  <2>1. pc'[g] = "rlock" /\ mode'[g] = m /\ call'[g] = FirstCall(m) /\ cur'[g] = n /\ ptr'[g] = n
        /\ stack'[g] = <<>> /\ mu' = mu
    BY <1>1 DEF IndInv, TypeOK, heap, Start, LocalOK
  <2>2. QED
    BY <1>3, <1>4, <2>1 DEF LocalOK, StackOK
<1>9. pc[g] # "locked" /\ UNCHANGED heap
  BY <1>1 DEF Start
<1>10. QED
  BY <1>5, <1>6, <1>7, <1>8, <1>9, QuietStep

\* Taking a lock changes pc and the lock only.
LEMMA LockStep ==
    ASSUME IndInv, NEW g \in Goroutines, RLock(g) \/ LockAnnounce(g) \/ LockAcquire(g)
    PROVE  IndInv'
<1>1. UNCHANGED <<heap, frame>> /\ pc[g] \in {"rlock", "lock", "drain"}
      /\ \E p \in {"rheld", "drain", "locked"} : pc' = [pc EXCEPT ![g] = p]
  BY DEF RLock, LockAnnounce, LockAcquire, locks
<1>2. FrameTypeOK' /\ Elsewhere(g)
  BY <1>1 DEF IndInv, TypeOK, FrameTypeOK, Elsewhere, frame
<1>3. /\ node' = node /\ mu' = mu /\ mode' = mode /\ call' = call /\ cur' = cur /\ stack' = stack
      /\ ptr' = ptr
  BY <1>1 DEF heap, frame
<1>4. \A h \in Goroutines : mu[cur[h]] \in Mutexes
  BY DEF IndInv, LocalOK, TypeOK
<1>5. \A h \in Goroutines : h # g => pc'[h] = pc[h] /\ mu'[cur'[h]] = mu[cur[h]]
  BY <1>2, <1>3 DEF Elsewhere
<1>6. LocalOK(g)'
  <2>1. CASE RLock(g)
    <3>1. pc[g] = "rlock" /\ pc'[g] = "rheld"
      BY <2>1 DEF RLock, IndInv, TypeOK
    <3>2. \A n : InFlight(n) => InFlight(n)'
      BY <1>3, <1>5, <3>1 DEF InFlight
    <3>3. InFlight(cur[g])' = \E k \in Goroutines : pc'[k] = "locked" /\ cur'[k] = cur[g]
      BY <1>3 DEF InFlight
    <3>4. QED
      BY <1>3, <3>1, <3>2, <3>3 DEF LocalOK, StackOK, IndInv, Settled, InFlight
  <2>2. CASE LockAnnounce(g) \/ LockAcquire(g)
    <3>1. pc[g] \in {"lock", "drain"} /\ pc'[g] \in {"drain", "locked"}
      BY <2>2 DEF LockAnnounce, LockAcquire, IndInv, TypeOK
    <3>2. QED
      BY <1>3, <3>1 DEF LocalOK, StackOK, IndInv, Settled
  <2>3. QED
    BY <2>1, <2>2
<1>7. LockOK' /\ LocksTypeOK'
  <2>1. CASE RLock(g)
    <3>1. /\ readers' = [readers EXCEPT ![mu[cur[g]]] = @ \cup {g}] /\ writer' = writer
          /\ writer[mu[cur[g]]] = None /\ pc[g] = "rlock" /\ pc'[g] = "rheld"
      BY <2>1 DEF RLock, IndInv, TypeOK
    <3>2. LocksTypeOK'
      BY <3>1, <1>4 DEF IndInv, TypeOK, LocksTypeOK
    <3>3. \A h \in Goroutines, m \in Mutexes :
             h \in readers'[m] <=> h \in readers[m] \/ (h = g /\ m = mu[cur[g]])
      BY <3>1 DEF IndInv, TypeOK
    <3>4. \A h \in Goroutines, m \in Mutexes :
             /\ h \in readers'[m] <=> pc'[h] = "rheld" /\ mu'[cur'[h]] = m
             /\ writer'[m] = h <=> pc'[h] \in {"drain", "locked"} /\ mu'[cur'[h]] = m
      BY <3>1, <3>3, <1>3, <1>5 DEF IndInv, LockOK
    <3>5. ASSUME NEW h \in Goroutines, pc'[h] = "locked"
          PROVE  readers'[mu'[cur'[h]]] = {}
      <4>1. h # g /\ mu'[cur'[h]] = mu[cur[h]] /\ writer[mu[cur[h]]] = h /\ readers[mu[cur[h]]] = {}
        BY <3>1, <3>5, <1>4, <1>5 DEF IndInv, LockOK
      <4>2. mu[cur[h]] # mu[cur[g]]
        BY <4>1, <3>1, ShapeAssumption
      <4>3. QED
        BY <4>1, <4>2, <3>1, <1>4 DEF IndInv, TypeOK
    <3>6. QED
      BY <3>2, <3>4, <3>5 DEF LockOK
  <2>2. CASE LockAnnounce(g)
    <3>1. /\ writer' = [writer EXCEPT ![mu[cur[g]]] = g] /\ readers' = readers
          /\ writer[mu[cur[g]]] = None /\ pc[g] = "lock" /\ pc'[g] = "drain"
      BY <2>2 DEF LockAnnounce, IndInv, TypeOK
    <3>2. LocksTypeOK'
      BY <3>1, <1>4 DEF IndInv, TypeOK, LocksTypeOK
    <3>3. \A m \in Mutexes : writer'[m] = IF m = mu[cur[g]] THEN g ELSE writer[m]
      BY <3>1 DEF IndInv, TypeOK
    <3>4. \A h \in Goroutines : writer[mu[cur[g]]] # h
      BY <3>1, ShapeAssumption
    <3>5. QED
      BY <3>1, <3>2, <3>3, <3>4, <1>3, <1>4, <1>5 DEF IndInv, LockOK
  <2>3. CASE LockAcquire(g)
    <3>1. /\ readers' = readers /\ writer' = writer /\ readers[mu[cur[g]]] = {}
          /\ pc[g] = "drain" /\ pc'[g] = "locked"
      BY <2>3 DEF LockAcquire, IndInv, TypeOK, locks
    <3>2. \A h \in Goroutines, m \in Mutexes :
             /\ h \in readers'[m] <=> pc'[h] = "rheld" /\ mu'[cur'[h]] = m
             /\ writer'[m] = h <=> pc'[h] \in {"drain", "locked"} /\ mu'[cur'[h]] = m
      BY <3>1, <1>3, <1>5 DEF IndInv, LockOK
    <3>3. ASSUME NEW h \in Goroutines, pc'[h] = "locked"
          PROVE  readers'[mu'[cur'[h]]] = {}
      BY <3>1, <3>3, <1>3, <1>5 DEF IndInv, LockOK
    <3>4. LocksTypeOK'
      BY <3>1 DEF IndInv, TypeOK, LocksTypeOK
    <3>5. QED
      BY <3>2, <3>3, <3>4 DEF LockOK
  <2>4. QED
    BY <2>1, <2>2, <2>3
<1>8. pc[g] # "locked" /\ UNCHANGED heap
  BY <1>1
<1>9. QED
  BY <1>2, <1>6, <1>7, <1>8, QuietStep

\* A call that turns to the write lock: nothing else of the goroutine changes.
LEMMA TurnToLock ==
    ASSUME IndInv, NEW g \in Goroutines, pc[g] = "rheld",
           call[g] = "ensure" \/ (call[g] = "finish" /\ ~node[cur[g]].raw),
           pc' = [pc EXCEPT ![g] = "lock"], UNCHANGED frame, UNCHANGED heap
    PROVE  FrameTypeOK' /\ Elsewhere(g) /\ LocalOK(g)' /\ pc'[g] = "lock"
<1>1. FrameTypeOK' /\ Elsewhere(g) /\ pc'[g] = "lock"
  BY DEF IndInv, TypeOK, FrameTypeOK, Elsewhere, frame
<1>2. QED
  BY <1>1 DEF LocalOK, StackOK, IndInv, Settled, heap, frame

\* Check and its like look at a node under the read lock and move on, whatever they find.
LEMMA CheckNodeStep ==
    ASSUME IndInv, NEW g \in Goroutines, CheckNode(g)
    PROVE  IndInv'
<1>1. /\ pc[g] = "rheld" /\ call[g] = "check" /\ RUnlock(g) /\ UNCHANGED heap
      /\ Fail(g) \/ Leave(g) \/ Proceed(g)
  BY DEF CheckNode
<1>2. TypeOK /\ LocalOK(g)
  BY DEF IndInv
<1>3. FrameTypeOK' /\ Elsewhere(g) /\ LocalOK(g)' /\ pc'[g] \in {"idle", "use", "rlock"}
  <2>1. CASE Fail(g)
    BY <1>1, <2>1, FailStep
  <2>2. CASE Leave(g)
    BY <1>1, <1>2, <2>2, LeaveStep
  <2>3. CASE Proceed(g)
    <3>1. After(mode[g], call[g]) \in {"ensure", "finish", "leave"}
          /\ ~(After(mode[g], call[g]) = "finish" /\ mode[g] = "value")
      BY <1>1 DEF After
    <3>2. QED
      BY <1>1, <1>2, <2>3, <3>1, ProceedStep
  <2>4. QED
    BY <1>1, <2>1, <2>2, <2>3
<1>4. QED
  BY <1>1, <1>3, ReadStep

\* ensureLoaded goes on to the write lock unless the node is settled.
LEMMA EnsureLoadedStep ==
    ASSUME IndInv, NEW g \in Goroutines, EnsureLoaded(g)
    PROVE  IndInv'
<1>1. /\ pc[g] = "rheld" /\ call[g] = "ensure" /\ RUnlock(g) /\ UNCHANGED heap
      /\ \/ pc' = [pc EXCEPT ![g] = "lock"] /\ UNCHANGED frame
         \/ Fail(g)
         \/ Proceed(g) /\ Settled(cur[g])
  BY DEF EnsureLoaded, Initialised, Settled
<1>2. TypeOK /\ LocalOK(g)
  BY DEF IndInv
<1>3. FrameTypeOK' /\ Elsewhere(g) /\ LocalOK(g)' /\ pc'[g] \notin {"rheld", "drain", "locked"}
  <2>1. CASE pc' = [pc EXCEPT ![g] = "lock"] /\ UNCHANGED frame
    BY <1>1, <2>1, TurnToLock
  <2>2. CASE Fail(g)
    BY <1>1, <2>2, FailStep
  <2>3. CASE Proceed(g) /\ Settled(cur[g])
    <3>1. After(mode[g], call[g]) # "peek"
      BY <1>1 DEF After
    <3>2. QED
      BY <1>1, <1>2, <2>3, <3>1, ProceedStep
  <2>4. QED
    BY <1>1, <2>1, <2>2, <2>3
<1>4. QED
  BY <1>1, <1>3, ReadStep

\* finishLazy goes on to the write lock only for a node with a cursor.
LEMMA FinishLazyStep ==
    ASSUME IndInv, NEW g \in Goroutines, FinishLazy(g)
    PROVE  IndInv'
<1>1. /\ pc[g] = "rheld" /\ call[g] = "finish" /\ RUnlock(g) /\ UNCHANGED heap
      /\ \/ /\ pc' = [pc EXCEPT ![g] = "lock"] /\ UNCHANGED frame
            /\ node[cur[g]].pos # 0
         \/ Fail(g)
         \/ Proceed(g) /\ (node[cur[g]].raw \/ Settled(cur[g]))
  BY DEF FinishLazy, Settled
<1>2. TypeOK /\ LocalOK(g)
  BY DEF IndInv
<1>3. FrameTypeOK' /\ Elsewhere(g) /\ LocalOK(g)' /\ pc'[g] \notin {"rheld", "drain", "locked"}
  <2>1. CASE pc' = [pc EXCEPT ![g] = "lock"] /\ UNCHANGED frame /\ node[cur[g]].pos # 0
    <3>1. ~node[cur[g]].raw
      BY <1>2, <2>1 DEF IndInv, HeapOK, NodeOK, TypeOK
    <3>2. QED
      BY <1>1, <2>1, <3>1, TurnToLock
  <2>2. CASE Fail(g)
    BY <1>1, <2>2, FailStep
  <2>3. CASE Proceed(g) /\ (node[cur[g]].raw \/ Settled(cur[g]))
    <3>1. /\ After(mode[g], call[g]) # "finish"
          /\ After(mode[g], call[g]) = "use" => mode[g] = "value"
      BY <1>1 DEF After
    <3>2. mode[g] = "value" => Settled(cur[g])
      BY <1>1, <1>2 DEF LocalOK
    <3>3. QED
      BY <1>1, <1>2, <2>3, <3>1, <3>2, ProceedStep
  <2>4. QED
    BY <1>1, <2>1, <2>2, <2>3
<1>4. QED
  BY <1>1, <1>3, ReadStep

\* While g holds the read lock nobody is loading the node it looks at, so a
\* node that is no longer raw is settled.
LEMMA PeekRawStep ==
    ASSUME IndInv, NEW g \in Goroutines, PeekRaw(g)
    PROVE  IndInv'
<1>1. /\ pc[g] = "rheld" /\ call[g] = "peek" /\ RUnlock(g) /\ UNCHANGED heap
      /\ \/ Leave(g)
         \/ pc' = [pc EXCEPT ![g] = "use"] /\ UNCHANGED frame /\ ~node[cur[g]].raw
  BY DEF PeekRaw, PeekUnlock
<1>2. TypeOK /\ LocalOK(g)
  BY DEF IndInv
<1>3. FrameTypeOK' /\ Elsewhere(g) /\ LocalOK(g)' /\ pc'[g] \in {"idle", "use"}
  <2>1. CASE Leave(g)
    BY <1>1, <1>2, <2>1, LeaveStep
  <2>2. CASE pc' = [pc EXCEPT ![g] = "use"] /\ UNCHANGED frame /\ ~node[cur[g]].raw
    <3>1. mu[cur[g]] \in Mutexes /\ g \in readers[mu[cur[g]]]
      BY <1>1, <1>2 DEF IndInv, LockOK, LocalOK, TypeOK
    <3>2. ~InFlight(cur[g])
      BY <3>1 DEF IndInv, LockOK, InFlight
    <3>3. Settled(cur[g])
      BY <1>1, <1>2, <2>2, <3>2 DEF LocalOK
    <3>4. FrameTypeOK' /\ Elsewhere(g) /\ pc'[g] = "use"
      BY <2>2 DEF IndInv, TypeOK, FrameTypeOK, Elsewhere, frame
    <3>5. mode[g] = "json"
      BY <1>1, <1>2 DEF LocalOK, Program, TypeOK, Modes
    <3>6. QED
      BY <1>1, <1>2, <2>2, <3>3, <3>4, <3>5 DEF LocalOK, StackOK, Settled, heap, frame
  <2>3. QED
    BY <1>1, <2>1, <2>2
<1>4. QED
  BY <1>1, <1>3, ReadStep

\* The write lock is released only when the node is settled.
LEMMA UnlockStep ==
    ASSUME IndInv, NEW g \in Goroutines, Unlock(g)
    PROVE  IndInv'
<1>1. /\ pc[g] = "locked" /\ writer' = [writer EXCEPT ![mu[cur[g]]] = None]
      /\ UNCHANGED <<heap, readers>>
      /\ Fail(g) \/ Proceed(g)
  BY DEF Unlock
<1>2. TypeOK /\ LocalOK(g) /\ mu[cur[g]] \in Mutexes
  BY DEF IndInv, TypeOK, LocalOK
<1>3. Settled(cur[g])
  <2>1. node[cur[g]].pos = 0 /\ (call[g] = "ensure" => ~node[cur[g]].raw)
    BY DEF Unlock, Loaded, StillRaw
  <2>2. CASE call[g] = "ensure"
    BY <2>1, <2>2 DEF Settled
  <2>3. CASE call[g] = "finish"
    BY <1>1, <1>2, <2>1, <2>3 DEF Settled, LocalOK
  <2>4. QED
    BY <1>1, <1>2, <2>2, <2>3 DEF LocalOK
<1>4. FrameTypeOK' /\ Elsewhere(g) /\ LocalOK(g)' /\ pc'[g] \in {"idle", "use", "rlock"}
  <2>1. CASE Fail(g)
    BY <1>1, <2>1, FailStep
  <2>2. CASE Proceed(g)
    BY <1>1, <1>2, <1>3, <2>2, ProceedStep
  <2>3. QED
    BY <2>1, <2>2, <1>1
<1>5. LockOK' /\ LocksTypeOK'
  <2>1. readers' = readers /\ mu' = mu
    BY <1>1 DEF heap
  <2>2. \A m \in Mutexes : writer'[m] = IF m = mu[cur[g]] THEN None ELSE writer[m]
    BY <1>1, <1>2 DEF TypeOK
  <2>3. \A h \in Goroutines : h # g => pc'[h] = pc[h] /\ mu'[cur'[h]] = mu[cur[h]]
    BY <1>4, <2>1 DEF Elsewhere
  <2>4. writer[mu[cur[g]]] = g /\ \A m \in Mutexes : writer[m] = g => m = mu[cur[g]]
    BY <1>1, <1>2 DEF IndInv, LockOK
  <2>5. \A h \in Goroutines, m \in Mutexes :
           /\ h \in readers'[m] <=> pc'[h] = "rheld" /\ mu'[cur'[h]] = m
           /\ writer'[m] = h <=> pc'[h] \in {"drain", "locked"} /\ mu'[cur'[h]] = m
    <3>1. None \notin Goroutines
      BY ShapeAssumption
    <3>2. \A m \in Mutexes : g \notin readers[m]
      BY <1>1 DEF IndInv, LockOK
    <3>3. QED
      BY <1>4, <2>1, <2>2, <2>3, <2>4, <3>1, <3>2 DEF IndInv, LockOK
  <2>6. ASSUME NEW h \in Goroutines, pc'[h] = "locked"
        PROVE  readers'[mu'[cur'[h]]] = {}
    <3>1. h # g
      BY <1>4, <2>6
    <3>2. pc[h] = "locked" /\ mu'[cur'[h]] = mu[cur[h]]
      BY <2>3, <2>6, <3>1
    <3>3. readers[mu[cur[h]]] = {}
      BY <3>2 DEF IndInv, LockOK
    <3>4. QED
      BY <2>1, <3>2, <3>3
  <2>7. LocksTypeOK'
    BY <1>1, <1>2, <2>1 DEF TypeOK, LocksTypeOK
  <2>8. QED
    BY <2>5, <2>6, <2>7 DEF LockOK
<1>6. UNCHANGED heap
  BY <1>1
<1>7. QED
  BY <1>3, <1>4, <1>5, <1>6, QuietStep

\* A step between two states in which the goroutine holds no lock.
LEMMA UnlockedStep ==
    ASSUME IndInv, NEW g \in Goroutines, pc[g] = "use", UNCHANGED <<heap, locks>>,
           Elsewhere(g), FrameTypeOK', LocalOK(g)', pc'[g] \notin {"rheld", "drain", "locked"}
    PROVE  IndInv'
<1>1. readers' = readers /\ writer' = writer /\ mu' = mu
  BY DEF heap, locks
<1>2. \A h \in Goroutines : h # g => pc'[h] = pc[h] /\ mu'[cur'[h]] = mu[cur[h]]
  BY <1>1 DEF Elsewhere
<1>3. LockOK'
  <2>1. \A h \in Goroutines, m \in Mutexes :
           /\ h \in readers'[m] <=> pc'[h] = "rheld" /\ mu'[cur'[h]] = m
           /\ writer'[m] = h <=> pc'[h] \in {"drain", "locked"} /\ mu'[cur'[h]] = m
    BY <1>1, <1>2 DEF IndInv, LockOK
  <2>2. ASSUME NEW h \in Goroutines, pc'[h] = "locked"
        PROVE  readers'[mu'[cur'[h]]] = {}
    BY <1>1, <1>2, <2>2 DEF IndInv, LockOK
  <2>3. QED
    BY <2>1, <2>2 DEF LockOK
<1>4. LocksTypeOK'
  BY <1>1 DEF IndInv, TypeOK, LocksTypeOK
<1>5. QED
  BY <1>3, <1>4, QuietStep

\* The children of a settled node that is no error are nodes with a mutex.
LEMMA ChildOK ==
    ASSUME IndInv, NEW n \in Nodes, NEW i \in 1..node[n].len
    PROVE  Slot(n, i) \in Nodes /\ Slot(n, i) \notin Copies /\ mu[Slot(n, i)] # NoMutex
           /\ i \in 1..MaxKids
<1>1. node[n] \in NodeRecord /\ NodeOK(n, node[n], cell)
  BY DEF IndInv, TypeOK, HeapOK
<1>2. node[n].arr \in Backings /\ i \in 1..MaxKids /\ MaxKids \in Nat
  BY <1>1, ShapeAssumption DEF NodeRecord
<1>3. Slot(n, i) \in Nodes \cup {Nil} /\ Slot(n, i) \notin Copies
  BY <1>2 DEF IndInv, TypeOK, HeapOK, Slot, Slots
<1>4. Slot(n, i) # Nil
  BY <1>1 DEF NodeOK, Holds, Slot
<1>5. QED
  BY <1>2, <1>3, <1>4, ShapeAssumption DEF IndInv, HeapOK

\* Get and Index return a child of a settled node, or the pointer they came with.
LEMMA UseGetStep ==
    ASSUME IndInv, NEW g \in Goroutines, UseGet(g)
    PROVE  IndInv'
<1>1. pc[g] = "use" /\ UNCHANGED <<heap, locks>> /\ TypeOK /\ LocalOK(g)
  BY DEF UseGet, IndInv
<1>2. PICK p : Return(g, p) /\ p \in Nodes /\ mu[p] # NoMutex
  <2>1. CASE Return(g, ptr[g])
    BY <1>1, <2>1 DEF TypeOK, LocalOK
  <2>2. CASE \E i \in GetRange(cur[g]) : Return(g, Slot(cur[g], i))
    BY <1>1, <2>2, ChildOK DEF GetRange, TypeOK
  <2>3. QED
    BY <2>1, <2>2 DEF UseGet
<1>3. FrameTypeOK' /\ Elsewhere(g) /\ pc'[g] = "idle" /\ cur'[g] = p /\ ptr'[g] = p
      /\ stack'[g] = <<>>
  BY <1>1, <1>2, ReturnStep DEF TypeOK, FrameTypeOK
<1>4. LocalOK(g)'
  BY <1>1, <1>2, <1>3 DEF LocalOK, StackOK, heap
<1>5. QED
  BY <1>1, <1>3, <1>4, UnlockedStep

\* The visit of a settled node ends after its last child.
LEMMA UseLeaveStep ==
    ASSUME IndInv, NEW g \in Goroutines, UseLeave(g) \/ UseError(g)
    PROVE  IndInv'
<1>1. pc[g] = "use" /\ UNCHANGED <<heap, locks>> /\ (Fail(g) \/ Leave(g)) /\ TypeOK /\ LocalOK(g)
  BY DEF UseLeave, UseError, IndInv
<1>2. FrameTypeOK' /\ Elsewhere(g) /\ LocalOK(g)' /\ pc'[g] \in {"idle", "use"}
  BY <1>1, FailStep, LeaveStep
<1>3. QED
  BY <1>1, <1>2, UnlockedStep

\* The visit of a settled node goes down to its next child.
LEMMA UseVisitStep ==
    ASSUME IndInv, NEW g \in Goroutines, UseVisit(g)
    PROVE  IndInv'
<1> DEFINE n == cur[g]
           e == <<n, idx[g]>>
<1>1. /\ pc[g] = "use" /\ mode[g] # "get" /\ ~node[n].err /\ idx[g] <= node[n].len
      /\ UNCHANGED <<heap, locks>> /\ TypeOK /\ LocalOK(g) /\ n \in Nodes
      /\ idx[g] \in 1..(MaxKids + 1) /\ MaxKids \in Nat /\ node[n] \in NodeRecord
  BY ShapeAssumption DEF UseVisit, IndInv, TypeOK
<1>2. idx[g] \in 1..node[n].len
  BY <1>1 DEF NodeRecord
<1>3. /\ Slot(n, idx[g]) \in Nodes /\ mu[Slot(n, idx[g])] # NoMutex
      /\ e \in Nodes \X (1..MaxKids)
  BY <1>1, <1>2, ChildOK
<1> HIDE DEF e
<1>4. stack[g] \in Seq(Nodes \X (1..MaxKids))
  BY <1>1 DEF TypeOK
<1>5. PICK t : t = <<e>> \o stack[g]
  OBVIOUS
<1>6. /\ t \in Seq(Nodes \X (1..MaxKids)) /\ Len(t) = Len(stack[g]) + 1 /\ t[1] = e
      /\ \A i \in 2..(Len(stack[g]) + 1) : t[i] = stack[g][i - 1]
  <2> DEFINE S == Nodes \X (1..MaxKids)
  <2>1. e \in S /\ stack[g] \in Seq(S)
    BY <1>3, <1>4
  <2> HIDE DEF S
  <2>2. \A s \in Seq(S) : t = <<e>> \o s => /\ t \in Seq(S) /\ Len(t) = Len(s) + 1
                                           /\ t[1] = e
                                           /\ \A i \in 2..(Len(s) + 1) : t[i] = s[i - 1]
    BY <2>1, PushStack
  <2>3. QED
    BY <2>1, <2>2, <1>5 DEF S
<1>7. /\ stack' = [stack EXCEPT ![g] = t]
      /\ cur' = [cur EXCEPT ![g] = Slot(n, idx[g])]
      /\ idx' = [idx EXCEPT ![g] = 1]
      /\ call' = [call EXCEPT ![g] = "check"]
      /\ pc' = [pc EXCEPT ![g] = "rlock"]
      /\ UNCHANGED <<mode, ptr>>
  BY <1>5, Zenon DEF UseVisit, e
<1>8. FrameTypeOK'
  BY <1>1, <1>3, <1>6, <1>7 DEF TypeOK, FrameTypeOK, Calls
<1>9. /\ Elsewhere(g) /\ pc'[g] = "rlock" /\ call'[g] = "check" /\ mode'[g] = mode[g]
      /\ cur'[g] = Slot(n, idx[g]) /\ stack'[g] = t /\ ptr'[g] = ptr[g]
  BY <1>1, <1>7 DEF TypeOK, Elsewhere
<1>10. "check" \in Program(mode[g])
  <2>1. mode[g] \in {"type", "each", "value", "json"}
    BY <1>1 DEF TypeOK, Modes, LocalOK, Program
  <2>2. QED
    BY <2>1 DEF Program
<1> USE DEF e
<1>11. ASSUME NEW i \in 1..Len(t)
       PROVE  LET k == t[i][1] IN
              mu[k] # NoMutex /\ Settled(k) /\ ~node[k].err /\ t[i][2] <= node[k].len
  <2>1. Len(stack[g]) \in Nat
    BY <1>4, LenProperties
  <2>2. CASE i = 1
    BY <1>1, <1>6, <2>2 DEF LocalOK, StackOK
  <2>3. CASE i # 1
    <3>1. i - 1 \in 1..Len(stack[g]) /\ t[i] = stack[g][i - 1]
      BY <1>6, <2>1, <2>3
    <3>2. QED
      BY <1>1, <3>1 DEF LocalOK, StackOK
  <2>4. QED
    BY <2>2, <2>3
<1>12. LocalOK(g)'
  <2>1. mu' = mu /\ node' = node
    BY <1>1 DEF heap
  <2>2. QED
    BY <1>1, <1>3, <1>9, <1>10, <1>11, <2>1 DEF LocalOK, StackOK, Settled
<1>13. QED
  BY <1>1, <1>8, <1>9, <1>12, UnlockedStep

\* A step of the loader of a node that is not settled disturbs no reader: every
\* unlocked reader and every waiting loop stands at a settled node.
LEMMA LoaderStep ==
    ASSUME IndInv, NEW g \in Goroutines, pc[g] = "locked", ~Settled(cur[g]),
           NEW r \in NodeRecord, ~r.raw, node' = [node EXCEPT ![cur[g]] = r],
           cell' \in [Backings -> [Slots -> Nodes \cup {Nil}]], HeapOK',
           UNCHANGED <<mu, locks, pc, frame>>
    PROVE  IndInv'
<1>1. /\ mu' = mu /\ readers' = readers /\ writer' = writer /\ pc' = pc /\ mode' = mode
      /\ call' = call /\ cur' = cur /\ idx' = idx /\ stack' = stack /\ ptr' = ptr
  BY DEF locks, frame
<1>2. TypeOK' /\ LockOK'
  <2>1. TypeOK'
    BY <1>1 DEF IndInv, TypeOK
  <2>2. LockOK'
    <3>1. LockOK
      BY DEF IndInv
    <3>2. QED
      BY <1>1, <3>1 DEF LockOK
  <2>3. QED
    BY <2>1, <2>2
<1>3. \A m \in Nodes : /\ Settled(m) => Settled(m)' /\ node'[m] = node[m]
                       /\ ~node[m].raw => ~node'[m].raw
                       /\ node'[m].raw => node[m].raw
                       /\ m # cur[g] => node'[m] = node[m]
  BY DEF IndInv, TypeOK, Settled
<1>4. ASSUME NEW h \in Goroutines
      PROVE  LocalOK(h)'
  <2>1. LocalOK(h) /\ cur[h] \in Nodes
    BY DEF IndInv, TypeOK
  <2>2. StackOK(h)'
    <3>1. stack[h] \in Seq(Nodes \X (1..MaxKids))
      BY DEF IndInv, TypeOK
    <3>2. \A i \in 1..Len(stack[h]) : stack[h][i][1] \in Nodes
      BY <3>1
    <3>3. QED
      BY <1>1, <1>3, <2>1, <3>2 DEF StackOK, LocalOK
  <2>3. InFlight(cur[h])' <=> InFlight(cur[h])
    BY <1>1 DEF InFlight
  <2>4. cur[h] = cur[g] => InFlight(cur[h])
    BY DEF InFlight
  <2>5. Settled(cur[h]) => Settled(cur[h])'
    BY <1>1, <1>3, <2>1 DEF Settled
  <2>6. /\ mu[cur[h]] # NoMutex /\ mu[ptr[h]] # NoMutex
        /\ pc[h] \in {"lock", "drain", "locked"} =>
             call[h] = "ensure" \/ (call[h] = "finish" /\ ~node'[cur[h]].raw)
        /\ pc[h] \in {"rlock", "rheld"} /\ call[h] = "peek" =>
             node'[cur[h]].raw \/ Settled(cur[h])' \/ InFlight(cur[h])'
    <3>1. CASE cur[h] = cur[g]
      BY <1>3, <2>1, <2>3, <2>4, <3>1 DEF LocalOK
    <3>2. CASE cur[h] # cur[g]
      BY <1>3, <2>1, <2>3, <2>5, <3>2 DEF LocalOK
    <3>3. QED
      BY <3>1, <3>2
  <2>7. QED
    BY <1>1, <2>1, <2>2, <2>5, <2>6 DEF LocalOK, Settled
<1>5. QED
  BY <1>2, <1>4 DEF IndInv

\* A failed node keeps its slice and has neither text nor cursor.
LEMMA FailedOK ==
    ASSUME NEW r \in NodeRecord
    PROVE  /\ Failed(r) \in NodeRecord /\ ~Failed(r).raw /\ Failed(r).err /\ Failed(r).pos = 0
           /\ Failed(r).arr = r.arr /\ Failed(r).len = r.len
<1>1. r.arr \in Backings /\ r.len \in 0..MaxKids /\ 0 \in 0..(MaxKids + 1)
  BY ShapeAssumption DEF NodeRecord
<1>2. QED
  BY <1>1 DEF Failed, NodeRecord

\* materializeUnlocked parses a scalar, or sets a container at its first child.
LEMMA MaterializeStep ==
    ASSUME IndInv, NEW g \in Goroutines, Materialize(g)
    PROVE  IndInv'
<1> DEFINE n == cur[g]
           r == IF n \in Scalars
                THEN IF ErrAt[n] # 0 THEN Failed(node[n]) ELSE [node[n] EXCEPT !.raw = FALSE]
                ELSE [node[n] EXCEPT !.raw = FALSE, !.pos = 1]
<1>1. /\ pc[g] = "locked" /\ node[n].raw /\ node' = [node EXCEPT ![n] = r] /\ cell' = cell
      /\ UNCHANGED <<mu, locks, pc, frame>> /\ n \in Nodes /\ node[n] \in NodeRecord
  BY DEF Materialize, StillRaw, IndInv, TypeOK
<1>2. node[n].pos = 0 /\ node[n].len = 0 /\ ~node[n].err /\ node[n].arr = NilArray
      /\ NodeOK(n, node[n], cell)
  BY <1>1 DEF IndInv, HeapOK, NodeOK
<1>3. /\ r \in NodeRecord /\ ~r.raw /\ r.len = 0 /\ r.arr = NilArray
      /\ n \in Scalars => r.pos = 0 /\ (r.err <=> ErrAt[n] # 0)
      /\ n \notin Scalars => r.pos = 1 /\ ~r.err
  <2>1. MaxKids \in Nat /\ (n \notin Scalars => 1 \in 0..(MaxKids + 1))
    BY ShapeAssumption
  <2>2. CASE n \in Scalars /\ ErrAt[n] # 0
    BY <1>1, <1>2, <2>2, FailedOK
  <2>3. CASE n \in Scalars /\ ErrAt[n] = 0
    BY <1>1, <1>2, <2>1, <2>3 DEF NodeRecord
  <2>4. CASE n \notin Scalars
    BY <1>1, <1>2, <2>1, <2>4 DEF NodeRecord
  <2>5. QED
    BY <2>2, <2>3, <2>4
<1> HIDE DEF r
<1>4. NodeOK(n, r, cell)
  <2>1. Kids[n] \in Seq(Nodes \ Copies) /\ ErrAt[n] \in Nat /\ (n \in Scalars => Len(Kids[n]) = 0)
    BY <1>1, ShapeAssumption
  <2>2. Len(Kids[n]) \in Nat
    BY <2>1, LenProperties
  <2>3. QED
    BY <1>1, <1>2, <1>3, <2>1, <2>2 DEF NodeOK
<1>5. HeapOK'
  <2>1. \A m \in Nodes : node'[m].arr = node[m].arr /\ (m # n => node'[m] = node[m])
    BY <1>1, <1>2, <1>3 DEF IndInv, TypeOK
  <2>2. node'[n] = r
    BY <1>1 DEF IndInv, TypeOK
  <2>3. mu[n] # NoMutex
    BY DEF IndInv, LocalOK
  <2>4. QED
    BY <1>1, <1>3, <1>4, <2>1, <2>2, <2>3 DEF IndInv, HeapOK
<1>6. cell' \in [Backings -> [Slots -> Nodes \cup {Nil}]] /\ ~Settled(n)
  BY <1>1 DEF IndInv, TypeOK, Settled
<1>7. QED
  BY <1>1, <1>3, <1>5, <1>6, LoaderStep

\* A node's children, its own array and what fits into one.
LEMMA KidsOK ==
    ASSUME NEW n \in Nodes
    PROVE  /\ MaxKids \in Nat /\ Kids[n] \in Seq(Nodes \ Copies) /\ Len(Kids[n]) \in 0..MaxKids
           /\ ErrAt[n] \in Nat /\ (ErrAt[n] > 1 => ErrAt[n] <= Len(Kids[n]))
           /\ Own[n] \in Backings /\ Cap[Own[n]] = MaxKids
           /\ \A b \in Backings : Cap[b] \in 0..MaxKids
           /\ Cap[NilArray] = 0
<1>1. Kids[n] \in Seq(Nodes \ Copies) /\ Len(Kids[n]) <= MaxKids
  BY ShapeAssumption
<1>2. Len(Kids[n]) \in Nat
  BY <1>1, LenProperties
<1>3. QED
  BY <1>1, <1>2, ShapeAssumption, InitAssumption

\* The fields of node n once child pos stands in its slot of array a.
LEMMA Advance ==
    ASSUME NEW n \in Nodes, n \notin Scalars, NEW pos \in 1..Len(Kids[n]),
           ErrAt[n] = 0 \/ pos <= ErrAt[n], ErrAt[n] # pos,
           NEW a \in Backings, pos <= Cap[a],
           NEW c, Holds(a, pos, n, c), Fits(a, n, c)
    PROVE  LET q == Appended(n, a, pos) IN
           q \in NodeRecord /\ ~q.raw /\ q.arr = a /\ NodeOK(n, q, c)
<1> DEFINE q == Appended(n, a, pos)
<1>1. pos \in 1..MaxKids /\ MaxKids \in Nat /\ Len(Kids[n]) \in Nat /\ ErrAt[n] \in Nat
  BY KidsOK
<1>2. /\ NextPos(n, pos) \in 0..(MaxKids + 1)
      /\ NextPos(n, pos) # 0 => NextPos(n, pos) = pos + 1 /\ pos + 1 <= Len(Kids[n])
      /\ NextPos(n, pos) = 0 => pos = Len(Kids[n])
  BY <1>1, KidsOK DEF NextPos
<1>3. q \in NodeRecord
  BY <1>1, <1>2 DEF NodeRecord, Appended
<1>4. NextPos(n, pos) # 0 => ErrAt[n] = 0 \/ pos + 1 <= ErrAt[n]
  BY <1>1
<1>5. NextPos(n, pos) = 0 => ErrAt[n] = 0
  BY <1>1, <1>2, KidsOK
<1>6. QED
  BY <1>2, <1>3, <1>4, <1>5 DEF NodeOK, Appended

\* loadNext fills slot s of the array r.arr: whoever shares the array has the
\* same text and finds the child it would have sliced off there itself.
LEMMA InPlaceStep ==
    ASSUME TypeOK, HeapOK, NEW n \in Nodes, n \notin Scalars, mu[n] # NoMutex, mu' = mu,
           NEW s \in 1..Len(Kids[n]), s <= Cap[node[n].arr], node[n].len = s - 1,
           ErrAt[n] = 0 \/ s <= ErrAt[n], ErrAt[n] # s,
           node' = [node EXCEPT ![n] = Appended(n, node[n].arr, s)],
           cell' = [cell EXCEPT ![node[n].arr][s] = FillSlot(@, Kids[n][s])]
    PROVE  LET q == Appended(n, node[n].arr, s) IN
           q \in NodeRecord /\ ~q.raw /\ cell' \in [Backings -> [Slots -> Nodes \cup {Nil}]]
           /\ HeapOK'
<1> DEFINE a == node[n].arr
           v == FillSlot(cell[a][s], Kids[n][s])
           q == Appended(n, a, s)
<1>1. /\ a \in Backings /\ s \in Slots /\ s \in 1..MaxKids /\ a # NilArray /\ MaxKids \in Nat
      /\ Kids[n][s] \in Nodes \ Copies
  <2>1. /\ MaxKids \in Nat /\ Len(Kids[n]) \in 0..MaxKids /\ Kids[n] \in Seq(Nodes \ Copies)
        /\ Cap[NilArray] = 0
    BY KidsOK
  <2>2. a \in Backings
    BY DEF TypeOK, NodeRecord
  <2>3. s \in 1..MaxKids /\ Kids[n][s] \in Nodes \ Copies
    BY <2>1
  <2>4. a # NilArray
    BY <2>1, <2>3
  <2>5. QED
    BY <2>1, <2>2, <2>3, <2>4 DEF Slots
<1>2. /\ NodeOK(n, node[n], cell)
      /\ \A m \in Nodes : node[m].arr = a => SameText(n, m) /\ mu[n] = mu[m]
  BY <1>1 DEF HeapOK
<1>3. v \in Nodes /\ v # Nil /\ v \notin Copies /\ Text[v] = Text[Kids[n][s]]
  <2>1. CASE cell[a][s] = Nil
    BY <1>1, <2>1, ShapeAssumption DEF FillSlot
  <2>2. CASE cell[a][s] # Nil
    BY <1>1, <1>2, <2>2 DEF FillSlot, TypeOK, HeapOK, NodeOK, Fits
  <2>3. QED
    BY <2>1, <2>2
<1>4. \A b \in Backings, i \in Slots : cell'[b][i] = IF b = a /\ i = s THEN v ELSE cell[b][i]
  BY <1>1 DEF TypeOK
<1>5. v = cell[a][s] \/ cell[a][s] = Nil
  BY DEF FillSlot
<1> HIDE DEF v
<1>6. cell' \in [Backings -> [Slots -> Nodes \cup {Nil}]]
  BY <1>1, <1>3 DEF TypeOK, v
<1>7. \A b \in Backings, i \in Slots : cell[b][i] # Nil => cell'[b][i] = cell[b][i]
  BY <1>4, <1>5
<1>8. ASSUME NEW m \in Nodes
      PROVE  Fits(node[m].arr, m, cell') /\ Holds(node[m].arr, node[m].len, m, cell')
  <2>1. node[m].arr \in Backings /\ node[m].len \in 0..MaxKids /\ NodeOK(m, node[m], cell)
    BY DEF TypeOK, HeapOK, NodeRecord
  <2>2. Holds(node[m].arr, node[m].len, m, cell')
    BY <1>1, <1>7, <2>1 DEF NodeOK, Holds, Slots
  <2>3. CASE node[m].arr = a
    <3>1. SameText(n, m)
      BY <1>2, <2>3
    <3>2. s <= Len(Kids[m]) /\ Text[Kids[m][s]] = Text[v]
      BY <1>3, <3>1 DEF SameText
    <3>3. QED
      BY <1>1, <1>3, <1>4, <2>1, <2>2, <2>3, <3>2 DEF NodeOK, Fits
  <2>4. CASE node[m].arr # a
    BY <1>4, <2>1, <2>2, <2>4 DEF NodeOK, Fits
  <2>5. QED
    BY <2>3, <2>4
<1>9. Holds(a, s, n, cell')
  <2>1. \A j \in 1..s : j = s \/ j \in 1..node[n].len
    BY <1>1
  <2>2. QED
    BY <1>1, <1>3, <1>4, <1>8, <2>1 DEF Holds
<1>10. q \in NodeRecord /\ ~q.raw /\ q.arr = a /\ NodeOK(n, q, cell')
  <2>1. Fits(a, n, cell') /\ s <= Cap[a]
    BY <1>8
  <2>2. QED
    BY <1>1, <1>9, <2>1, Advance
<1>11. \A m \in Nodes : /\ NodeOK(m, node'[m], cell')
                        /\ node'[m].arr = node[m].arr
                        /\ node'[m] = IF m = n THEN q ELSE node[m]
  <2>1. \A m \in Nodes : node'[m] = IF m = n THEN q ELSE node[m]
    BY DEF TypeOK
  <2>2. \A m \in Nodes : NodeOK(m, node[m], cell')
    BY <1>8 DEF HeapOK, NodeOK
  <2>3. QED
    BY <1>10, <2>1, <2>2
<1>12. ASSUME NEW m \in Nodes, node'[m].arr # Own[m], NEW i \in Slots
       PROVE  cell'[Own[m]][i] = Nil
  <2>1. cell[Own[m]][i] = Nil /\ Own[m] \in Backings /\ Own[m] # a
    <3>1. node[m].arr # Own[m] /\ Own[m] \in Backings
      BY <1>11, <1>12, ShapeAssumption
    <3>2. a # Own[m] /\ cell[Own[m]][i] = Nil
      BY <3>1 DEF HeapOK
    <3>3. QED
      BY <3>1, <3>2
  <2>2. QED
    BY <1>4, <2>1
<1>13. QED
  <2>1. \A b \in Backings, i \in Slots : cell'[b][i] \notin Copies
    BY <1>3, <1>4 DEF HeapOK
  <2>2. \A m \in Nodes : /\ m \notin Copies => mu'[m] = MutexOf[m]
                         /\ mu'[m] = NoMutex => node'[m].raw
    BY <1>11 DEF HeapOK
  <2>3. \A l, m \in Nodes :
           /\ node'[m].arr = Own[l] => node'[l].arr = Own[l]
           /\ node'[l].arr = node'[m].arr =>
                node'[l].arr = NilArray \/ (SameText(l, m) /\ mu'[l] = mu'[m])
    BY <1>11 DEF HeapOK
  <2>4. QED
    BY <1>6, <1>10, <1>11, <1>12, <2>1, <2>2, <2>3 DEF HeapOK

\* loadNext moves to the node's own array when the shared one is full: nobody
\* stands at that array yet, and it gets the children sliced off so far.
LEMMA MoveStep ==
    ASSUME TypeOK, HeapOK, NEW n \in Nodes, n \notin Scalars, mu[n] # NoMutex, mu' = mu,
           NEW s \in 1..Len(Kids[n]), s > Cap[node[n].arr], node[n].len = s - 1,
           ErrAt[n] = 0 \/ s <= ErrAt[n], ErrAt[n] # s,
           node' = [node EXCEPT ![n] = Appended(n, Own[n], s)],
           cell' = [cell EXCEPT ![Own[n]] =
                      [i \in Slots |-> IF i < s THEN cell[node[n].arr][i]
                                       ELSE IF i = s THEN Kids[n][s] ELSE Nil]]
    PROVE  LET q == Appended(n, Own[n], s) IN
           q \in NodeRecord /\ ~q.raw /\ cell' \in [Backings -> [Slots -> Nodes \cup {Nil}]]
           /\ HeapOK'
<1> DEFINE a == node[n].arr
           b == Own[n]
           q == Appended(n, b, s)
<1>1. /\ a \in Backings /\ b \in Backings /\ s \in Slots /\ s \in 1..MaxKids /\ a # b
      /\ MaxKids \in Nat /\ Kids[n][s] \in Nodes \ Copies /\ s <= Cap[b]
  <2>1. /\ MaxKids \in Nat /\ Len(Kids[n]) \in 0..MaxKids /\ Kids[n] \in Seq(Nodes \ Copies)
        /\ b \in Backings /\ Cap[b] = MaxKids
    BY KidsOK
  <2>2. a \in Backings
    BY DEF TypeOK, NodeRecord
  <2>3. s \in 1..MaxKids /\ Kids[n][s] \in Nodes \ Copies
    BY <2>1
  <2>4. a # b
    BY <2>1, <2>3
  <2>5. QED
    BY <2>1, <2>2, <2>3, <2>4 DEF Slots
<1>2. NodeOK(n, node[n], cell) /\ \A m \in Nodes : node[m].arr # b
  BY <1>1 DEF HeapOK
<1>3. /\ \A c \in Backings : c # b => cell'[c] = cell[c]
      /\ \A i \in Slots : cell'[b][i] = IF i < s THEN cell[a][i]
                                        ELSE IF i = s THEN Kids[n][s] ELSE Nil
  BY <1>1 DEF TypeOK
<1>4. cell' \in [Backings -> [Slots -> Nodes \cup {Nil}]]
  <2>1. [i \in Slots |-> IF i < s THEN cell[a][i] ELSE IF i = s THEN Kids[n][s] ELSE Nil]
          \in [Slots -> Nodes \cup {Nil}]
    BY <1>1 DEF TypeOK
  <2>2. QED
    BY <1>1, <2>1 DEF TypeOK
<1>5. ASSUME NEW i \in Slots, cell'[b][i] # Nil
      PROVE  /\ cell'[b][i] \notin Copies
             /\ i <= Len(Kids[n]) /\ Text[cell'[b][i]] = Text[Kids[n][i]]
  <2>1. i \in Nat
    BY <1>1 DEF Slots
  <2>2. CASE i < s
    BY <1>1, <1>2, <1>3, <1>5, <2>2 DEF NodeOK, Fits, HeapOK
  <2>3. CASE i = s
    BY <1>1, <1>3, <2>3
  <2>4. CASE i > s
    BY <1>1, <1>3, <1>5, <2>1, <2>4
  <2>5. QED
    BY <1>1, <2>1, <2>2, <2>3, <2>4
<1>6. Fits(b, n, cell')
  BY <1>5 DEF Fits
<1>7. ASSUME NEW j \in 1..s
      PROVE  cell'[b][j] # Nil
  <2>1. j \in Slots
    BY <1>1 DEF Slots
  <2>2. CASE j = s
    BY <1>1, <1>3, <2>2, ShapeAssumption
  <2>3. CASE j # s
    <3>1. j \in 1..node[n].len /\ j < s
      BY <1>1, <2>3
    <3>2. QED
      BY <1>2, <1>3, <2>1, <3>1 DEF NodeOK, Holds
  <2>4. QED
    BY <2>2, <2>3
<1>8. Holds(b, s, n, cell')
  <2>1. \A j \in 1..s : j \in Slots
    BY <1>1 DEF Slots
  <2>2. QED
    BY <1>5, <1>7, <2>1 DEF Holds
<1>9. q \in NodeRecord /\ ~q.raw /\ q.arr = b /\ NodeOK(n, q, cell')
  BY <1>1, <1>6, <1>8, Advance
<1> HIDE DEF q
<1>10. \A m \in Nodes : node'[m] = IF m = n THEN q ELSE node[m]
  BY DEF TypeOK, q
<1>11. ASSUME NEW m \in Nodes
       PROVE  NodeOK(m, node'[m], cell')
  <2>1. CASE m = n
    BY <1>9, <1>10, <2>1
  <2>2. CASE m # n
    <3>1. node'[m] = node[m] /\ node[m].arr \in Backings /\ cell'[node[m].arr] = cell[node[m].arr]
      BY <1>2, <1>3, <1>10, <2>2 DEF TypeOK, NodeRecord
    <3>2. NodeOK(m, node[m], cell)
      BY DEF HeapOK
    <3>3. QED
      BY <3>1, <3>2 DEF NodeOK, Holds, Fits
  <2>3. QED
    BY <2>1, <2>2
<1>12. \A m \in Nodes : m # n => Own[m] # b /\ Own[m] \in Backings
  BY ShapeAssumption, InitAssumption
<1>13. ASSUME NEW m \in Nodes, node'[m].arr # Own[m], NEW i \in Slots
       PROVE  cell'[Own[m]][i] = Nil
  <2>1. m # n
    BY <1>9, <1>10, <1>13
  <2>2. node[m].arr # Own[m] /\ cell'[Own[m]] = cell[Own[m]]
    BY <1>3, <1>10, <1>12, <1>13, <2>1
  <2>3. QED
    BY <2>2 DEF HeapOK
<1>14. \A m \in Nodes : /\ m \notin Copies => mu'[m] = MutexOf[m]
                        /\ mu'[m] = NoMutex => node'[m].raw
  BY <1>10 DEF HeapOK
<1>15. \A l, m \in Nodes :
          /\ node'[m].arr = Own[l] => node'[l].arr = Own[l]
          /\ node'[l].arr = node'[m].arr =>
               node'[l].arr = NilArray \/ (SameText(l, m) /\ mu'[l] = mu'[m])
  <2>1. \A m \in Nodes : node'[m].arr = IF m = n THEN b ELSE node[m].arr
    BY <1>9, <1>10
  <2>2. SameText(n, n)
    BY DEF SameText
  <2>3. \A l, m \in Nodes : node'[m].arr = Own[l] => node'[l].arr = Own[l]
    BY <1>2, <1>12, <2>1 DEF HeapOK
  <2>4. \A l, m \in Nodes : node'[l].arr = node'[m].arr =>
               node'[l].arr = NilArray \/ (SameText(l, m) /\ mu'[l] = mu'[m])
    BY <1>2, <2>1, <2>2 DEF HeapOK
  <2>5. QED
    BY <2>3, <2>4
<1>16. ASSUME NEW c \in Backings, NEW i \in Slots
       PROVE  cell'[c][i] \notin Copies
  <2>1. Nil \notin Copies
    BY ShapeAssumption
  <2>2. CASE c = b
    BY <1>5, <2>1, <2>2
  <2>3. CASE c # b
    BY <1>3, <2>3 DEF HeapOK
  <2>4. QED
    BY <2>2, <2>3
<1>17. HeapOK'
  <2>1. \A m \in Nodes : node'[m].arr # Own[m] => \A i \in Slots : cell'[Own[m]][i] = Nil
    BY <1>13
  <2>2. \A m \in Nodes : NodeOK(m, node'[m], cell')
    BY <1>11
  <2>3. QED
    BY <2>1, <2>2, <1>14, <1>15, <1>16, Zenon DEF HeapOK
<1>18. QED
  BY <1>4, <1>9, <1>17 DEF q

\* loadNext fails, ends, or puts one more child in place or into a new array.
LEMMA LoadNextStep ==
    ASSUME IndInv, NEW g \in Goroutines, LoadNext(g)
    PROVE  IndInv'
<1> DEFINE n == cur[g]
           r == node[n]
           s == r.len + 1
<1>1. /\ pc[g] = "locked" /\ r.pos # 0 /\ UNCHANGED <<mu, locks, pc, frame>>
      /\ n \in Nodes /\ r \in NodeRecord /\ NodeOK(n, r, cell) /\ mu[n] # NoMutex
      /\ TypeOK /\ HeapOK
  BY DEF LoadNext, IndInv, TypeOK, HeapOK, LocalOK
<1>2. /\ MaxKids \in Nat /\ Kids[n] \in Seq(Nodes \ Copies) /\ Len(Kids[n]) \in 0..MaxKids
      /\ ErrAt[n] \in Nat /\ (ErrAt[n] > 1 => ErrAt[n] <= Len(Kids[n]))
      /\ Own[n] \in Backings /\ Cap[Own[n]] = MaxKids
      /\ \A b \in Backings : Cap[b] \in 0..MaxKids
      /\ Cap[NilArray] = 0
  BY <1>1, KidsOK
<1>3. /\ ~r.raw /\ ~r.err /\ r.pos = s /\ s \in 1..(MaxKids + 1) /\ n \notin Scalars
      /\ r.arr \in Backings /\ r.len <= Cap[r.arr] /\ (r.pos <= Len(Kids[n]) \/ r.pos = 1)
      /\ ErrAt[n] = 0 \/ r.pos <= ErrAt[n]
      /\ ~Settled(n)
  BY <1>1, <1>2 DEF NodeOK, NodeRecord, Settled
<1> DEFINE Kid == Kids[n][r.pos]
<1>4. Kids[n] # <<>> => s \in 1..Len(Kids[n]) /\ s \in Slots /\ Kid \in Nodes /\ Kid \notin Copies
                        /\ Kid # Nil
  <2>1. Kids[n] # <<>> => Len(Kids[n]) \in Nat \ {0}
    BY <1>2, EmptySeq, LenProperties
  <2>2. Kids[n] # <<>> => s \in 1..Len(Kids[n])
    BY <1>3, <2>1
  <2>3. Kids[n] # <<>> => s \in Slots /\ Kid \in Nodes \ Copies
    BY <1>2, <1>3, <2>2 DEF Slots
  <2>4. QED
    BY <2>2, <2>3, ShapeAssumption
<1>5. CASE ErrAt[n] = r.pos /\ node' = [node EXCEPT ![n] = Failed(r)] /\ cell' = cell
  <2>1. Failed(r) \in NodeRecord /\ ~Failed(r).raw /\ Failed(r).err /\ Failed(r).pos = 0
        /\ Failed(r).arr = r.arr /\ Failed(r).len = r.len
    BY <1>1, FailedOK
  <2>2. NodeOK(n, Failed(r), cell)
    BY <1>1, <1>5, <2>1 DEF NodeOK
  <2>3. HeapOK'
    <3>1. \A m \in Nodes : node'[m].arr = node[m].arr /\ (m # n => node'[m] = node[m])
      BY <1>1, <1>5, <2>1 DEF TypeOK
    <3>2. node'[n] = Failed(r) /\ mu' = mu
      BY <1>1, <1>5 DEF TypeOK
    <3>3. QED
      BY <1>1, <1>5, <2>2, <3>1, <3>2 DEF HeapOK
  <2>4. QED
    BY <1>1, <1>3, <1>5, <2>1, <2>3, LoaderStep DEF TypeOK
<1>6. CASE ErrAt[n] # r.pos /\ Kids[n] = <<>> /\ node' = [node EXCEPT ![n] = [r EXCEPT !.pos = 0]]
           /\ cell' = cell
  <2> DEFINE q == [r EXCEPT !.pos = 0]
  <2>1. q \in NodeRecord /\ ~q.raw /\ ~q.err /\ q.pos = 0 /\ q.arr = r.arr /\ q.len = r.len
    BY <1>1, <1>2, <1>3 DEF NodeRecord
  <2>2. Len(Kids[n]) = 0
    BY <1>6, <1>2, EmptySeq
  <2>3. ErrAt[n] = 0 /\ r.len = 0
    BY <1>1, <1>2, <1>3, <1>6, <2>2 DEF NodeRecord
  <2> HIDE DEF q
  <2>4. NodeOK(n, q, cell)
    BY <1>1, <2>1, <2>2, <2>3 DEF NodeOK
  <2>5. HeapOK'
    <3>1. \A m \in Nodes : node'[m].arr = node[m].arr /\ (m # n => node'[m] = node[m])
      BY <1>1, <1>6, <2>1 DEF TypeOK, q
    <3>2. node'[n] = q /\ mu' = mu
      BY <1>1, <1>6 DEF TypeOK, q
    <3>3. QED
      BY <1>1, <1>6, <2>4, <3>1, <3>2 DEF HeapOK
  <2>6. QED
    BY <1>1, <1>3, <1>6, <2>1, <2>5, LoaderStep DEF TypeOK, q

<1>7. CASE /\ ErrAt[n] # r.pos /\ Kids[n] # <<>> /\ s <= Cap[r.arr]
           /\ cell' = [cell EXCEPT ![r.arr][s] = FillSlot(@, Kids[n][r.pos])]
           /\ node' = [node EXCEPT ![n] = Appended(n, r.arr, s)]
  <2>1. /\ s \in 1..Len(Kids[n]) /\ r.len = s - 1 /\ mu' = mu
        /\ ErrAt[n] = 0 \/ s <= ErrAt[n]
        /\ ErrAt[n] # s
        /\ cell' = [cell EXCEPT ![r.arr][s] = FillSlot(@, Kids[n][s])]
    BY <1>1, <1>3, <1>4, <1>7 DEF NodeRecord
  <2>2. LET q == Appended(n, r.arr, s) IN
        q \in NodeRecord /\ ~q.raw /\ cell' \in [Backings -> [Slots -> Nodes \cup {Nil}]] /\ HeapOK'
    BY <1>1, <1>3, <1>7, <2>1, InPlaceStep
  <2>3. QED
    BY <1>1, <1>3, <1>7, <2>2, LoaderStep
<1>8. CASE /\ ErrAt[n] # r.pos /\ Kids[n] # <<>> /\ s > Cap[r.arr]
           /\ cell' = [cell EXCEPT ![Own[n]] =
                         [i \in Slots |-> IF i < s THEN cell[r.arr][i]
                                          ELSE IF i = s THEN Kids[n][r.pos] ELSE Nil]]
           /\ node' = [node EXCEPT ![n] = Appended(n, Own[n], s)]
  <2>1. /\ s \in 1..Len(Kids[n]) /\ r.len = s - 1 /\ mu' = mu
        /\ ErrAt[n] = 0 \/ s <= ErrAt[n]
        /\ ErrAt[n] # s
        /\ cell' = [cell EXCEPT ![Own[n]] =
                      [i \in Slots |-> IF i < s THEN cell[r.arr][i]
                                       ELSE IF i = s THEN Kids[n][s] ELSE Nil]]
    BY <1>1, <1>3, <1>4, <1>8 DEF NodeRecord
  <2>2. LET q == Appended(n, Own[n], s) IN
        q \in NodeRecord /\ ~q.raw /\ cell' \in [Backings -> [Slots -> Nodes \cup {Nil}]] /\ HeapOK'
    BY <1>1, <1>3, <1>8, <2>1, MoveStep
  <2>3. QED
    BY <1>1, <1>3, <1>8, <2>2, LoaderStep
<1>9. QED
  BY <1>5, <1>6, <1>7, <1>8 DEF LoadNext

\* A snapshot has the fields, the text and the mutex of its original.
LEMMA SnapshotStep ==
    ASSUME IndInv, NEW g \in Goroutines, Snapshot(g)
    PROVE  IndInv'
<1> DEFINE n == cur[g]
<1>1. PICK d \in Copies :
        /\ pc[g] = "rheld" /\ RUnlock(g) /\ CopyOf[d] = n /\ mu[d] = NoMutex
        /\ node' = [node EXCEPT ![d] = node[n]] /\ mu' = [mu EXCEPT ![d] = mu[n]]
        /\ Return(g, d) /\ cell' = cell
  BY DEF Snapshot
<1>2. /\ TypeOK /\ HeapOK /\ d \in Nodes /\ n \in Nodes /\ mu[n] # NoMutex /\ n # d
      /\ node[d].raw /\ node[d].arr = NilArray /\ n \notin Copies /\ SameText(d, n)
  <2>1. TypeOK /\ HeapOK /\ LocalOK(g)
    BY DEF IndInv
  <2>2. n \in Nodes /\ mu[n] # NoMutex
    BY <2>1 DEF TypeOK, LocalOK
  <2>3. d \in Nodes /\ n \notin Copies /\ SameText(d, n)
    BY <1>1, ShapeAssumption, InitAssumption
  <2>4. node[d].raw /\ node[d].arr = NilArray
    BY <1>1, <2>1, <2>3 DEF HeapOK, NodeOK
  <2>5. QED
    BY <1>1, <2>1, <2>2, <2>3, <2>4
<1>3. /\ \A m \in Nodes : node'[m] = IF m = d THEN node[n] ELSE node[m]
      /\ \A m \in Nodes : mu'[m] = IF m = d THEN mu[n] ELSE mu[m]
  BY <1>1, <1>2 DEF TypeOK
<1>4. \A h \in Goroutines :
         /\ cur[h] \in Nodes /\ ptr[h] \in Nodes /\ cur[h] # d /\ ptr[h] # d
         /\ mu'[cur[h]] = mu[cur[h]] /\ mu'[ptr[h]] = mu[ptr[h]] /\ node'[cur[h]] = node[cur[h]]
  BY <1>1, <1>3 DEF IndInv, LocalOK, TypeOK
<1>5. /\ FrameTypeOK' /\ Elsewhere(g) /\ pc'[g] = "idle" /\ cur'[g] = d /\ ptr'[g] = d
      /\ stack'[g] = <<>> /\ mode'[g] = "type"
  BY <1>1, <1>2, ReturnStep DEF TypeOK, FrameTypeOK
<1>6. LockOK' /\ LocksTypeOK'
  BY <1>1, <1>4, <1>5, RUnlockStep DEF IndInv, LocalOK, LocksTypeOK
<1>7. TypeOK'
  <2>1. node' \in [Nodes -> NodeRecord] /\ mu' \in [Nodes -> Mutexes \cup {NoMutex}]
    BY <1>1, <1>2 DEF TypeOK
  <2>2. QED
    BY <1>1, <1>2, <1>5, <1>6, <2>1 DEF TypeOK, FrameTypeOK, LocksTypeOK
<1>8. NodeOK(d, node[n], cell)
  <2>1. NodeOK(n, node[n], cell) /\ node[n] \in NodeRecord
    BY <1>2 DEF HeapOK, TypeOK
  <2>2. /\ Len(Kids[n]) \in 0..MaxKids /\ MaxKids \in Nat
        /\ \A b \in Backings : Cap[b] \in 0..MaxKids
    BY <1>2, KidsOK
  <2>3. /\ (d \in Scalars) = (n \in Scalars) /\ ErrAt[d] = ErrAt[n] /\ Len(Kids[d]) = Len(Kids[n])
        /\ \A i \in 1..Len(Kids[n]) : Text[Kids[d][i]] = Text[Kids[n][i]]
    BY <1>2 DEF SameText
  <2>4. Fits(node[n].arr, d, cell)
    BY <2>1, <2>2, <2>3 DEF NodeOK, Fits, Slots
  <2>5. Holds(node[n].arr, node[n].len, d, cell)
    <3>1. \A j \in 1..node[n].len : j \in Slots
      BY <2>1, <2>2 DEF NodeRecord, Slots
    <3>2. QED
      BY <2>1, <2>4, <3>1 DEF NodeOK, Holds, Fits
  <2>6. QED
    BY <2>1, <2>3, <2>4, <2>5 DEF NodeOK
<1>9. HeapOK'
  <2>1. \A m \in Nodes : /\ NodeOK(m, node'[m], cell')
                         /\ m \notin Copies => mu'[m] = MutexOf[m]
                         /\ mu'[m] = NoMutex => node'[m].raw
    BY <1>1, <1>2, <1>3, <1>8 DEF HeapOK
  <2>2. NilArray # Own[d] /\ \A m \in Nodes : node[m].arr # Own[d]
    BY <1>2, InitAssumption DEF HeapOK
  <2>3. \A l, m \in Nodes : node'[m].arr = Own[l] => node'[l].arr = Own[l]
    BY <1>2, <1>3, <2>2 DEF HeapOK
  <2>4. \A m \in Nodes : node'[m].arr # Own[m] => \A i \in Slots : cell'[Own[m]][i] = Nil
    BY <1>1, <1>2, <1>3, <2>2 DEF HeapOK
  <2>5. \A l, m \in Nodes : node'[l].arr = node'[m].arr =>
               node'[l].arr = NilArray \/ (SameText(l, m) /\ mu'[l] = mu'[m])
    <3>1. \A l, m \in Nodes : node[l].arr = node[m].arr =>
               node[l].arr = NilArray \/ (SameText(l, m) /\ mu[l] = mu[m])
      BY <1>2 DEF HeapOK
    <3>2. \A m \in Nodes : SameText(n, m) => SameText(d, m) /\ SameText(m, d)
      BY <1>2 DEF SameText
    <3>3. SameText(d, d)
      BY DEF SameText
    <3>4. \A m \in Nodes : node[n].arr = node[m].arr =>
               node[n].arr = NilArray \/ (SameText(d, m) /\ SameText(m, d) /\ mu[n] = mu[m])
      BY <1>2, <3>1, <3>2
    <3>5. QED
      BY <1>3, <3>1, <3>3, <3>4
  <2>6. QED
    BY <1>1, <1>2, <2>1, <2>3, <2>4, <2>5 DEF HeapOK
<1>10. ASSUME NEW h \in Goroutines
       PROVE  LocalOK(h)'
  <2>1. CASE h = g
    BY <1>2, <1>3, <1>5, <2>1 DEF LocalOK, StackOK
  <2>2. CASE h # g
    <3>1. /\ pc'[h] = pc[h] /\ mode'[h] = mode[h] /\ call'[h] = call[h]
          /\ cur'[h] = cur[h] /\ stack'[h] = stack[h] /\ ptr'[h] = ptr[h]
      BY <1>5, <2>2 DEF Elsewhere
    <3>2. LocalOK(h) /\ stack[h] \in Seq(Nodes \X (1..MaxKids))
      BY DEF IndInv, TypeOK
    <3>3. StackOK(h)'
      <4>1. \A i \in 1..Len(stack[h]) : stack[h][i][1] \in Nodes
        BY <3>2
      <4>2. \A i \in 1..Len(stack[h]) : stack[h][i][1] # d
        BY <1>1, <3>2 DEF LocalOK, StackOK
      <4>3. QED
        BY <1>3, <3>1, <3>2, <4>1, <4>2 DEF LocalOK, StackOK, Settled
    <3>4. InFlight(cur[h]) => InFlight(cur[h])'
      <4>1. \A k \in Goroutines : pc[k] = "locked" => pc'[k] = "locked" /\ cur'[k] = cur[k]
        BY <1>1, <1>5 DEF Elsewhere
      <4>2. QED
        BY <3>1, <4>1 DEF InFlight
    <3>5. Settled(cur[h])' = Settled(cur[h])
      BY <1>4, <3>1 DEF Settled
    <3>6. QED
      BY <1>4, <3>1, <3>2, <3>3, <3>4, <3>5 DEF LocalOK
  <2>3. QED
    BY <2>1, <2>2
<1>11. QED
  BY <1>6, <1>7, <1>9, <1>10 DEF IndInv

\* The initial states satisfy IndInv if nodes that share an array share a mutex.
LEMMA InitStep ==
    ASSUME MutexPerArray, Init
    PROVE  IndInv
<1>1. /\ node = InitNode /\ cell = InitCell /\ mu = MutexOf
      /\ readers = [m \in Mutexes |-> {}] /\ writer = [m \in Mutexes |-> None]
      /\ pc = [g \in Goroutines |-> "idle"] /\ stack = [g \in Goroutines |-> <<>>]
      /\ mode = [g \in Goroutines |-> "type"] /\ call = [g \in Goroutines |-> "check"]
      /\ idx = [g \in Goroutines |-> 1]
  BY DEF Init
<1>2. PICK r \in Roots : cur = [g \in Goroutines |-> r] /\ ptr = cur
  BY DEF Init
<1>3. r \in Nodes /\ r \notin Copies /\ MutexOf[r] # NoMutex
  BY ShapeAssumption
<1>4. <<>> \in Seq(Nodes \X (1..MaxKids)) /\ 1 \in 1..(MaxKids + 1)
  BY ShapeAssumption
<1>5. TypeOK
  <2>1. InitCell \in [Backings -> [Slots -> Nodes \cup {Nil}]]
    BY InitAssumption
  <2>2. QED
    BY <1>1, <1>2, <1>3, <1>4, <2>1, ShapeAssumption, InitAssumption DEF TypeOK, Modes, Calls
<1>6. HeapOK
  <2>1. \A n, m \in Nodes : InitNode[n].arr = InitNode[m].arr =>
           InitNode[n].arr = NilArray \/ (SameText(n, m) /\ MutexOf[n] = MutexOf[m])
    <3>1. \A n \in Copies : InitNode[n].arr = NilArray
      BY ShapeAssumption, InitAssumption DEF NodeOK
    <3>2. QED
      BY <3>1, InitAssumption DEF MutexPerArray
  <2>2. \A b \in Backings, i \in Slots : InitCell[b][i] \notin Copies
    BY ShapeAssumption, InitAssumption
  <2>3. QED
    BY <1>1, <2>1, <2>2, ShapeAssumption, InitAssumption DEF HeapOK
<1>7. LockOK
  BY <1>1, ShapeAssumption DEF LockOK
<1>8. ASSUME NEW g \in Goroutines
      PROVE  LocalOK(g)
  BY <1>1, <1>2, <1>3 DEF LocalOK, StackOK
<1>9. QED
  BY <1>5, <1>6, <1>7, <1>8 DEF IndInv

\* Every step of the specification keeps the invariant.
LEMMA NextStep ==
    ASSUME IndInv, [Next]_vars
    PROVE  IndInv'
<1>1. CASE UNCHANGED vars
  <2>1. /\ node' = node /\ cell' = cell /\ mu' = mu /\ readers' = readers /\ writer' = writer
        /\ pc' = pc /\ mode' = mode /\ call' = call /\ cur' = cur /\ idx' = idx /\ stack' = stack
        /\ ptr' = ptr
    BY <1>1 DEF vars, heap, locks, frame
  <2>2. TypeOK' /\ HeapOK'
    BY <2>1 DEF IndInv, TypeOK, HeapOK
  <2>3. LockOK'
    <3>1. LockOK
      BY DEF IndInv
    <3>2. QED
      BY <2>1, <3>1 DEF LockOK
  <2>4. ASSUME NEW g \in Goroutines
        PROVE  LocalOK(g)'
    <3>1. LocalOK(g)
      BY DEF IndInv
    <3>2. QED
      BY <2>1, <3>1 DEF LocalOK, StackOK, Settled, InFlight
  <2>5. QED
    BY <2>2, <2>3, <2>4 DEF IndInv
<1>2. ASSUME NEW g \in Goroutines, NEW n \in Nodes, NEW m \in APIs, Start(g, n, m)
      PROVE  IndInv'
  BY <1>2, StartStep
<1>3. ASSUME NEW g \in Goroutines, Step(g)
      PROVE  IndInv'
  BY <1>3, LockStep, CheckNodeStep, EnsureLoadedStep, FinishLazyStep, PeekRawStep,
     SnapshotStep, MaterializeStep, LoadNextStep, UnlockStep, UseGetStep, UseVisitStep,
     UseLeaveStep DEF Step
<1>4. QED
  BY <1>1, <1>2, <1>3 DEF Next

-----------------------------------------------------------------------------
\* IndInv holds in every state of the readers' protocol (lazy.go, node.go) when
\* nodes that share a slot array share their mutex.
THEOREM Invariance ==
    ASSUME MutexPerArray
    PROVE  Spec => []IndInv
<1>1. Init => IndInv
  BY InitStep
<1>2. IndInv /\ [Next]_vars => IndInv'
  BY NextStep
<1>3. QED
  BY <1>1, <1>2, PTL DEF Spec

\* Every variable keeps its type, for any number of readers and every heap in which
\* nodes that share a slot array share a mutex.
THEOREM TypeCorrect ==
    ASSUME MutexPerArray
    PROVE  Spec => []TypeOK
<1>1. IndInv => TypeOK
  BY DEF IndInv
<1>2. QED
  BY <1>1, Invariance, PTL

\* Two goroutines never touch the same node fields or child slot at once if one
\* of them writes: a loader has drained the readers of its mutex, an unlocked
\* reader stands at a settled node, and whoever shares the array shares the mutex.
THEOREM RaceFree ==
    ASSUME MutexPerArray
    PROVE  Spec => []NoDataRace
<1>1. ASSUME IndInv
      PROVE  NoDataRace
  <2> SUFFICES ASSUME NEW g \in Goroutines, NEW h \in Goroutines, g # h
               PROVE  /\ FieldsWritten(g) \cap (FieldsRead(h) \cup FieldsWritten(h)) = {}
                      /\ SlotsWritten(g) \cap (SlotsRead(h) \cup SlotsWritten(h)) = {}
    BY DEF NoDataRace
  <2>1. TypeOK /\ HeapOK /\ LockOK /\ LocalOK(g) /\ LocalOK(h)
    BY <1>1 DEF IndInv
  <2>2. /\ cur[g] \in Nodes /\ cur[h] \in Nodes
        /\ mu[cur[g]] \in Mutexes /\ mu[cur[h]] \in Mutexes
        /\ node[cur[g]] \in NodeRecord /\ node[cur[h]] \in NodeRecord
    BY <2>1 DEF TypeOK, LocalOK
  <2>3. pc[g] = "locked" /\ mu[cur[g]] = mu[cur[h]] => pc[h] \notin {"rheld", "locked"}
    BY <2>1, <2>2 DEF LockOK
  <2>4. pc[h] = "use" => Settled(cur[h])
    BY <2>1 DEF LocalOK
  <2>5. FieldsWritten(g) \cap (FieldsRead(h) \cup FieldsWritten(h)) = {}
    <3>1. CASE cur[g] = cur[h] /\ pc[g] = "locked" /\ ~Settled(cur[g])
      <4>1. pc[h] \notin {"rheld", "locked", "use"}
        BY <2>3, <2>4, <3>1
      <4>2. QED
        BY <4>1 DEF FieldsWritten, FieldsRead
    <3>2. CASE cur[g] # cur[h] \/ pc[g] # "locked" \/ Settled(cur[g])
      BY <3>2 DEF FieldsWritten, FieldsRead
    <3>3. QED
      BY <3>1, <3>2
  <2>6. CASE ~(pc[g] = "locked" /\ node[cur[g]].pos # 0)
    <3>1. SlotsWritten(g) = {}
      BY <2>6 DEF SlotsWritten
    <3>2. QED
      BY <2>5, <3>1
  <2>7. CASE pc[g] = "locked" /\ node[cur[g]].pos # 0
    <3> DEFINE r == node[cur[g]]
               t == node[cur[h]]
    <3>1. SlotsWritten(g) \subseteq {<<r.arr, r.len + 1>>} /\ (SlotsWritten(g) # {} =>
             r.len < Cap[r.arr] /\ cell[r.arr][r.len + 1] = Nil)
      BY DEF SlotsWritten
    <3>2. CASE t.arr = r.arr /\ r.len < Cap[r.arr]
      <4>1. r.arr # NilArray /\ mu[cur[g]] = mu[cur[h]]
        <5>1. r.arr # NilArray
          BY <2>2, <3>2, KidsOK DEF NodeRecord
        <5>2. QED
          BY <2>1, <2>2, <3>2, <5>1 DEF HeapOK
      <4>2. pc[h] # "locked"
        BY <2>3, <2>7, <4>1
      <4>3. SlotsWritten(h) = {} /\ SlotsRead(h) \subseteq {r.arr} \X (1..t.len)
        BY <3>2, <4>2 DEF SlotsWritten, SlotsRead
      <4>4. \A j \in 1..t.len : cell[r.arr][j] # Nil
        BY <2>1, <2>2, <3>2 DEF HeapOK, NodeOK, Holds
      <4>5. SlotsWritten(g) # {} => r.len + 1 \notin 1..t.len
        BY <3>1, <4>4
      <4>6. QED
        BY <2>5, <3>1, <4>3, <4>5
    <3>3. CASE ~(t.arr = r.arr /\ r.len < Cap[r.arr])
      <4>1. SlotsRead(h) \subseteq {t.arr} \X (1..t.len)
        BY DEF SlotsRead
      <4>2. SlotsWritten(h) \subseteq {<<t.arr, t.len + 1>>}
        BY DEF SlotsWritten
      <4>3. QED
        BY <2>5, <3>1, <3>3, <4>1, <4>2
    <3>4. QED
      BY <3>2, <3>3
  <2>8. QED
    BY <2>5, <2>6, <2>7
<1>2. QED
  BY <1>1, Invariance, PTL

\* An unlocked reader sees all the children of its node's text, or the error.
THEOREM WholeValues ==
    ASSUME MutexPerArray
    PROVE  Spec => []ReadersSeeWholeValues
<1>1. ASSUME IndInv
      PROVE  ReadersSeeWholeValues
  <2>1. ASSUME NEW n \in Nodes, Settled(n)
        PROVE  WholeValue(n)
    BY <1>1, <2>1 DEF IndInv, HeapOK, NodeOK, WholeValue, Settled
  <2>2. ASSUME NEW g \in Goroutines
        PROVE  /\ pc[g] = "use" => WholeValue(cur[g])
               /\ \A i \in 1..Len(stack[g]) :
                    WholeValue(stack[g][i][1]) /\ ~node[stack[g][i][1]].err
    <3>1. LocalOK(g) /\ cur[g] \in Nodes /\ stack[g] \in Seq(Nodes \X (1..MaxKids))
      BY <1>1 DEF IndInv, TypeOK
    <3>2. \A i \in 1..Len(stack[g]) : stack[g][i][1] \in Nodes
      BY <3>1
    <3>3. QED
      BY <2>1, <3>1, <3>2 DEF LocalOK, StackOK
  <2>3. QED
    BY <2>2 DEF ReadersSeeWholeValues
<1>2. QED
  BY <1>1, Invariance, PTL

\* Nobody holds a lock while waiting for another.
THEOREM NoHoldAndWait ==
    ASSUME MutexPerArray
    PROVE  Spec => []NoLockWhileAcquiring
<1>1. IndInv => NoLockWhileAcquiring
  BY DEF IndInv, LockOK, NoLockWhileAcquiring
<1>2. QED
  BY <1>1, Invariance, PTL

\* The heap changes only under a write lock or by a snapshot, and neither
\* touches a settled node or a slot that is in use.
LEMMA HeapStep ==
    ASSUME IndInv, NEW g \in Goroutines, Step(g)
    PROVE  /\ \A n \in Nodes : mu[n] # NoMutex /\ Settled(n) => node'[n] = node[n]
           /\ \A b \in Backings, i \in Slots : cell[b][i] # Nil => cell'[b][i] = cell[b][i]
<1>1. TypeOK /\ HeapOK /\ LocalOK(g) /\ cur[g] \in Nodes
  BY DEF IndInv, TypeOK
<1>2. CASE Materialize(g)
  <2>1. node[cur[g]].raw /\ cell' = cell /\ \A n \in Nodes : n # cur[g] => node'[n] = node[n]
    BY <1>1, <1>2 DEF Materialize, StillRaw, TypeOK
  <2>2. QED
    BY <2>1 DEF Settled
<1>3. CASE LoadNext(g)
  <2> DEFINE n == cur[g]
             r == node[n]
             s == r.len + 1
  <2>1. r.pos # 0 /\ \A m \in Nodes : m # n => node'[m] = node[m]
    BY <1>1, <1>3 DEF LoadNext, TypeOK
  <2>2. CASE cell' = cell
    BY <2>1, <2>2 DEF Settled
  <2>3. CASE cell' = [cell EXCEPT ![r.arr][s] = FillSlot(@, Kids[n][r.pos])]
    <3>1. \A b \in Backings, i \in Slots : cell[b][i] # Nil => cell'[b][i] = cell[b][i]
      BY <1>1, <2>3 DEF FillSlot, TypeOK
    <3>2. QED
      BY <2>1, <3>1 DEF Settled
  <2>4. CASE s > Cap[r.arr] /\ Kids[n] # <<>>
             /\ cell' = [cell EXCEPT ![Own[n]] =
                           [i \in Slots |-> IF i < s THEN cell[r.arr][i]
                                            ELSE IF i = s THEN Kids[n][r.pos] ELSE Nil]]
    <3>1. r \in NodeRecord /\ NodeOK(n, r, cell)
      BY <1>1 DEF TypeOK, HeapOK
    <3>2. s <= MaxKids
      <4>1. Kids[n] \in Seq(Nodes \ Copies) /\ Len(Kids[n]) \in 0..MaxKids /\ MaxKids \in Nat
        BY <1>1, KidsOK
      <4>2. Len(Kids[n]) # 0
        BY <2>4, <4>1, EmptySeq
      <4>3. QED
        BY <2>1, <3>1, <4>1, <4>2 DEF NodeOK, NodeRecord
    <3>3. r.arr # Own[n]
      BY <1>1, <2>4, <3>1, <3>2, KidsOK DEF NodeRecord
    <3>4. \A i \in Slots : cell[Own[n]][i] = Nil
      BY <1>1, <3>3 DEF HeapOK
    <3>5. \A b \in Backings, i \in Slots : cell[b][i] # Nil => cell'[b][i] = cell[b][i]
      BY <1>1, <2>4, <3>4 DEF TypeOK
    <3>6. QED
      BY <2>1, <3>5 DEF Settled
  <2>5. QED
    BY <1>3, <2>2, <2>3, <2>4 DEF LoadNext
<1>4. CASE Snapshot(g)
  <2>1. cell' = cell /\ \A n \in Nodes : mu[n] # NoMutex => node'[n] = node[n]
    BY <1>1, <1>4 DEF Snapshot, TypeOK
  <2>2. QED
    BY <2>1
<1>5. CASE node' = node /\ cell' = cell
  BY <1>5
<1>6. QED
  BY <1>2, <1>3, <1>4, <1>5 DEF Step, RLock, LockAnnounce, LockAcquire, CheckNode, EnsureLoaded,
     FinishLazy, PeekRaw, Unlock, UseGet, UseVisit, UseLeave, UseError, heap

\* No step of the specification changes a settled node or a slot that is set.
LEMMA HeapNext ==
    ASSUME IndInv, [Next]_vars
    PROVE  /\ \A n \in Nodes : mu[n] # NoMutex /\ Settled(n) => node'[n] = node[n]
           /\ \A b \in Backings, i \in Slots : cell[b][i] # Nil => cell'[b][i] = cell[b][i]
<1>1. CASE node' = node /\ cell' = cell
  BY <1>1
<1>2. CASE \E g \in Goroutines : Step(g)
  BY <1>2, HeapStep
<1>3. QED
  BY <1>1, <1>2 DEF Next, Start, vars, heap

\* A child pointer in a slot is never replaced, whichever copy of the node
\* loads its cursor through the array.
THEOREM WrittenOnce ==
    ASSUME MutexPerArray
    PROVE  Spec => SlotsAreWrittenOnce
<1>1. IndInv /\ [Next]_vars =>
        [\A b \in Backings, i \in Slots : cell[b][i] # Nil => cell'[b][i] = cell[b][i]]_vars
  BY HeapNext
<1>2. QED
  BY <1>1, Invariance, PTL DEF Spec, SlotsAreWrittenOnce

\* A settled node and the child pointers it exposes never change again.
THEOREM Frozen ==
    ASSUME MutexPerArray
    PROVE  Spec => SettledNodesAreFrozen
<1>1. ASSUME IndInv, [Next]_vars, NEW n \in Nodes, mu[n] # NoMutex, Settled(n)
      PROVE  node'[n] = node[n] /\ \A i \in 1..node[n].len : Slot(n, i)' = Slot(n, i)
  <2>1. node'[n] = node[n]
    BY <1>1, HeapNext
  <2>2. ASSUME NEW i \in 1..node[n].len
        PROVE  Slot(n, i)' = Slot(n, i)
    <3>1. i \in Slots /\ node[n].arr \in Backings /\ cell[node[n].arr][i] # Nil
      <4>1. node[n] \in NodeRecord /\ NodeOK(n, node[n], cell)
        BY <1>1 DEF IndInv, TypeOK, HeapOK
      <4>2. QED
        BY <4>1, ShapeAssumption DEF NodeRecord, NodeOK, Holds, Slots
    <3>2. QED
      BY <1>1, <2>1, <3>1, HeapNext DEF Slot
  <2>3. QED
    BY <2>1, <2>2
<1>2. IndInv /\ [Next]_vars =>
        [\A n \in Nodes : mu[n] # NoMutex /\ Settled(n) =>
            /\ node'[n] = node[n]
            /\ \A i \in 1..node[n].len : Slot(n, i)' = Slot(n, i)]_vars
  BY <1>1
<1>3. QED
  BY <1>2, Invariance, PTL DEF Spec, SettledNodesAreFrozen
-----------------------------------------------------------------------------
(* The refinement.                                                          *)

\* The texts of node n's children, as the abstract specification counts them.
KidTexts(n) == [i \in 1..Len(Kids[n]) |-> Text[Kids[n][i]]]
Outcome(n) == IF ErrAt[n] # 0 THEN "error" ELSE "loaded"

\* The observable state of a node is a function of its status.
LEMMA Observed ==
    ASSUME IndInv, NEW n \in Nodes
    PROVE  /\ NodeValue[n] = IF mu[n] = NoMutex THEN "absent"
                             ELSE IF Settled(n) THEN Outcome(n) ELSE "lazy"
           /\ ChildTexts[n] = IF NodeValue[n] = "loaded" THEN KidTexts(n) ELSE <<>>
<1>1. NodeOK(n, node[n], cell) /\ node[n] \in NodeRecord
  BY DEF IndInv, TypeOK, HeapOK
<1>2. Settled(n) => (node[n].err <=> ErrAt[n] # 0)
  BY <1>1 DEF NodeOK, Settled
<1>3. NodeValue[n] = IF mu[n] = NoMutex THEN "absent"
                     ELSE IF Settled(n) THEN Outcome(n) ELSE "lazy"
  BY <1>2 DEF NodeValue, Outcome
<1>4. NodeValue[n] = "loaded" => Settled(n) /\ ~node[n].err
  BY <1>2, <1>3 DEF Outcome
<1>5. NodeValue[n] = "loaded" => [i \in 1..node[n].len |-> Text[Slot(n, i)]] = KidTexts(n)
  BY <1>1, <1>4 DEF NodeOK, Holds, Settled, Slot, KidTexts
<1>6. ChildTexts[n] = IF NodeValue[n] = "loaded"
                      THEN [i \in 1..node[n].len |-> Text[Slot(n, i)]] ELSE <<>>
  BY DEF ChildTexts
<1>7. QED
  BY <1>3, <1>5, <1>6

\* Functions on Nodes that agree but for one argument.
LEMMA Updated ==
    ASSUME NEW d \in Nodes, NEW f, NEW h, NEW v,
           f = [n \in Nodes |-> f[n]], h = [n \in Nodes |-> h[n]],
           h[d] = v, \A n \in Nodes : n # d => h[n] = f[n]
    PROVE  h = [f EXCEPT ![d] = v]
  OBVIOUS

\* Every node shows that it is unresolved or what its text determines; a copy may be absent.
LEMMA ValueInit ==
    ASSUME IndInv
    PROVE  Value!Init
<1>1. ASSUME NEW n \in Nodes
      PROVE  NodeValue[n] \in {"lazy", Value!Outcome(n)} \/ (n \in Copies /\ NodeValue[n] = "absent")
  <2>1. mu[n] = NoMutex => n \in Copies
    BY ShapeAssumption DEF IndInv, HeapOK
  <2>2. Value!Outcome(n) = Outcome(n)
    BY DEF Value!Outcome, Outcome
  <2>3. QED
    BY <2>1, <2>2, Observed
<1>2. ChildTexts = [n \in Nodes |-> IF NodeValue[n] = Value!Outcome(n) THEN Value!Content(n) ELSE <<>>]
  <2>1. ASSUME NEW n \in Nodes
        PROVE  ChildTexts[n] = IF NodeValue[n] = Value!Outcome(n) THEN Value!Content(n) ELSE <<>>
    BY Observed DEF Value!Outcome, Value!Content, Outcome, KidTexts
  <2>2. ChildTexts = [n \in Nodes |-> ChildTexts[n]]
    BY DEF ChildTexts
  <2>3. QED
    BY <2>1, <2>2
<1>3. QED
  BY <1>1, <1>2 DEF Value!Init

\* What Observed says of the next state.
LEMMA ObservedNext ==
    ASSUME IndInv', NEW n \in Nodes
    PROVE  /\ NodeValue'[n] = IF mu'[n] = NoMutex THEN "absent"
                              ELSE IF Settled(n)' THEN Outcome(n) ELSE "lazy"
           /\ ChildTexts'[n] = IF NodeValue'[n] = "loaded" THEN KidTexts(n) ELSE <<>>
<1>1. (/\ NodeValue[n] = IF mu[n] = NoMutex THEN "absent"
                         ELSE IF Settled(n) THEN Outcome(n) ELSE "lazy"
       /\ ChildTexts[n] = IF NodeValue[n] = "loaded" THEN KidTexts(n) ELSE <<>>)'
  BY Observed, PTL
<1>2. QED
  BY <1>1 DEF Outcome, KidTexts

\* Nodes whose fields and mutex a step leaves alone look the same afterwards.
LEMMA Unobserved ==
    ASSUME IndInv, IndInv', NEW n \in Nodes, node'[n] = node[n], mu'[n] = mu[n]
    PROVE  NodeValue'[n] = NodeValue[n] /\ ChildTexts'[n] = ChildTexts[n]
<1>1. /\ NodeValue'[n] = IF mu'[n] = NoMutex THEN "absent"
                         ELSE IF Settled(n)' THEN Outcome(n) ELSE "lazy"
      /\ ChildTexts'[n] = IF NodeValue'[n] = "loaded" THEN KidTexts(n) ELSE <<>>
  BY ObservedNext
<1>2. Settled(n)' = Settled(n)
  BY DEF Settled
<1>3. QED
  BY <1>1, <1>2, Observed

\* A step of the loader of node n resolves it or is not observed.
LEMMA ResolveStep ==
    ASSUME IndInv, IndInv', NEW n \in Nodes, ~Settled(n), mu[n] # NoMutex, mu' = mu,
           \A m \in Nodes : m # n => node'[m] = node[m]
    PROVE  Value!Resolve(n) \/ UNCHANGED <<NodeValue, ChildTexts>>
<1>1. \A m \in Nodes : m # n => NodeValue'[m] = NodeValue[m] /\ ChildTexts'[m] = ChildTexts[m]
  BY Unobserved
<1>2. /\ NodeValue = [m \in Nodes |-> NodeValue[m]] /\ NodeValue' = [m \in Nodes |-> NodeValue'[m]]
      /\ ChildTexts = [m \in Nodes |-> ChildTexts[m]]
      /\ ChildTexts' = [m \in Nodes |-> ChildTexts'[m]]
  BY DEF NodeValue, ChildTexts
<1>3. NodeValue[n] = "lazy" /\ ChildTexts[n] = <<>>
  BY Observed
<1>4. CASE Settled(n)'
  <2>1. NodeValue'[n] = Outcome(n) /\ ChildTexts'[n] = IF Outcome(n) = "loaded" THEN KidTexts(n) ELSE <<>>
    BY <1>4, ObservedNext
  <2>2. NodeValue'[n] = Value!Outcome(n) /\ ChildTexts'[n] = Value!Content(n)
    BY <2>1 DEF Value!Outcome, Value!Content, Outcome, KidTexts
  <2>3. /\ NodeValue' = [NodeValue EXCEPT ![n] = Value!Outcome(n)]
        /\ ChildTexts' = [ChildTexts EXCEPT ![n] = Value!Content(n)]
    BY <1>1, <1>2, <2>2, Updated
  <2>4. QED
    BY <1>3, <2>3 DEF Value!Resolve
<1>5. CASE ~Settled(n)'
  <2>1. NodeValue'[n] = "lazy" /\ ChildTexts'[n] = <<>>
    BY <1>5, ObservedNext
  <2>2. QED
    BY <1>1, <1>2, <1>3, <2>1
<1>6. QED
  BY <1>4, <1>5

\* A snapshot copies the observable state of its original.
LEMMA CopyStep ==
    ASSUME IndInv, IndInv', NEW g \in Goroutines, Snapshot(g)
    PROVE  \E d \in Copies : Value!Copy(d)
<1> DEFINE n == cur[g]
<1>1. PICK d \in Copies :
        /\ CopyOf[d] = n /\ mu[d] = NoMutex
        /\ node' = [node EXCEPT ![d] = node[n]] /\ mu' = [mu EXCEPT ![d] = mu[n]]
  BY DEF Snapshot
<1>2. n \in Nodes /\ d \in Nodes /\ mu[n] # NoMutex /\ SameText(d, n) /\ TypeOK /\ n # d
  BY <1>1, ShapeAssumption, InitAssumption DEF IndInv, TypeOK, LocalOK
<1>3. \A m \in Nodes : m # d => NodeValue'[m] = NodeValue[m] /\ ChildTexts'[m] = ChildTexts[m]
  BY <1>1, <1>2, Unobserved DEF TypeOK
<1>4. /\ NodeValue = [m \in Nodes |-> NodeValue[m]] /\ NodeValue' = [m \in Nodes |-> NodeValue'[m]]
      /\ ChildTexts = [m \in Nodes |-> ChildTexts[m]]
      /\ ChildTexts' = [m \in Nodes |-> ChildTexts'[m]]
  BY DEF NodeValue, ChildTexts
<1>5. mu'[d] = mu[n] /\ Settled(d)' = Settled(n)
  BY <1>1, <1>2 DEF TypeOK, Settled
<1>6. Outcome(d) = Outcome(n) /\ KidTexts(d) = KidTexts(n)
  BY <1>2 DEF SameText, Outcome, KidTexts
<1>7. NodeValue'[d] = NodeValue[n] /\ ChildTexts'[d] = ChildTexts[n] /\ NodeValue[n] # "absent"
  <2>1. NodeValue[n] = (IF Settled(n) THEN Outcome(n) ELSE "lazy")
        /\ ChildTexts[n] = IF NodeValue[n] = "loaded" THEN KidTexts(n) ELSE <<>>
    BY <1>2, Observed
  <2>2. NodeValue'[d] = (IF Settled(n) THEN Outcome(n) ELSE "lazy")
        /\ ChildTexts'[d] = IF NodeValue'[d] = "loaded" THEN KidTexts(n) ELSE <<>>
    BY <1>2, <1>5, <1>6, ObservedNext
  <2>3. QED
    BY <2>1, <2>2 DEF Outcome
<1>8. NodeValue[d] = "absent"
  BY <1>1, <1>2, Observed
<1>9. /\ NodeValue' = [NodeValue EXCEPT ![d] = NodeValue[CopyOf[d]]]
      /\ ChildTexts' = [ChildTexts EXCEPT ![d] = ChildTexts[CopyOf[d]]]
  BY <1>1, <1>2, <1>3, <1>4, <1>7, Updated
<1>10. QED
  BY <1>1, <1>7, <1>8, <1>9 DEF Value!Copy

\* A step resolves one node, copies one, or shows nothing.
LEMMA ValueStep ==
    ASSUME IndInv, IndInv', [Next]_vars
    PROVE  [Value!Next]_<<NodeValue, ChildTexts>>
<1>1. ASSUME node' = node, cell' = cell, mu' = mu
      PROVE  UNCHANGED <<NodeValue, ChildTexts>>
  <2>1. \A n \in Nodes : NodeValue'[n] = NodeValue[n] /\ ChildTexts'[n] = ChildTexts[n]
    BY <1>1, Unobserved
  <2>2. /\ NodeValue = [m \in Nodes |-> NodeValue[m]] /\ NodeValue' = [m \in Nodes |-> NodeValue'[m]]
        /\ ChildTexts = [m \in Nodes |-> ChildTexts[m]]
        /\ ChildTexts' = [m \in Nodes |-> ChildTexts'[m]]
    BY DEF NodeValue, ChildTexts
  <2>3. QED
    BY <2>1, <2>2
<1>2. ASSUME NEW g \in Goroutines, Materialize(g) \/ LoadNext(g)
      PROVE  Value!Resolve(cur[g]) \/ UNCHANGED <<NodeValue, ChildTexts>>
  <2>1. /\ cur[g] \in Nodes /\ mu[cur[g]] # NoMutex /\ ~Settled(cur[g]) /\ mu' = mu
        /\ \A m \in Nodes : m # cur[g] => node'[m] = node[m]
    BY <1>2 DEF IndInv, TypeOK, LocalOK, Materialize, LoadNext, StillRaw, Settled
  <2>2. QED
    BY <2>1, ResolveStep
<1>3. ASSUME NEW g \in Goroutines, Snapshot(g)
      PROVE  \E d \in Copies : Value!Copy(d)
  BY <1>3, CopyStep
<1>4. \A g \in Goroutines : cur[g] \in Nodes
  BY DEF IndInv, TypeOK
<1>5. Next => \/ node' = node /\ cell' = cell /\ mu' = mu
              \/ \E g \in Goroutines : Materialize(g) \/ LoadNext(g) \/ Snapshot(g)
  BY DEF Next, Start, Step, RLock, LockAnnounce, LockAcquire, CheckNode, EnsureLoaded,
     FinishLazy, PeekRaw, Unlock, UseGet, UseVisit, UseLeave, UseError, heap
<1>6. UNCHANGED vars => node' = node /\ cell' = cell /\ mu' = mu
  BY DEF vars, heap
<1>7. QED
  BY <1>1, <1>2, <1>3, <1>4, <1>5, <1>6 DEF Value!Next

\* What readers observe of a node (node.go:190-197, 886-918, 1171-1249) changes
\* at most once, from unresolved to the value or the error its text determines;
\* a snapshot starts from what its original shows.
THEOREM Refinement ==
    ASSUME MutexPerArray
    PROVE  Spec => ImplementsNodeValue
<1>1. IndInv => Value!Init
  BY ValueInit
<1>2. IndInv /\ IndInv' /\ [Next]_vars => [Value!Next]_<<NodeValue, ChildTexts>>
  BY ValueStep
<1>3. QED
  BY <1>1, <1>2, Invariance, PTL DEF Spec, ImplementsNodeValue, Value!Spec
=============================================================================
